--------------------------- MODULE PeerWireProofs ---------------------------
(***************************************************************************)
(* Proofs about PeerWire, for any messages, lengths and buffer sizes.      *)
(*                                                                         *)
(* The argument is about positions in the stream: the bytes that there     *)
(* would be on the wire if no write ever failed.  The frames of the calls  *)
(* lie in it one behind the other (Layout); the reader stands between two  *)
(* frames, or behind the length in one; what is on the wire begins where   *)
(* it stands, and as long as no write has failed the buffer of the writer  *)
(* and the writes that its call has still to make follow (StreamInv).      *)
(***************************************************************************)
EXTENDS PeerWire, SequenceTheorems, WellFoundedInduction, TLAPS

Frame(m) == Encoded(LengthOf(m)) \o Payload(m)
FrameLen(m) == LenSize + LengthOf(m)

(* Frame i of the calls ms ends at off[i] of the stream T. *)
Layout(T, off, ms) ==
  /\ T \in Seq(Bytes)
  /\ off \in [0..Len(ms) -> Nat]
  /\ off[0] = 0
  /\ off[Len(ms)] = Len(T)
  /\ \A i \in 1..Len(ms) :
       /\ off[i] = off[i - 1] + FrameLen(ms[i])
       /\ off[i] <= Len(T)
       /\ \A j \in 1..FrameLen(ms[i]) : T[off[i - 1] + j] = Frame(ms[i])[j]

(* The bytes s are those of the stream T behind position p. *)
At(s, T, p) ==
  /\ p + Len(s) <= Len(T)
  /\ \A j \in 1..Len(s) : s[j] = T[p + j]

(* Where in its frame the k-th write of a call begins. *)
Start(m, k) ==
  IF k = 1 THEN 0
  ELSE IF k = Len(Writes(m)) THEN LenSize + Len(Ids(m))
  ELSE LenSize + k - 2

(* The write that the current call has to make next. *)
Turn == Len(Writes(Last(sent))) - Len(todo) + 1

(* The call in progress has done its first writes; the bare connection has *)
(* no buffer.                                                              *)
WriterInv ==
  /\ ~buffered => buf = <<>> /\ ~failed
  /\ pc = "write" =>
       /\ Len(sent) > 0
       /\ Turn \in 1..Len(Writes(Last(sent)))
       /\ todo = SubSeq(Writes(Last(sent)), Turn, Len(Writes(Last(sent))))

(* The bound of the model. *)
Bounded == Len(sent) <= MaxCalls

(* No byte will be added to the wire. *)
Frozen == failed \/ pc = "stopped"

(* The end of what the writer has put into the stream so far. *)
WriterAt(T, off) ==
  IF pc = "write" THEN off[Len(sent) - 1] + Start(Last(sent), Turn) ELSE Len(T)

ReaderAt(off) == off[Len(got)] + IF rd = "body" THEN LenSize ELSE 0

(* What the writer was told is written is with the reader or on the wire. *)
OnTheWay(off) ==
  /\ accepted <= Len(sent)
  /\ off[accepted] <= ReaderAt(off) + Len(wire)

Follows(T, off) ==
  /\ Layout(T, off, sent)
  /\ At(wire, T, ReaderAt(off))
  /\ OnTheWay(off)
  /\ ~Frozen =>
       /\ At(buf, T, ReaderAt(off) + Len(wire))
       /\ ReaderAt(off) + Len(wire) + Len(buf) = WriterAt(T, off)

(* The frames are as they should be. *)
Clean == buffered \/ ~swallowed

Returned ==
  /\ Len(got) <= Len(sent)
  /\ \A i \in 1..Len(got) : got[i] = Payload(sent[i])
  /\ rd \in {"body", "toolong"} => Len(got) < Len(sent) /\ need = LengthOf(sent[Len(got) + 1])
  /\ rd = "toolong" => need > limit

StreamInv ==
  Clean => Returned /\ (rd \in {"len", "body"} => \E T, off : Follows(T, off))

IInv == TypeOK /\ Bounded /\ WriterInv /\ StreamInv

------------------------------------------------------------------------------
(* The bytes of a frame *)

(* A frame is its length, its ids and its content, of known lengths. *)
LEMMA FrameFacts ==
  ASSUME NEW m \in Outgoing
  PROVE  /\ LengthOf(m) \in 1..NoLimit
         /\ Ids(m) \in Seq(Bytes) /\ Len(Ids(m)) = IF m.ext THEN 2 ELSE 1
         /\ m.content \in Seq(Bytes)
         /\ Encoded(LengthOf(m)) \in Seq(Bytes) /\ Len(Encoded(LengthOf(m))) = LenSize
         /\ Payload(m) \in Seq(Bytes) /\ Len(Payload(m)) = LengthOf(m)
         /\ Frame(m) \in Seq(Bytes) /\ Len(Frame(m)) = FrameLen(m)
<1> USE WireAssumption, LengthAssumption
<1>1. m \in [ext : BOOLEAN, id : Bytes, content : Seq(Bytes)] /\ LengthOf(m) <= NoLimit
  OBVIOUS
<1>2. m.ext \in BOOLEAN /\ m.id \in Bytes /\ m.content \in Seq(Bytes) /\ ExtID \in Bytes
  BY <1>1 DEF Bytes
<1>3. LengthOf(m) \in 1..NoLimit
  BY <1>1, <1>2 DEF LengthOf
<1>4. Ids(m) \in Seq(Bytes) /\ Len(Ids(m)) = IF m.ext THEN 2 ELSE 1
  BY <1>2 DEF Ids
<1> HIDE DEF Bytes
<1>5. Payload(m) \in Seq(Bytes) /\ Len(Payload(m)) = LengthOf(m)
  <2>1. /\ Payload(m) \in Seq(Bytes)
        /\ Len(Payload(m)) = Len(Ids(m)) + Len(m.content)
    BY <1>2, <1>4, ConcatProperties, ZenonT(60) DEF Payload
  <2>2. CASE m.ext
    BY <1>2, <1>4, <2>1, <2>2, LenProperties DEF LengthOf
  <2>3. CASE ~m.ext
    BY <1>2, <1>4, <2>1, <2>3, LenProperties DEF LengthOf
  <2> QED BY <2>2, <2>3
<1>6. Encoded(LengthOf(m)) \in [1..LenSize -> Bytes]
  BY <1>3
<1>7. Encoded(LengthOf(m)) \in Seq(Bytes) /\ Len(Encoded(LengthOf(m))) = LenSize
  BY <1>6
<1>8. Frame(m) \in Seq(Bytes) /\ Len(Frame(m)) = FrameLen(m)
  <2>1. /\ Frame(m) \in Seq(Bytes)
        /\ Len(Frame(m)) = Len(Encoded(LengthOf(m))) + Len(Payload(m))
    BY <1>5, <1>7, ConcatProperties, ZenonT(60) DEF Frame
  <2> QED BY <1>5, <1>7, <2>1 DEF FrameLen
<1> QED BY <1>2, <1>3, <1>4, <1>5, <1>7, <1>8

(* The frame begins with the length, and goes on with the payload. *)
LEMMA FrameParts ==
  ASSUME NEW m \in Outgoing
  PROVE  /\ \A j \in 1..LenSize : Frame(m)[j] = Encoded(LengthOf(m))[j]
         /\ \A j \in 1..LengthOf(m) : Frame(m)[LenSize + j] = Payload(m)[j]
         /\ \A j \in 1..Len(Ids(m)) : Frame(m)[LenSize + j] = Ids(m)[j]
         /\ \A j \in 1..Len(m.content) : Frame(m)[LenSize + Len(Ids(m)) + j] = m.content[j]
<1> USE WireAssumption, FrameFacts, ConcatProperties
<1>1. \A j \in 1..LenSize : Frame(m)[j] = Encoded(LengthOf(m))[j]
  BY DEF Frame
<1>2. \A j \in 1..LengthOf(m) : Frame(m)[LenSize + j] = Payload(m)[j]
  BY DEF Frame
<1>3. Len(Ids(m)) + Len(m.content) = LengthOf(m)
  <2>1. Len(Payload(m)) = Len(Ids(m)) + Len(m.content)
    BY DEF Payload
  <2> QED BY <2>1
<1>4. \A j \in 1..Len(Ids(m)) : Payload(m)[j] = Ids(m)[j]
  BY DEF Payload
<1>5. \A j \in 1..Len(m.content) : Payload(m)[Len(Ids(m)) + j] = m.content[j]
  BY DEF Payload
<1>6. \A j \in 1..Len(Ids(m)) : Frame(m)[LenSize + j] = Ids(m)[j]
  BY <1>2, <1>3, <1>4
<1>7. ASSUME NEW j \in 1..Len(m.content)
      PROVE  Frame(m)[LenSize + Len(Ids(m)) + j] = m.content[j]
  <2>1. Len(Ids(m)) + j \in 1..LengthOf(m)
    BY <1>3
  <2>2. LenSize + Len(Ids(m)) + j = LenSize + (Len(Ids(m)) + j)
    OBVIOUS
  <2> QED BY <1>2, <1>5, <2>1, <2>2
<1> QED BY <1>1, <1>2, <1>6, <1>7

(* A sequence with one more element. *)
LEMMA ConcatOne ==
  ASSUME NEW S, NEW s \in Seq(S), NEW u \in S
  PROVE  /\ s \o <<u>> \in Seq(S)
         /\ Len(s \o <<u>>) = Len(s) + 1
         /\ \A i \in 1..Len(s) : (s \o <<u>>)[i] = s[i]
         /\ (s \o <<u>>)[Len(s) + 1] = u
<1>1. <<u>> \in Seq(S) /\ Len(<<u>>) = 1 /\ Len(s) \in Nat /\ <<u>>[1] = u
  BY LenProperties
<1>2. /\ s \o <<u>> \in Seq(S)
      /\ Len(s \o <<u>>) = Len(s) + Len(<<u>>)
      /\ \A i \in 1..(Len(s) + Len(<<u>>)) :
           (s \o <<u>>)[i] = IF i <= Len(s) THEN s[i] ELSE <<u>>[i - Len(s)]
  BY <1>1, ConcatProperties
<1> QED BY <1>1, <1>2

(* The writes to a bare connection, or of a plain message. *)
LEMMA Concat3 ==
  ASSUME NEW x, NEW y, NEW z
  PROVE  <<x>> \o <<y>> \o <<z>> = <<x, y, z>>
<1> DEFINE S == {x, y, z}
           s == <<x>> \o <<y>>
           t == s \o <<z>>
<1>1. <<x>> \in Seq(S) /\ y \in S /\ z \in S /\ <<x, y, z>> \in Seq(S)
  OBVIOUS
<1> HIDE DEF S
<1>2. s \in Seq(S) /\ Len(s) = 2 /\ s[1] = x /\ s[2] = y
  BY <1>1, ConcatOne
<1> HIDE DEF s
<1>3. t \in Seq(S) /\ Len(t) = 3 /\ t[1] = x /\ t[2] = y /\ t[3] = z
  <2>1. /\ t \in Seq(S) /\ Len(t) = Len(s) + 1
        /\ \A i \in 1..Len(s) : t[i] = s[i]
        /\ t[Len(s) + 1] = z
    <3>1. s \in Seq(S) /\ z \in S
      BY <1>1, <1>2
    <3> QED BY <3>1, ConcatOne
  <2> HIDE DEF t
  <2> QED BY <1>2, <2>1
<1> HIDE DEF t
<1>4. t = <<x, y, z>>
  BY <1>1, <1>3, SeqEqual
<1> QED BY <1>4 DEF s, t

(* The writes of an extension message to a bufio.Writer. *)
LEMMA Concat4 ==
  ASSUME NEW x, NEW y, NEW z, NEW u
  PROVE  <<x>> \o <<y, z>> \o <<u>> = <<x, y, z, u>>
<1> DEFINE S == {x, y, z, u}
           s == <<x>> \o <<y, z>>
           t == s \o <<u>>
<1>1. /\ <<x>> \in Seq(S) /\ <<y, z>> \in Seq(S) /\ u \in S
      /\ <<x, y, z, u>> \in Seq(S)
  OBVIOUS
<1> HIDE DEF S
<1>2. s \in Seq(S) /\ Len(s) = 3 /\ s[1] = x /\ s[2] = y /\ s[3] = z
  BY <1>1, ConcatProperties
<1> HIDE DEF s
<1>3. t \in Seq(S) /\ Len(t) = 4 /\ t[1] = x /\ t[2] = y /\ t[3] = z /\ t[4] = u
  <2>1. /\ t \in Seq(S) /\ Len(t) = Len(s) + 1
        /\ \A i \in 1..Len(s) : t[i] = s[i]
        /\ t[Len(s) + 1] = u
    <3>1. s \in Seq(S) /\ u \in S
      BY <1>1, <1>2
    <3> QED BY <3>1, ConcatOne
  <2> HIDE DEF t
  <2> QED BY <1>2, <2>1
<1> HIDE DEF t
<1>4. t = <<x, y, z, u>>
  BY <1>1, <1>3, SeqEqual
<1> QED BY <1>4 DEF s, t

(* The three shapes of a call. *)
LEMMA WritesShapes ==
  ASSUME NEW m \in Outgoing, buffered \in BOOLEAN
  PROVE  /\ ~buffered => Writes(m) = <<Encoded(LengthOf(m)), Ids(m), m.content>>
         /\ buffered /\ m.ext =>
              Writes(m) = <<Encoded(LengthOf(m)), <<ExtID>>, <<m.id>>, m.content>>
         /\ buffered /\ ~m.ext => Writes(m) = <<Encoded(LengthOf(m)), <<m.id>>, m.content>>
<1> DEFINE e == Encoded(LengthOf(m))
           c == m.content
           i == Ids(m)
<1>1. CASE ~buffered
  <2>1. Writes(m) = <<e>> \o <<i>> \o <<c>>
    BY <1>1 DEF Writes
  <2> HIDE DEF e, i, c
  <2>2. <<e>> \o <<i>> \o <<c>> = <<e, i, c>>
    BY Concat3
  <2> QED BY <1>1, <2>1, <2>2 DEF e, i, c
<1>2. CASE buffered /\ m.ext
  <2>1. i = <<ExtID, m.id>>
    BY <1>2 DEF Ids
  <2>2. [j \in DOMAIN i |-> <<i[j]>>] = <<<<ExtID>>, <<m.id>>>>
    BY <2>1
  <2>3. Writes(m) = <<e>> \o <<<<ExtID>>, <<m.id>>>> \o <<c>>
    BY <1>2, <2>2 DEF Writes
  <2> HIDE DEF e, i, c
  <2>4. \A x, y : <<e>> \o <<x, y>> \o <<c>> = <<e, x, y, c>>
    BY Concat4
  <2> QED BY <1>2, <2>3, <2>4 DEF e, c
<1>3. CASE buffered /\ ~m.ext
  <2>1. i = <<m.id>>
    BY <1>3 DEF Ids
  <2>2. [j \in DOMAIN i |-> <<i[j]>>] = <<<<m.id>>>>
    BY <2>1
  <2>3. Writes(m) = <<e>> \o <<<<m.id>>>> \o <<c>>
    BY <1>3, <2>2 DEF Writes
  <2> HIDE DEF e, i, c
  <2>4. \A x : <<e>> \o <<x>> \o <<c>> = <<e, x, c>>
    BY Concat3
  <2> QED BY <1>3, <2>3, <2>4 DEF e, c
<1> QED BY <1>1, <1>2, <1>3, FrameFacts

(* The writes of a call follow upon one another, from the first byte of    *)
(* the frame to the last, and write what is in the frame.                  *)
LEMMA WritesFit ==
  ASSUME NEW m \in Outgoing, buffered \in BOOLEAN
  PROVE  /\ Writes(m) \in Seq(Seq(Bytes))
         /\ Len(Writes(m)) \in {3, 4}
         /\ \A k \in 1..Len(Writes(m)) :
              /\ Start(m, k) \in Nat
              /\ Start(m, k) + Len(Writes(m)[k])
                   = IF k = Len(Writes(m)) THEN FrameLen(m) ELSE Start(m, k + 1)
              /\ Start(m, k) + Len(Writes(m)[k]) <= FrameLen(m)
              /\ \A j \in 1..Len(Writes(m)[k]) : Writes(m)[k][j] = Frame(m)[Start(m, k) + j]
<1> DEFINE W == Writes(m)
           e == Encoded(LengthOf(m))
           i == Ids(m)
           c == m.content
           Fits(k) ==
             /\ Start(m, k) \in Nat
             /\ Start(m, k) + Len(W[k]) = IF k = Len(W) THEN FrameLen(m) ELSE Start(m, k + 1)
             /\ Start(m, k) + Len(W[k]) <= FrameLen(m)
             /\ \A j \in 1..Len(W[k]) : W[k][j] = Frame(m)[Start(m, k) + j]
<1>1. /\ e \in Seq(Bytes) /\ Len(e) = LenSize
      /\ i \in Seq(Bytes) /\ c \in Seq(Bytes)
      /\ Len(i) \in {1, 2} /\ Len(c) \in Nat
      /\ FrameLen(m) = LenSize + Len(i) + Len(c)
  <2>1. Len(Payload(m)) = Len(i) + Len(c)
    BY FrameFacts, ConcatProperties DEF Payload
  <2>2. c \in Seq(Bytes) /\ Len(c) \in Nat
    BY FrameFacts, LenProperties
  <2>3. Len(i) \in {1, 2}
    <3>1. m.ext \/ ~m.ext
      OBVIOUS
    <3> QED BY <3>1, FrameFacts
  <2>4. FrameLen(m) = LenSize + (Len(i) + Len(c))
    BY <2>1, FrameFacts DEF FrameLen
  <2> HIDE DEF e, i, c
  <2>5. LenSize + (Len(i) + Len(c)) = LenSize + Len(i) + Len(c)
    BY WireAssumption, <2>2, <2>3
  <2> QED BY FrameFacts, <2>2, <2>3, <2>4, <2>5 DEF e, i, c
<1>2. /\ \A j \in 1..LenSize : Frame(m)[j] = e[j]
      /\ \A j \in 1..Len(i) : Frame(m)[LenSize + j] = i[j]
      /\ \A j \in 1..Len(c) : Frame(m)[LenSize + Len(i) + j] = c[j]
  BY FrameParts
<1>3. /\ m.ext \in BOOLEAN /\ ExtID \in Bytes /\ m.id \in Bytes
      /\ i = IF m.ext THEN <<ExtID, m.id>> ELSE <<m.id>>
  BY WireAssumption, LengthAssumption DEF Ids, Bytes
<1>4. LenSize \in Nat
  BY WireAssumption
<1>5. CASE ~buffered
  <2>1. W = <<e, i, c>>
    BY <1>5, WritesShapes
  <2> HIDE DEF W, e, i, c
  <2>2. W \in Seq(Seq(Bytes)) /\ Len(W) = 3 /\ W[1] = e /\ W[2] = i /\ W[3] = c
    BY <1>1, <2>1
  <2>3. Start(m, 1) = 0 /\ Start(m, 2) = LenSize /\ Start(m, 3) = LenSize + Len(i)
    BY <1>4, <2>2 DEF Start, W, i
  <2>4. Fits(1)
    BY <1>1, <1>2, <1>4, <2>2, <2>3
  <2>5. Fits(2)
    <3>1. /\ Start(m, 2) \in Nat
          /\ Start(m, 2) + Len(W[2]) = Start(m, 3)
          /\ Start(m, 3) <= FrameLen(m)
      BY <1>1, <1>4, <2>2, <2>3
    <3>2. \A j \in 1..Len(i) : i[j] = Frame(m)[LenSize + j]
      BY <1>2
    <3>3. Start(m, 2) = LenSize
      BY <1>1, <1>4, <2>2, <2>3
    <3> QED BY <3>1, <3>2, <3>3, <2>2, <2>3
  <2>6. Fits(3)
    <3>1. Start(m, 3) = LenSize + Len(i) /\ W[3] = c /\ Len(W) = 3
      BY <1>4, <2>2, <2>3
    <3>2. /\ Start(m, 3) \in Nat
          /\ Start(m, 3) + Len(W[3]) = FrameLen(m)
          /\ FrameLen(m) \in Nat
      BY <1>1, <1>4, <3>1
    <3>3. \A j \in 1..Len(c) : c[j] = Frame(m)[LenSize + Len(i) + j]
      BY <1>2
    <3> QED BY <3>1, <3>2, <3>3
  <2> HIDE DEF Fits
  <2>7. \A k \in 1..Len(W) : Fits(k)
    BY <2>2, <2>4, <2>5, <2>6
  <2> QED BY <2>2, <2>7 DEF W, Fits
<1>6. CASE buffered /\ m.ext
  <2>1. W = <<e, <<ExtID>>, <<m.id>>, c>>
    BY <1>6, WritesShapes
  <2>2. i = <<ExtID, m.id>> /\ Len(i) = 2 /\ i[1] = ExtID /\ i[2] = m.id
    BY <1>3, <1>6
  <2> HIDE DEF W, e, i, c
  <2>3. /\ W \in Seq(Seq(Bytes)) /\ Len(W) = 4
        /\ W[1] = e /\ W[2] = <<ExtID>> /\ W[3] = <<m.id>> /\ W[4] = c
    BY <1>1, <1>3, <2>1
  <2>4. /\ Start(m, 1) = 0 /\ Start(m, 2) = LenSize /\ Start(m, 3) = LenSize + 1
        /\ Start(m, 4) = LenSize + 2
    BY <1>4, <2>2, <2>3 DEF Start, W, i
  <2>5. Fits(1)
    BY <1>1, <1>2, <1>4, <2>2, <2>3, <2>4
  <2>6. Fits(2)
    BY <1>1, <1>2, <1>4, <2>2, <2>3, <2>4
  <2>7. Fits(3)
    BY <1>1, <1>2, <1>4, <2>2, <2>3, <2>4
  <2>8. Fits(4)
    <3>1. Start(m, 4) = LenSize + Len(i) /\ W[4] = c /\ Len(W) = 4
      BY <1>4, <2>2, <2>3, <2>4
    <3>2. /\ Start(m, 4) \in Nat
          /\ Start(m, 4) + Len(W[4]) = FrameLen(m)
          /\ FrameLen(m) \in Nat
      BY <1>1, <1>4, <3>1
    <3>3. \A j \in 1..Len(c) : c[j] = Frame(m)[LenSize + Len(i) + j]
      BY <1>2
    <3> QED BY <3>1, <3>2, <3>3
  <2> HIDE DEF Fits
  <2>9. \A k \in 1..Len(W) : Fits(k)
    BY <2>3, <2>5, <2>6, <2>7, <2>8
  <2> QED BY <2>3, <2>9 DEF W, Fits
<1>7. CASE buffered /\ ~m.ext
  <2>1. W = <<e, <<m.id>>, c>>
    BY <1>7, WritesShapes
  <2>2. i = <<m.id>> /\ Len(i) = 1 /\ i[1] = m.id
    BY <1>3, <1>7
  <2> HIDE DEF W, e, i, c
  <2>3. /\ W \in Seq(Seq(Bytes)) /\ Len(W) = 3
        /\ W[1] = e /\ W[2] = <<m.id>> /\ W[3] = c
    BY <1>1, <1>3, <2>1
  <2>4. Start(m, 1) = 0 /\ Start(m, 2) = LenSize /\ Start(m, 3) = LenSize + 1
    BY <1>4, <2>2, <2>3 DEF Start, W, i
  <2>5. Fits(1)
    BY <1>1, <1>2, <1>4, <2>2, <2>3, <2>4
  <2>6. Fits(2)
    BY <1>1, <1>2, <1>4, <2>2, <2>3, <2>4
  <2>7. Fits(3)
    <3>1. Start(m, 3) = LenSize + Len(i) /\ W[3] = c /\ Len(W) = 3
      BY <1>4, <2>2, <2>3, <2>4
    <3>2. /\ Start(m, 3) \in Nat
          /\ Start(m, 3) + Len(W[3]) = FrameLen(m)
          /\ FrameLen(m) \in Nat
      BY <1>1, <1>4, <3>1
    <3>3. \A j \in 1..Len(c) : c[j] = Frame(m)[LenSize + Len(i) + j]
      BY <1>2
    <3> QED BY <3>1, <3>2, <3>3
  <2> HIDE DEF Fits
  <2>8. \A k \in 1..Len(W) : Fits(k)
    BY <2>3, <2>5, <2>6, <2>7
  <2> QED BY <2>3, <2>8 DEF W, Fits
<1> QED BY <1>3, <1>5, <1>6, <1>7

------------------------------------------------------------------------------
(* Pieces of the stream *)

(* Bytes that follow bytes of the stream. *)
LEMMA AtConcat ==
  ASSUME NEW S, NEW s \in Seq(S), NEW t \in Seq(S), NEW T \in Seq(S), NEW p \in Nat,
         At(s, T, p), At(t, T, p + Len(s))
  PROVE  At(s \o t, T, p)
<1>1. Len(s) \in Nat /\ Len(t) \in Nat
  BY LenProperties
<1>2. /\ Len(s \o t) = Len(s) + Len(t)
      /\ \A j \in 1..(Len(s) + Len(t)) :
           (s \o t)[j] = IF j <= Len(s) THEN s[j] ELSE t[j - Len(s)]
  BY ConcatProperties
<1>3. ASSUME NEW j \in 1..(Len(s) + Len(t)) PROVE (s \o t)[j] = T[p + j]
  <2>1. CASE j <= Len(s)
    BY <1>1, <1>2, <2>1 DEF At
  <2>2. CASE j > Len(s)
    <3>1. j - Len(s) \in 1..Len(t)
      BY <1>1, <2>2
    <3>2. t[j - Len(s)] = T[p + Len(s) + (j - Len(s))]
      BY <3>1 DEF At
    <3>3. p + Len(s) + (j - Len(s)) = p + j
      BY <1>1
    <3> QED BY <1>1, <1>2, <2>2, <3>2, <3>3
  <2> QED BY <1>1, <2>1, <2>2
<1> QED BY <1>1, <1>2, <1>3 DEF At

(* Bytes of the stream, taken apart. *)
LEMMA AtSplit ==
  ASSUME NEW S, NEW s \in Seq(S), NEW T \in Seq(S), NEW p \in Nat, At(s, T, p),
         NEW n \in 0..Len(s)
  PROVE  /\ SubSeq(s, 1, n) \in Seq(S) /\ Len(SubSeq(s, 1, n)) = n
         /\ SubSeq(s, n + 1, Len(s)) \in Seq(S)
         /\ Len(SubSeq(s, n + 1, Len(s))) = Len(s) - n
         /\ At(SubSeq(s, 1, n), T, p)
         /\ At(SubSeq(s, n + 1, Len(s)), T, p + n)
<1>1. Len(s) \in Nat /\ \A j \in 1..Len(s) : s[j] \in S
  BY LenProperties, ElementOfSeq
<1>2. /\ SubSeq(s, 1, n) \in Seq(S) /\ Len(SubSeq(s, 1, n)) = n
      /\ \A j \in 1..n : SubSeq(s, 1, n)[j] = s[j]
  BY <1>1, SubSeqProperties
<1>3. /\ SubSeq(s, n + 1, Len(s)) \in Seq(S)
      /\ Len(SubSeq(s, n + 1, Len(s))) = Len(s) - n
      /\ \A j \in 1..(Len(s) - n) : SubSeq(s, n + 1, Len(s))[j] = s[n + j]
  <2>1. /\ SubSeq(s, n + 1, Len(s)) \in Seq(S)
        /\ Len(SubSeq(s, n + 1, Len(s)))
             = IF n + 1 <= Len(s) THEN Len(s) - (n + 1) + 1 ELSE 0
        /\ \A j \in 1..(Len(s) - (n + 1) + 1) :
             SubSeq(s, n + 1, Len(s))[j] = s[n + 1 + j - 1]
    BY <1>1, SubSeqProperties
  <2>2. \A j \in 1..(Len(s) - n) : n + 1 + j - 1 = n + j
    OBVIOUS
  <2> QED BY <1>1, <2>1, <2>2
<1>4. At(SubSeq(s, 1, n), T, p)
  BY <1>1, <1>2 DEF At
<1>5. At(SubSeq(s, n + 1, Len(s)), T, p + n)
  <2>1. ASSUME NEW j \in 1..(Len(s) - n) PROVE s[n + j] = T[p + n + j]
    <3>1. n + j \in 1..Len(s) /\ p + (n + j) = p + n + j
      BY <1>1
    <3> QED BY <3>1 DEF At
  <2>2. p + n + (Len(s) - n) <= Len(T)
    BY <1>1, LenProperties DEF At
  <2> QED BY <1>3, <2>1, <2>2 DEF At
<1> QED BY <1>2, <1>3, <1>4, <1>5

(* Bytes of the stream stay where they are when it grows. *)
LEMMA AtGrow ==
  ASSUME NEW S, NEW s \in Seq(S), NEW T \in Seq(S), NEW U \in Seq(S), NEW p \in Nat, At(s, T, p)
  PROVE  At(s, T \o U, p)
<1>1. Len(s) \in Nat /\ Len(T) \in Nat /\ Len(U) \in Nat
  BY LenProperties
<1>2. /\ Len(T \o U) = Len(T) + Len(U)
      /\ \A j \in 1..(Len(T) + Len(U)) :
           (T \o U)[j] = IF j <= Len(T) THEN T[j] ELSE U[j - Len(T)]
  BY ConcatProperties
<1> QED BY <1>1, <1>2 DEF At

(* A call adds its frame to the end of the stream. *)
LEMMA LayoutGrow ==
  ASSUME NEW ms \in Seq(Outgoing), NEW m \in Outgoing, NEW T, NEW off, Layout(T, off, ms)
  PROVE  LET far == [i \in 0..(Len(ms) + 1) |->
                       IF i <= Len(ms) THEN off[i] ELSE Len(T) + FrameLen(m)]
         IN  Layout(T \o Frame(m), far, Append(ms, m))
<1> DEFINE far == [i \in 0..(Len(ms) + 1) |->
                     IF i <= Len(ms) THEN off[i] ELSE Len(T) + FrameLen(m)]
           U == T \o Frame(m)
           ns == Append(ms, m)
<1>1. /\ T \in Seq(Bytes) /\ Len(T) \in Nat /\ Len(ms) \in Nat
      /\ Frame(m) \in Seq(Bytes) /\ Len(Frame(m)) = FrameLen(m) /\ FrameLen(m) \in Nat
  BY FrameFacts, LenProperties DEF Layout
<1>2. /\ U \in Seq(Bytes) /\ Len(U) = Len(T) + FrameLen(m)
      /\ \A j \in 1..(Len(T) + FrameLen(m)) :
           U[j] = IF j <= Len(T) THEN T[j] ELSE Frame(m)[j - Len(T)]
  BY <1>1, ConcatProperties
<1>3. /\ Len(ns) = Len(ms) + 1
      /\ \A i \in 1..Len(ms) : ns[i] = ms[i]
      /\ ns[Len(ms) + 1] = m
  BY AppendProperties
<1>4. /\ off \in [0..Len(ms) -> Nat] /\ off[0] = 0 /\ off[Len(ms)] = Len(T)
      /\ \A i \in 1..Len(ms) :
           /\ off[i] = off[i - 1] + FrameLen(ms[i])
           /\ off[i] <= Len(T)
           /\ \A j \in 1..FrameLen(ms[i]) : T[off[i - 1] + j] = Frame(ms[i])[j]
  BY DEF Layout
<1>5. \A i \in 1..Len(ms) : FrameLen(ms[i]) \in Nat
  BY ElementOfSeq, FrameFacts, LenProperties
<1> HIDE DEF U, ns
<1>6. /\ far \in [0..(Len(ms) + 1) -> Nat] /\ far[0] = 0
      /\ far[Len(ms) + 1] = Len(T) + FrameLen(m)
      /\ \A i \in 0..Len(ms) : far[i] = off[i]
  BY <1>1, <1>4
<1> HIDE DEF far
<1>7. ASSUME NEW i \in 1..Len(ms)
      PROVE  /\ far[i] = far[i - 1] + FrameLen(ns[i])
             /\ far[i] <= Len(U)
             /\ \A j \in 1..FrameLen(ns[i]) : U[far[i - 1] + j] = Frame(ns[i])[j]
  <2>1. ns[i] = ms[i] /\ far[i] = off[i] /\ far[i - 1] = off[i - 1] /\ off[i - 1] \in Nat
    <3>1. i \in 0..Len(ms) /\ i - 1 \in 0..Len(ms)
      BY <1>1
    <3>2. ns[i] = ms[i]
      BY <1>3
    <3>3. far[i] = off[i] /\ far[i - 1] = off[i - 1]
      BY <1>6, <3>1
    <3>4. off[i - 1] \in Nat
      BY <1>4, <3>1
    <3> QED BY <3>2, <3>3, <3>4
  <2>2. ASSUME NEW j \in 1..FrameLen(ms[i]) PROVE U[off[i - 1] + j] = T[off[i - 1] + j]
    <3>1. /\ off[i - 1] \in Nat /\ FrameLen(ms[i]) \in Nat /\ Len(T) \in Nat /\ FrameLen(m) \in Nat
          /\ off[i - 1] + FrameLen(ms[i]) <= Len(T)
      BY <1>1, <1>4, <1>5, <2>1
    <3>2. \A x, y, z, u \in Nat : \A k \in 1..y :
            x + y <= z => x + k \in 1..(z + u) /\ x + k <= z
      OBVIOUS
    <3>3. off[i - 1] + j \in 1..(Len(T) + FrameLen(m)) /\ off[i - 1] + j <= Len(T)
      BY <3>1, <3>2
    <3> QED BY <1>2, <3>3
  <2>3. off[i] <= Len(U) /\ off[i] = off[i - 1] + FrameLen(ms[i])
    BY <1>1, <1>2, <1>4
  <2>4. \A j \in 1..FrameLen(ms[i]) : U[off[i - 1] + j] = Frame(ms[i])[j]
    BY <1>4, <2>2
  <2> QED BY <2>1, <2>3, <2>4
<1>8. /\ far[Len(ms) + 1] = far[Len(ms)] + FrameLen(m)
      /\ far[Len(ms) + 1] <= Len(U)
      /\ \A j \in 1..FrameLen(m) : U[far[Len(ms)] + j] = Frame(m)[j]
  <2>1. far[Len(ms)] = Len(T)
    <3>1. Len(ms) \in 0..Len(ms)
      BY <1>1
    <3>2. far[Len(ms)] = off[Len(ms)]
      BY <1>6, <3>1
    <3> QED BY <1>4, <3>2
  <2>2. ASSUME NEW j \in 1..FrameLen(m) PROVE U[Len(T) + j] = Frame(m)[j]
    <3>1. Len(T) + j \in 1..(Len(T) + FrameLen(m)) /\ ~(Len(T) + j <= Len(T))
          /\ Len(T) + j - Len(T) = j
      BY <1>1
    <3> QED BY <1>2, <3>1
  <2> QED BY <1>1, <1>2, <1>6, <2>1, <2>2
<1>9. ASSUME NEW i \in 1..Len(ns)
      PROVE  /\ far[i] = far[i - 1] + FrameLen(ns[i])
             /\ far[i] <= Len(U)
             /\ \A j \in 1..FrameLen(ns[i]) : U[far[i - 1] + j] = Frame(ns[i])[j]
  <2>1. CASE i \in 1..Len(ms)
    BY <1>7, <2>1
  <2>2. CASE i = Len(ms) + 1
    BY <1>1, <1>3, <1>8, <2>2
  <2> QED BY <1>1, <1>3, <2>1, <2>2
<1>10. Layout(U, far, ns)
  BY <1>2, <1>3, <1>6, <1>9 DEF Layout
<1> QED BY <1>10 DEF U, far, ns

------------------------------------------------------------------------------
(* The writer in the middle of a call *)

(* What a writer amid a call has still to write. *)
LEMMA WriterFacts ==
  ASSUME TypeOK, WriterInv, pc = "write"
  PROVE  /\ Last(sent) \in Outgoing
         /\ Len(todo) = Len(Writes(Last(sent))) - Turn + 1
         /\ Head(todo) = Writes(Last(sent))[Turn]
         /\ Head(todo) \in Seq(Bytes)
         /\ Tail(todo) = SubSeq(Writes(Last(sent)), Turn + 1, Len(Writes(Last(sent))))
         /\ Tail(todo) \in Seq(Seq(Bytes))
         /\ Len(Tail(todo)) = Len(todo) - 1
         /\ Waiting \in Seq(Bytes)
         /\ Waiting = buf \o Head(todo)
         /\ Len(Waiting) = Len(buf) + Len(Head(todo))
<1> DEFINE m == Last(sent)
           W == Writes(m)
           k == Turn
<1>1. m \in Outgoing
  BY ElementOfSeq, LenProperties DEF TypeOK, WriterInv, Last
<1>2. W \in Seq(Seq(Bytes)) /\ Len(W) \in {3, 4} /\ buffered \in BOOLEAN
  BY <1>1, WritesFit DEF TypeOK
<1>3. k \in 1..Len(W) /\ todo = SubSeq(W, k, Len(W))
  BY DEF WriterInv
<1> HIDE DEF m, W, k
<1>4. Head(todo) = W[k] /\ Tail(todo) = SubSeq(W, k + 1, Len(W))
  BY <1>2, <1>3, HeadTailOfSubSeq
<1>5. W[k] \in Seq(Bytes)
  BY <1>2, <1>3, ElementOfSeq
<1>6. todo \in Seq(Seq(Bytes)) /\ Len(todo) \in Nat
  BY LenProperties DEF TypeOK
<1>7. Len(todo) = Len(W) - k + 1
  BY <1>2, <1>6 DEF Turn, W, m, k
<1>8. todo # <<>>
  <2>1. Len(todo) > 0
    BY <1>2, <1>3, <1>7
  <2> QED BY <2>1, EmptySeq
<1>9. Tail(todo) \in Seq(Seq(Bytes)) /\ Len(Tail(todo)) = Len(todo) - 1
  BY <1>6, <1>8, HeadTailProperties
<1>10. buf \in Seq(Bytes)
  BY DEF TypeOK
<1>11. Waiting = buf \o Head(todo)
  <2>1. CASE buffered
    BY <2>1 DEF Waiting
  <2>2. CASE ~buffered
    <3>1. buf = <<>>
      BY <2>2 DEF WriterInv
    <3> QED BY <2>2, <3>1, <1>4, <1>5, ConcatEmptySeq DEF Waiting
  <2> QED BY <2>1, <2>2
<1>12. Waiting \in Seq(Bytes) /\ Len(Waiting) = Len(buf) + Len(Head(todo))
  BY <1>4, <1>5, <1>10, <1>11, ConcatProperties
<1> QED BY <1>1, <1>4, <1>5, <1>7, <1>9, <1>11, <1>12 DEF m, W, k

(* What the reader takes off the wire, and what it leaves. *)
LEMMA Taken ==
  ASSUME TypeOK, NEW n \in Nat, Take(n)
  PROVE  /\ wire' \in Seq(Bytes) /\ Len(wire') = Len(wire) - n
         /\ SubSeq(wire, 1, n) \in Seq(Bytes) /\ Len(SubSeq(wire, 1, n)) = n
         /\ n \in 0..Len(wire)
<1>1. wire \in Seq(Bytes) /\ Len(wire) \in Nat /\ \A j \in 1..Len(wire) : wire[j] \in Bytes
  BY LenProperties, ElementOfSeq DEF TypeOK
<1>2. n <= Len(wire) /\ wire' = SubSeq(wire, n + 1, Len(wire))
  BY <1>1 DEF Take
<1>3. SubSeq(wire, 1, n) \in Seq(Bytes) /\ Len(SubSeq(wire, 1, n)) = n
  BY <1>1, <1>2, SubSeqProperties
<1>4. /\ SubSeq(wire, n + 1, Len(wire)) \in Seq(Bytes)
      /\ Len(SubSeq(wire, n + 1, Len(wire))) = Len(wire) - n
  <2>1. /\ SubSeq(wire, n + 1, Len(wire)) \in Seq(Bytes)
        /\ Len(SubSeq(wire, n + 1, Len(wire)))
             = IF n + 1 <= Len(wire) THEN Len(wire) - (n + 1) + 1 ELSE 0
    BY <1>1, SubSeqProperties
  <2> QED BY <1>1, <1>2, <2>1
<1> QED BY <1>1, <1>2, <1>3, <1>4

(* Cutting what waits for the connection leaves two sequences of bytes. *)
LEMMA Cut ==
  ASSUME NEW s \in Seq(Bytes), NEW n \in 0..Len(s)
  PROVE  /\ SubSeq(s, 1, n) \in Seq(Bytes) /\ Len(SubSeq(s, 1, n)) = n
         /\ SubSeq(s, n + 1, Len(s)) \in Seq(Bytes)
         /\ Len(SubSeq(s, n + 1, Len(s))) = Len(s) - n
<1>1. At(s, s, 0)
  BY LenProperties DEF At
<1> QED BY <1>1, AtSplit

(* Every step keeps the types. *)
LEMMA TypeStep == TypeOK /\ Bounded /\ WriterInv /\ [Next]_vars => TypeOK'
<1> SUFFICES ASSUME TypeOK, Bounded, WriterInv, [Next]_vars PROVE TypeOK'
  OBVIOUS
<1> USE DEF writerVars, readerVars
<1>1. ASSUME NEW m \in Outgoing, Call(m) PROVE TypeOK'
  <2>1. todo' \in Seq(Seq(Bytes))
    BY <1>1, WritesFit DEF Call, TypeOK
  <2>2. sent' \in Seq(Outgoing)
    BY <1>1, AppendProperties DEF Call, TypeOK
  <2> QED BY <1>1, <2>1, <2>2 DEF Call, TypeOK
<1>2. CASE Write
  <2>1. PICK n \in 0..Len(Waiting) :
          /\ IF buffered THEN Len(Waiting) - n <= BufSize /\ (n > 0 => Overflows)
             ELSE n = Len(Waiting)
          /\ wire' = wire \o SubSeq(Waiting, 1, n)
          /\ buf' = SubSeq(Waiting, n + 1, Len(Waiting))
    BY <1>2 DEF Write
  <2>2. /\ Waiting \in Seq(Bytes) /\ Len(Waiting) \in Nat
        /\ Tail(todo) \in Seq(Seq(Bytes))
    BY <1>2, WriterFacts, LenProperties DEF Write
  <2>3. /\ SubSeq(Waiting, 1, n) \in Seq(Bytes)
        /\ buf' \in Seq(Bytes) /\ Len(buf') = Len(Waiting) - n
    BY <2>1, <2>2, Cut
  <2>4. wire' \in Seq(Bytes)
    BY <2>1, <2>3, ConcatProperties DEF TypeOK
  <2>5. Len(buf') <= BufSize
    <3>1. CASE buffered
      BY <2>1, <2>3, <3>1
    <3>2. CASE ~buffered
      BY <2>1, <2>2, <2>3, <3>2, WireAssumption
    <3> QED BY <3>1, <3>2
  <2>6. accepted' \in 0..MaxCalls
    BY <1>2, LenProperties DEF Write, TypeOK, Bounded
  <2> QED BY <1>2, <2>2, <2>3, <2>4, <2>5, <2>6 DEF Write, TypeOK
<1>3. CASE WriteFails
  <2>1. PICK n \in 0..Len(Waiting) : wire' = wire \o SubSeq(Waiting, 1, n)
    BY <1>3 DEF WriteFails
  <2>2. Waiting \in Seq(Bytes)
    BY <1>3, WriterFacts DEF WriteFails
  <2>3. wire' \in Seq(Bytes)
    BY <2>1, <2>2, Cut, ConcatProperties DEF TypeOK
  <2>4. pc' \in {"idle", "stopped"} /\ swallowed' \in BOOLEAN
    <3>1. CASE todo = Writes(Last(sent))
      BY <1>3, <3>1 DEF WriteFails
    <3>2. CASE todo # Writes(Last(sent))
      BY <1>3, <3>2 DEF WriteFails, TypeOK
    <3> QED BY <3>1, <3>2
  <2>5. failed' \in BOOLEAN /\ todo' = <<>>
        /\ UNCHANGED <<buffered, limit, buf, sent, accepted, rd, need, got>>
    BY <1>3 DEF WriteFails, TypeOK
  <2>6. <<>> \in Seq(Seq(Bytes))
    BY EmptySeq
  <2> QED BY <2>3, <2>4, <2>5, <2>6 DEF TypeOK
<1>4. CASE Flush
  <2>1. wire' \in Seq(Bytes)
    BY <1>4, ConcatProperties DEF Flush, TypeOK
  <2>2. accepted' \in 0..MaxCalls
    BY <1>4, LenProperties DEF Flush, TypeOK, Bounded
  <2> QED BY <1>4, <2>1, <2>2, WireAssumption DEF Flush, TypeOK
<1>5. CASE FlushFails
  <2>1. PICK n \in 0..Len(buf) : wire' = wire \o SubSeq(buf, 1, n)
    BY <1>5 DEF FlushFails
  <2>2. wire' \in Seq(Bytes)
    BY <2>1, Cut, ConcatProperties DEF TypeOK
  <2> QED BY <1>5, <2>2 DEF FlushFails, TypeOK
<1>6. CASE ReadLength
  <2>1. /\ wire' \in Seq(Bytes)
        /\ SubSeq(wire, 1, LenSize) \in Seq(Bytes) /\ Len(SubSeq(wire, 1, LenSize)) = LenSize
    BY <1>6, Taken, WireAssumption DEF ReadLength
  <2>2. SubSeq(wire, 1, LenSize) \in [1..LenSize -> Bytes]
    BY <2>1, LenProperties
  <2>3. need' \in 0..NoLimit
    BY <1>6, <2>2, LengthAssumption DEF ReadLength
  <2> QED BY <1>6, <2>1, <2>3 DEF ReadLength, TypeOK
<1>7. CASE ReadBody
  <2>1. need \in Nat
    BY LengthAssumption DEF TypeOK
  <2>2. wire' \in Seq(Bytes) /\ SubSeq(wire, 1, need) \in Seq(Bytes)
    BY <1>7, <2>1, Taken DEF ReadBody
  <2>3. got' \in Seq(Seq(Bytes))
    BY <1>7, <2>2, AppendProperties DEF ReadBody, TypeOK
  <2> QED BY <1>7, <2>2, <2>3, LengthAssumption DEF ReadBody, TypeOK
<1>8. CASE ReadFails
  BY <1>8 DEF ReadFails, TypeOK
<1>9. CASE UNCHANGED vars
  BY <1>9 DEF vars, TypeOK
<1> QED
  BY <1>1, <1>2, <1>3, <1>4, <1>5, <1>6, <1>7, <1>8, <1>9 DEF Next

(* Call respects the bound of the model. *)
LEMMA BoundedStep == TypeOK /\ Bounded /\ [Next]_vars => Bounded'
<1> SUFFICES ASSUME TypeOK, Bounded, [Next]_vars PROVE Bounded'
  OBVIOUS
<1>1. ASSUME NEW m \in Outgoing, Call(m) PROVE Bounded'
  <2>1. Len(sent') = Len(sent) + 1 /\ Len(sent) < MaxCalls /\ Len(sent) \in Nat
    BY <1>1, AppendProperties, LenProperties DEF Call, TypeOK
  <2> QED BY <2>1, WireAssumption DEF Bounded
<1>2. CASE UNCHANGED sent
  BY <1>2 DEF Bounded
<1> QED
  BY <1>1, <1>2 DEF Next, Write, WriteFails, Flush, FlushFails, ReadLength, ReadBody,
     ReadFails, vars, writerVars

(* A write brings the call to its next one. *)
LEMMA TurnStep ==
  ASSUME TypeOK, WriterInv, pc = "write", todo' = Tail(todo), UNCHANGED <<buffered, sent>>
  PROVE  Turn' = Turn + 1
<1> DEFINE W == Writes(Last(sent))
<1>1. /\ Last(sent) \in Outgoing
      /\ Len(todo) = Len(W) - Turn + 1
      /\ Len(Tail(todo)) = Len(todo) - 1
  BY WriterFacts
<1>2. Len(W) \in {3, 4} /\ Turn \in 1..Len(W)
  BY <1>1, WritesFit DEF WriterInv, TypeOK
<1>3. Turn' = Len(W') - Len(todo') + 1
  BY DEF Turn
<1>4. Len(todo) \in Int
  BY <1>1, <1>2
<1>5. Len(todo') = Len(todo) - 1
  BY <1>1
<1>6. Len(W') = Len(W) /\ Len(W) \in Int
  <2>1. W' = W
    BY DEF Writes, Last
  <2> QED BY <1>2, <2>1
<1>7. Turn = Len(W) - Len(todo) + 1
  BY DEF Turn
<1> HIDE DEF W
<1>8. \A w, t \in Int : w - (t - 1) + 1 = (w - t + 1) + 1
  OBVIOUS
<1>9. Turn' = Len(W) - (Len(todo) - 1) + 1
  BY <1>3, <1>5, <1>6, Zenon
<1> QED BY <1>4, <1>6, <1>7, <1>8, <1>9, Zenon

(* A call begins with its first write and goes from one to the next. *)
LEMMA WriterStep == TypeOK /\ WriterInv /\ [Next]_vars => WriterInv'
<1> SUFFICES ASSUME TypeOK, WriterInv, [Next]_vars PROVE WriterInv'
  OBVIOUS
<1>1. ASSUME NEW m \in Outgoing, Call(m) PROVE WriterInv'
  <2>1. /\ sent' = Append(sent, m) /\ sent \in Seq(Outgoing)
        /\ todo' = Writes(m) /\ UNCHANGED <<buffered, buf, failed>>
    BY <1>1 DEF Call, TypeOK
  <2>2. Len(sent') > 0 /\ Last(sent)' = m
    BY <2>1, AppendProperties, LenProperties DEF Last
  <2>3. Writes(m)' = Writes(m)
    BY <2>1 DEF Writes
  <2>4. Writes(m) \in Seq(Seq(Bytes)) /\ Len(Writes(m)) \in {3, 4}
    BY WritesFit DEF TypeOK
  <2>5. Turn' = 1 /\ Writes(Last(sent))' = Writes(m)
    <3>1. Writes(Last(sent))' = Writes(m)
      BY <2>1, <2>2 DEF Writes
    <3> QED BY <2>1, <2>4, <3>1 DEF Turn
  <2>6. todo' = SubSeq(Writes(m), 1, Len(Writes(m)))
    BY <2>1, <2>4, SubSeqFull
  <2> QED
    BY <2>1, <2>2, <2>4, <2>5, <2>6 DEF WriterInv
<1>2. CASE Write
  <2> DEFINE W == Writes(Last(sent))
  <2>1. /\ UNCHANGED <<buffered, failed, sent>> /\ pc = "write"
        /\ todo' = Tail(todo)
        /\ pc' = IF Len(todo) = 1 THEN "idle" ELSE "write"
    BY <1>2 DEF Write
  <2>2. /\ Last(sent) \in Outgoing
        /\ Len(todo) = Len(W) - Turn + 1
        /\ Tail(todo) = SubSeq(W, Turn + 1, Len(W))
        /\ Len(Tail(todo)) = Len(todo) - 1
        /\ Waiting \in Seq(Bytes)
    BY <2>1, WriterFacts
  <2>3. W' = W /\ Last(sent)' = Last(sent)
    BY <2>1 DEF Writes, Last
  <2>4. Len(W) \in {3, 4} /\ Turn \in 1..Len(W) /\ Len(sent) > 0
    BY <2>1, <2>2, WritesFit DEF WriterInv, TypeOK
  <2>5. ~buffered => buf' = <<>>
    <3> SUFFICES ASSUME ~buffered PROVE buf' = <<>>
      OBVIOUS
    <3>1. buf' = SubSeq(Waiting, Len(Waiting) + 1, Len(Waiting))
      BY <1>2 DEF Write
    <3>2. Len(Waiting) \in Nat
      BY <2>2, LenProperties
    <3> QED BY <3>1, <3>2, SubSeqEmpty
  <2>6. Turn' = Turn + 1
    BY <2>1, TurnStep
  <2>7. Len(todo) # 1 => Turn + 1 \in 1..Len(W)
    BY <2>2, <2>4
  <2> QED
    BY <2>1, <2>2, <2>3, <2>4, <2>5, <2>6, <2>7 DEF WriterInv
<1>3. CASE WriteFails
  BY <1>3 DEF WriteFails, WriterInv
<1>4. CASE Flush \/ FlushFails
  BY <1>4 DEF Flush, FlushFails, WriterInv
<1>5. CASE UNCHANGED <<buffered, pc, todo, buf, failed, sent>>
  BY <1>5 DEF WriterInv, Turn, Writes, Last
<1> QED
  BY <1>1, <1>2, <1>3, <1>4, <1>5
  DEF Next, ReadLength, ReadBody, ReadFails, vars, writerVars

------------------------------------------------------------------------------
(* Steps of writer and reader in the stream *)

(* Frames lie within the stream. *)
LEMMA LayoutBounds ==
  ASSUME NEW ms \in Seq(Outgoing), NEW T, NEW off, Layout(T, off, ms), NEW i \in 0..Len(ms)
  PROVE  off[i] \in Nat /\ off[i] <= Len(T) /\ Len(T) \in Nat /\ T \in Seq(Bytes)
<1>1. T \in Seq(Bytes) /\ Len(T) \in Nat /\ Len(ms) \in Nat
  BY LenProperties DEF Layout
<1>2. CASE i = 0
  BY <1>1, <1>2 DEF Layout
<1>3. CASE i # 0
  <2>1. i \in 1..Len(ms)
    BY <1>1, <1>3
  <2> QED BY <1>1, <2>1 DEF Layout
<1> QED BY <1>2, <1>3

(* The reader's place is inside the stream. *)
LEMMA ReaderBounds ==
  ASSUME TypeOK, Returned, NEW T, NEW off, Follows(T, off)
  PROVE  /\ T \in Seq(Bytes) /\ Len(T) \in Nat
         /\ Len(got) \in 0..Len(sent) /\ Len(sent) \in Nat
         /\ off[Len(got)] \in Nat
         /\ ReaderAt(off) \in Nat
         /\ Len(wire) \in Nat /\ Len(buf) \in Nat
<1>1. /\ Len(got) \in Nat /\ Len(sent) \in Nat /\ Len(wire) \in Nat /\ Len(buf) \in Nat
      /\ sent \in Seq(Outgoing)
  BY LenProperties DEF TypeOK
<1>2. Len(got) \in 0..Len(sent)
  BY <1>1 DEF Returned
<1>3. off[Len(got)] \in Nat /\ T \in Seq(Bytes) /\ Len(T) \in Nat
  BY <1>1, <1>2, LayoutBounds DEF Follows
<1> QED BY <1>1, <1>2, <1>3, WireAssumption DEF ReaderAt

(* The next write of a call is what follows in the stream. *)
LEMMA NextWrite ==
  ASSUME TypeOK, WriterInv, pc = "write", ~failed, Returned, NEW T, NEW off, Follows(T, off)
  PROVE  /\ At(Waiting, T, ReaderAt(off) + Len(wire))
         /\ ReaderAt(off) + Len(wire) + Len(Waiting)
              = IF Len(todo) = 1 THEN Len(T) ELSE off[Len(sent) - 1] + Start(Last(sent), Turn + 1)
<1> DEFINE m == Last(sent)
           W == Writes(m)
           k == Turn
           a == off[Len(sent) - 1]
           r == ReaderAt(off) + Len(wire)
<1>1. /\ m \in Outgoing /\ Len(todo) = Len(W) - k + 1 /\ Head(todo) = W[k]
      /\ Head(todo) \in Seq(Bytes) /\ Waiting = buf \o Head(todo)
      /\ Len(Waiting) = Len(buf) + Len(Head(todo))
  BY WriterFacts
<1>2. k \in 1..Len(W) /\ Len(sent) > 0
  BY DEF WriterInv
<1>3. /\ Len(W) \in {3, 4}
      /\ Start(m, k) \in Nat
      /\ Start(m, k) + Len(W[k]) = IF k = Len(W) THEN FrameLen(m) ELSE Start(m, k + 1)
      /\ Start(m, k) + Len(W[k]) <= FrameLen(m)
      /\ \A j \in 1..Len(W[k]) : W[k][j] = Frame(m)[Start(m, k) + j]
  BY <1>1, <1>2, WritesFit DEF TypeOK
<1>4. /\ T \in Seq(Bytes) /\ Len(T) \in Nat /\ Len(sent) \in Nat /\ r \in Nat
      /\ Len(buf) \in Nat /\ buf \in Seq(Bytes)
  BY ReaderBounds DEF TypeOK
<1>5. /\ a \in Nat
      /\ off[Len(sent)] = a + FrameLen(m) /\ off[Len(sent)] = Len(T)
      /\ \A j \in 1..FrameLen(m) : T[a + j] = Frame(m)[j]
  <2>1. Len(sent) \in 1..Len(sent) /\ Len(sent) - 1 \in 0..Len(sent)
    BY <1>2, <1>4
  <2>2. Layout(T, off, sent) /\ sent \in Seq(Outgoing)
    BY DEF Follows, TypeOK
  <2>3. a \in Nat
    BY <2>1, <2>2, LayoutBounds
  <2> QED BY <2>1, <2>2, <2>3 DEF Layout, Last
<1>6. At(buf, T, r) /\ r + Len(buf) = a + Start(m, k)
  BY DEF Follows, Frozen, WriterAt
<1> HIDE DEF m, W, k, a, r
<1>7. /\ Len(W[k]) \in Nat /\ FrameLen(m) \in Nat /\ Start(m, k) \in Nat /\ a \in Nat
      /\ Start(m, k) + Len(W[k]) <= FrameLen(m)
      /\ Len(Waiting) = Len(buf) + Len(W[k])
  <2>1. Len(W[k]) \in Nat
    BY <1>1, LenProperties
  <2>2. FrameLen(m) \in Nat
    BY <1>1, FrameFacts, LenProperties
  <2> QED BY <1>1, <1>3, <1>5, <2>1, <2>2
<1>8. At(Head(todo), T, r + Len(buf))
  <2>1. ASSUME NEW j \in 1..Len(W[k]) PROVE W[k][j] = T[a + Start(m, k) + j]
    <3>1. Start(m, k) + j \in 1..FrameLen(m) /\ a + (Start(m, k) + j) = a + Start(m, k) + j
      BY <1>7
    <3> QED BY <1>3, <1>5, <3>1
  <2>2. a + Start(m, k) + Len(W[k]) <= Len(T)
    <3>1. Len(T) = a + FrameLen(m)
      BY <1>5
    <3> QED BY <1>7, <3>1
  <2>3. At(W[k], T, a + Start(m, k))
    BY <2>1, <2>2 DEF At
  <2> QED BY <1>1, <1>6, <2>3
<1>9. At(Waiting, T, r)
  BY <1>1, <1>4, <1>6, <1>8, AtConcat
<1>10. r + Len(Waiting) = a + (Start(m, k) + Len(W[k]))
  <2>1. r \in Nat /\ Len(buf) \in Nat /\ r + Len(buf) = a + Start(m, k)
    BY <1>4, <1>6
  <2> QED BY <1>7, <2>1
<1>11. Len(todo) = 1 <=> k = Len(W)
  BY <1>1, <1>2, <1>3
<1>12. r + Len(Waiting) = IF Len(todo) = 1 THEN Len(T) ELSE a + Start(m, k + 1)
  <2>1. CASE k = Len(W)
    BY <1>3, <1>5, <1>10, <1>11, <2>1
  <2>2. CASE k # Len(W)
    BY <1>3, <1>10, <1>11, <2>2
  <2> QED BY <2>1, <2>2
<1> QED BY <1>9, <1>12 DEF m, W, k, a, r

(* A call adds its frame to the end of the stream. *)
LEMMA CallStream ==
  ASSUME TypeOK, WriterInv, StreamInv, NEW m \in Outgoing, Call(m)
  PROVE  StreamInv'
<1> SUFFICES ASSUME Clean' PROVE Returned' /\ (rd' \in {"len", "body"} => (\E T, off : Follows(T, off))')
  BY DEF StreamInv
<1>1. /\ pc = "idle" /\ pc' = "write" /\ todo' = Writes(m) /\ sent' = Append(sent, m)
      /\ UNCHANGED <<buffered, limit, wire, buf, failed, accepted, swallowed, rd, need, got>>
  BY DEF Call, readerVars
<1>2. /\ sent \in Seq(Outgoing) /\ Len(sent) \in Nat /\ Len(sent') = Len(sent) + 1
      /\ \A i \in 1..Len(sent) : sent'[i] = sent[i]
      /\ sent'[Len(sent) + 1] = m
  BY <1>1, AppendProperties, LenProperties DEF TypeOK
<1>3. Returned /\ (rd \in {"len", "body"} => \E T, off : Follows(T, off))
  BY <1>1 DEF StreamInv, Clean
<1>4. Len(got) \in 0..Len(sent)
  BY <1>2, <1>3, LenProperties DEF Returned, TypeOK
<1>5. Returned'
  <2>1. rd \in {"body", "toolong"} => sent'[Len(got) + 1] = sent[Len(got) + 1]
    BY <1>2, <1>3, <1>4 DEF Returned
  <2>2. \A i \in 1..Len(got) : Payload(sent'[i]) = Payload(sent[i])
    BY <1>2, <1>4
  <2>3. /\ Len(got') <= Len(sent')
        /\ \A i \in 1..Len(got') : got'[i] = Payload(sent'[i])
    BY <1>1, <1>2, <1>3, <1>4, <2>2 DEF Returned
  <2>4. /\ rd' \in {"body", "toolong"} =>
             Len(got') < Len(sent') /\ need' = LengthOf(sent'[Len(got') + 1])
        /\ rd' = "toolong" => need' > limit'
    BY <1>1, <1>2, <1>3, <1>4, <2>1 DEF Returned
  <2> QED BY <2>3, <2>4 DEF Returned
<1>6. ASSUME rd' \in {"len", "body"} PROVE (\E T, off : Follows(T, off))'
  <2>1. PICK T, off : Follows(T, off)
    BY <1>1, <1>3, <1>6
  <2> DEFINE r == ReaderAt(off)
  <2>12. PICK far : far = [i \in 0..(Len(sent) + 1) |->
                             IF i <= Len(sent) THEN off[i] ELSE Len(T) + FrameLen(m)]
    OBVIOUS
  <2>13. PICK U : U = T \o Frame(m)
    OBVIOUS
  <2>2. /\ T \in Seq(Bytes) /\ Len(T) \in Nat /\ r \in Nat /\ Len(wire) \in Nat /\ Len(buf) \in Nat
        /\ wire \in Seq(Bytes) /\ buf \in Seq(Bytes) /\ Frame(m) \in Seq(Bytes)
    BY <1>3, <2>1, ReaderBounds, FrameFacts DEF TypeOK
  <2>3. Layout(U, far, sent')
    BY <1>1, <1>2, <2>1, <2>12, <2>13, LayoutGrow DEF Follows
  <2>4. far[Len(got)] = off[Len(got)] /\ far[Len(sent)] = off[Len(sent)]
    BY <1>2, <1>4, <2>12
  <2>5. off[Len(sent)] = Len(T)
    BY <2>1 DEF Follows, Layout
  <2>6. ReaderAt(far)' = r
    BY <1>1, <2>4 DEF ReaderAt
  <2>7. At(wire, U, r)
    BY <2>1, <2>2, <2>13, AtGrow DEF Follows
  <2>8. ASSUME ~failed
        PROVE  At(buf, U, r + Len(wire)) /\ r + Len(wire) + Len(buf) = Len(T)
    <3>1. At(buf, T, r + Len(wire)) /\ r + Len(wire) + Len(buf) = Len(T)
      BY <1>1, <2>1, <2>8 DEF Follows, Frozen, WriterAt
    <3>2. r + Len(wire) \in Nat
      BY <2>2
    <3> QED BY <2>2, <2>13, <3>1, <3>2, AtGrow
  <2>9. Turn' = 1
    <3>1. Last(sent)' = m
      BY <1>2 DEF Last
    <3>2. Writes(Last(sent))' = Writes(m)
      BY <1>1, <3>1 DEF Writes
    <3>3. Len(Writes(m)) \in {3, 4}
      BY WritesFit DEF TypeOK
    <3> QED BY <1>1, <3>2, <3>3 DEF Turn
  <2>10. WriterAt(U, far)' = Len(T)
    <3>1. Start(Last(sent), Turn)' = 0
      BY <2>9 DEF Start
    <3>2. Len(sent') - 1 = Len(sent)
      BY <1>2
    <3> QED BY <1>1, <2>2, <2>4, <2>5, <3>1, <3>2 DEF WriterAt
  <2>14. OnTheWay(far)'
    <3>1. accepted <= Len(sent) /\ accepted \in Nat /\ off[accepted] <= r + Len(wire)
      BY <2>1 DEF Follows, OnTheWay, TypeOK
    <3>2. far[accepted] = off[accepted] /\ accepted <= Len(sent')
      BY <1>2, <2>12, <3>1
    <3> HIDE DEF r
    <3> QED BY <1>1, <2>6, <3>1, <3>2 DEF OnTheWay
  <2>11. Follows(U, far)'
    BY <1>1, <2>3, <2>6, <2>7, <2>8, <2>10, <2>14 DEF Follows, Frozen
  <2> QED BY <2>11
<1> QED BY <1>5, <1>6

(* What has been accepted stays on its way when bytes come on the wire. *)
LEMMA WireGrows ==
  ASSUME TypeOK, Returned, NEW T, NEW off, Follows(T, off),
         NEW n \in Nat, ReaderAt(off) + Len(wire') = ReaderAt(off) + Len(wire) + n
  PROVE  accepted <= Len(sent) /\ off[accepted] <= ReaderAt(off) + Len(wire')
<1>1. ReaderAt(off) \in Nat /\ Len(wire) \in Nat /\ Len(sent) \in Nat
  BY ReaderBounds
<1>2. accepted \in 0..Len(sent) /\ off[accepted] <= ReaderAt(off) + Len(wire)
  BY <1>1 DEF Follows, OnTheWay, TypeOK
<1>3. off[accepted] \in Nat
  BY <1>2, LayoutBounds DEF Follows, TypeOK
<1>4. \A x, y, z, u \in Nat : x <= y => (z = y + u => x <= z)
  OBVIOUS
<1>5. ReaderAt(off) + Len(wire) \in Nat /\ ReaderAt(off) + Len(wire') \in Nat
  BY <1>1
<1> QED BY <1>2, <1>3, <1>4, <1>5

(* A step of the writer that is not a call: the stream stays as it is, and *)
(* what comes on the wire is what follows in it.                           *)
LEMMA WriterStream ==
  ASSUME TypeOK, StreamInv, UNCHANGED <<buffered, limit, rd, need, got, sent>>,
         swallowed => swallowed',
         \A T, off : Returned /\ Follows(T, off) /\ Clean' =>
           /\ At(wire', T, ReaderAt(off))
           /\ accepted' <= Len(sent) /\ off[accepted'] <= ReaderAt(off) + Len(wire')
           /\ ~Frozen' => /\ At(buf', T, ReaderAt(off) + Len(wire'))
                          /\ ReaderAt(off) + Len(wire') + Len(buf') = WriterAt(T, off)'
  PROVE  StreamInv'
<1> SUFFICES ASSUME Clean' PROVE Returned' /\ (rd' \in {"len", "body"} => (\E T, off : Follows(T, off))')
  BY DEF StreamInv
<1>1. Clean
  BY DEF Clean, TypeOK
<1>2. Returned /\ Returned'
  BY <1>1 DEF StreamInv, Returned, Payload, Ids, LengthOf
<1>3. ASSUME rd' \in {"len", "body"} PROVE (\E T, off : Follows(T, off))'
  <2>1. PICK T, off : Follows(T, off)
    BY <1>1, <1>3 DEF StreamInv
  <2>2. ReaderAt(off)' = ReaderAt(off)
    BY DEF ReaderAt
  <2>3. /\ At(wire', T, ReaderAt(off))
        /\ accepted' <= Len(sent) /\ off[accepted'] <= ReaderAt(off) + Len(wire')
        /\ ~Frozen' => /\ At(buf', T, ReaderAt(off) + Len(wire'))
                       /\ ReaderAt(off) + Len(wire') + Len(buf') = WriterAt(T, off)'
    BY <1>2, <2>1
  <2>4. Layout(T, off, sent')
    BY <2>1 DEF Follows
  <2>6. OnTheWay(off)'
    BY <2>2, <2>3 DEF OnTheWay
  <2>5. Follows(T, off)'
    BY <2>2, <2>3, <2>4, <2>6 DEF Follows
  <2> QED BY <2>5
<1> QED BY <1>2, <1>3

(* A successful write moves bytes of the stream to the buffer and the wire. *)
LEMMA WriteStream ==
  ASSUME TypeOK, WriterInv, StreamInv, Write
  PROVE  StreamInv'
<1>1. /\ pc = "write" /\ ~failed /\ todo' = Tail(todo)
      /\ pc' = IF Len(todo) = 1 THEN "idle" ELSE "write"
      /\ accepted' = IF Len(todo) = 1 /\ ~buffered THEN Len(sent) ELSE accepted
      /\ UNCHANGED <<buffered, limit, failed, sent, swallowed, rd, need, got>>
  BY DEF Write, readerVars
<1>2. PICK n \in 0..Len(Waiting) :
        /\ ~buffered => n = Len(Waiting)
        /\ wire' = wire \o SubSeq(Waiting, 1, n)
        /\ buf' = SubSeq(Waiting, n + 1, Len(Waiting))
  BY DEF Write
<1>3. ASSUME NEW T, NEW off, Returned, Follows(T, off)
      PROVE  /\ At(wire', T, ReaderAt(off))
             /\ At(buf', T, ReaderAt(off) + Len(wire'))
             /\ ReaderAt(off) + Len(wire') + Len(buf') = WriterAt(T, off)'
             /\ accepted' <= Len(sent) /\ off[accepted'] <= ReaderAt(off) + Len(wire')
  <2> DEFINE r == ReaderAt(off)
  <2>1. /\ T \in Seq(Bytes) /\ r \in Nat /\ Len(wire) \in Nat /\ wire \in Seq(Bytes)
        /\ r + Len(wire) \in Nat
    BY <1>3, ReaderBounds DEF TypeOK
  <2>2. /\ At(Waiting, T, r + Len(wire))
        /\ r + Len(wire) + Len(Waiting)
             = IF Len(todo) = 1 THEN Len(T) ELSE off[Len(sent) - 1] + Start(Last(sent), Turn + 1)
    BY <1>1, <1>3, NextWrite
  <2>3. Waiting \in Seq(Bytes) /\ Len(Waiting) \in Nat
    BY <1>1, WriterFacts, LenProperties
  <2>4. /\ SubSeq(Waiting, 1, n) \in Seq(Bytes) /\ Len(SubSeq(Waiting, 1, n)) = n
        /\ Len(buf') = Len(Waiting) - n
        /\ At(SubSeq(Waiting, 1, n), T, r + Len(wire))
        /\ At(buf', T, r + Len(wire) + n)
    BY <1>2, <2>1, <2>2, <2>3, AtSplit
  <2>5. At(wire', T, r)
    BY <1>2, <1>3, <2>1, <2>4, AtConcat DEF Follows
  <2>6. Len(wire') = Len(wire) + n
    BY <1>2, <2>1, <2>4, ConcatProperties
  <2> HIDE DEF r
  <2>7. r + Len(wire') = r + Len(wire) + n /\ r + Len(wire') + Len(buf') = r + Len(wire) + Len(Waiting)
    <3>1. n \in Nat
      BY <2>3
    <3> QED BY <2>1, <2>3, <2>4, <2>6, <3>1
  <2>8. WriterAt(T, off)'
          = IF Len(todo) = 1 THEN Len(T) ELSE off[Len(sent) - 1] + Start(Last(sent), Turn + 1)
    <3>1. CASE Len(todo) = 1
      BY <1>1, <3>1 DEF WriterAt
    <3>2. CASE Len(todo) # 1
      <4>1. Turn' = Turn + 1
        BY <1>1, TurnStep
      <4>2. Start(Last(sent), Turn)' = Start(Last(sent), Turn + 1)
        BY <1>1, <4>1 DEF Start, Last, Writes
      <4> QED BY <1>1, <3>2, <4>2 DEF WriterAt
    <3> QED BY <3>1, <3>2
  <2>9. accepted' <= Len(sent) /\ off[accepted'] <= r + Len(wire')
    <3>1. CASE Len(todo) = 1 /\ ~buffered
      <4>1. accepted' = Len(sent) /\ n = Len(Waiting) /\ Len(sent) \in Nat
        BY <1>1, <1>2, <1>3, <3>1, ReaderBounds
      <4>2. off[Len(sent)] = Len(T) /\ Len(T) \in Nat
        BY <1>3, ReaderBounds DEF Follows, Layout
      <4>3. r + Len(wire') = Len(T)
        BY <2>2, <2>7, <3>1, <4>1
      <4> QED BY <4>1, <4>2, <4>3
    <3>2. CASE ~(Len(todo) = 1 /\ ~buffered)
      <4>1. accepted' = accepted
        BY <1>1, <3>2
      <4> QED BY <1>3, <2>1, <2>3, <2>7, <4>1, WireGrows DEF r
    <3> QED BY <3>1, <3>2
  <2> QED BY <2>2, <2>4, <2>5, <2>7, <2>8, <2>9 DEF r
<1> QED
  BY <1>1, <1>3, WriterStream

(* After a failed write nothing follows, or the exception applies. *)
LEMMA WriteFailsStream ==
  ASSUME TypeOK, WriterInv, StreamInv, WriteFails
  PROVE  StreamInv'
<1>1. /\ pc = "write" /\ failed' = buffered
      /\ UNCHANGED <<buffered, limit, sent, accepted, rd, need, got>>
      /\ swallowed => swallowed'
      /\ pc' = "stopped" \/ swallowed'
  BY DEF WriteFails, readerVars, TypeOK
<1>2. PICK n \in 0..Len(Waiting) :
        /\ (n < Len(Waiting) /\ ~failed) \/ n = 0
        /\ wire' = wire \o SubSeq(Waiting, 1, n)
  BY DEF WriteFails
<1>3. Waiting \in Seq(Bytes) /\ Len(Waiting) \in Nat
  BY <1>1, WriterFacts, LenProperties
<1>4. ASSUME NEW T, NEW off, Returned, Follows(T, off)
      PROVE  /\ At(wire', T, ReaderAt(off))
             /\ accepted' <= Len(sent) /\ off[accepted'] <= ReaderAt(off) + Len(wire')
  <2> DEFINE r == ReaderAt(off)
  <2>1. /\ T \in Seq(Bytes) /\ r \in Nat /\ Len(wire) \in Nat /\ wire \in Seq(Bytes)
        /\ r + Len(wire) \in Nat
    BY <1>4, ReaderBounds DEF TypeOK
  <2>2. CASE ~failed
    <3>1. At(Waiting, T, r + Len(wire))
      BY <1>1, <1>4, <2>2, NextWrite
    <3>2. /\ SubSeq(Waiting, 1, n) \in Seq(Bytes) /\ Len(SubSeq(Waiting, 1, n)) = n
          /\ At(SubSeq(Waiting, 1, n), T, r + Len(wire))
      BY <1>3, <2>1, <3>1, AtSplit
    <3>3. At(wire', T, r)
      BY <1>2, <1>4, <2>1, <3>2, AtConcat DEF Follows
    <3>4. n \in Nat /\ r + Len(wire') = r + Len(wire) + n
      <4>1. Len(wire') = Len(wire) + n
        BY <1>2, <2>1, <3>2, ConcatProperties
      <4> HIDE DEF r
      <4> QED BY <1>3, <2>1, <4>1
    <3>5. accepted' = accepted
      BY <1>1
    <3> QED BY <1>4, <3>3, <3>4, <3>5, WireGrows
  <2>3. CASE failed
    <3>1. SubSeq(Waiting, 1, n) = <<>>
      BY <1>2, <2>3, SubSeqEmpty
    <3>2. wire' = wire
      BY <1>2, <2>1, <3>1, ConcatEmptySeq
    <3> QED BY <1>1, <1>4, <3>2 DEF Follows, OnTheWay
  <2> QED BY <2>2, <2>3
<1>5. Clean' => Frozen'
  BY <1>1 DEF Clean, Frozen
<1> QED
  BY <1>1, <1>4, <1>5, WriterStream

(* Flush moves the buffer to the wire. *)
LEMMA FlushStream ==
  ASSUME TypeOK, WriterInv, StreamInv, Flush
  PROVE  StreamInv'
<1>1. /\ pc = "idle" /\ ~failed /\ wire' = wire \o buf /\ buf' = <<>>
      /\ accepted' = Len(sent)
      /\ UNCHANGED <<buffered, limit, pc, failed, sent, swallowed, rd, need, got>>
  BY DEF Flush, readerVars
<1>2. ASSUME NEW T, NEW off, Returned, Follows(T, off)
      PROVE  /\ At(wire', T, ReaderAt(off))
             /\ At(buf', T, ReaderAt(off) + Len(wire'))
             /\ ReaderAt(off) + Len(wire') + Len(buf') = WriterAt(T, off)'
             /\ accepted' <= Len(sent) /\ off[accepted'] <= ReaderAt(off) + Len(wire')
  <2> DEFINE r == ReaderAt(off)
  <2>1. /\ T \in Seq(Bytes) /\ r \in Nat /\ Len(wire) \in Nat /\ wire \in Seq(Bytes)
        /\ buf \in Seq(Bytes) /\ Len(buf) \in Nat /\ Len(T) \in Nat
    BY <1>2, ReaderBounds DEF TypeOK
  <2>2. At(wire, T, r) /\ At(buf, T, r + Len(wire)) /\ r + Len(wire) + Len(buf) = Len(T)
    BY <1>1, <1>2 DEF Follows, Frozen, WriterAt
  <2>3. At(wire', T, r)
    BY <1>1, <2>1, <2>2, AtConcat
  <2>4. Len(wire') = Len(wire) + Len(buf) /\ Len(buf') = 0
    BY <1>1, <2>1, ConcatProperties
  <2> HIDE DEF r
  <2>5. r + Len(wire') = Len(T) /\ r + Len(wire') + Len(buf') = Len(T)
    BY <2>1, <2>2, <2>4
  <2>6. At(buf', T, r + Len(wire'))
    BY <2>1, <2>4, <2>5 DEF At
  <2>7. WriterAt(T, off)' = Len(T)
    BY <1>1 DEF WriterAt
  <2>8. off[Len(sent)] = Len(T) /\ Len(sent) \in Nat
    BY <1>2, ReaderBounds DEF Follows, Layout
  <2>9. accepted' <= Len(sent) /\ off[accepted'] <= r + Len(wire')
    BY <1>1, <2>1, <2>5, <2>8
  <2> QED BY <2>3, <2>5, <2>6, <2>7, <2>9 DEF r
<1> QED
  BY <1>1, <1>2, WriterStream

(* After a failed Flush nothing follows. *)
LEMMA FlushFailsStream ==
  ASSUME TypeOK, WriterInv, StreamInv, FlushFails
  PROVE  StreamInv'
<1>1. /\ pc = "idle" /\ Frozen'
      /\ UNCHANGED <<buffered, limit, sent, accepted, swallowed, rd, need, got>>
  BY DEF FlushFails, readerVars, Frozen
<1>2. PICK n \in 0..Len(buf) :
        /\ (n < Len(buf) /\ ~failed) \/ n = 0
        /\ wire' = wire \o SubSeq(buf, 1, n)
  BY DEF FlushFails
<1>3. ASSUME NEW T, NEW off, Returned, Follows(T, off)
      PROVE  /\ At(wire', T, ReaderAt(off))
             /\ accepted' <= Len(sent) /\ off[accepted'] <= ReaderAt(off) + Len(wire')
  <2> DEFINE r == ReaderAt(off)
  <2>1. /\ T \in Seq(Bytes) /\ r \in Nat /\ Len(wire) \in Nat /\ wire \in Seq(Bytes)
        /\ r + Len(wire) \in Nat /\ buf \in Seq(Bytes) /\ Len(buf) \in Nat
    BY <1>3, ReaderBounds DEF TypeOK
  <2>2. CASE ~failed
    <3>1. At(buf, T, r + Len(wire))
      BY <1>1, <1>3, <2>2 DEF Follows, Frozen
    <3>2. /\ SubSeq(buf, 1, n) \in Seq(Bytes) /\ Len(SubSeq(buf, 1, n)) = n
          /\ At(SubSeq(buf, 1, n), T, r + Len(wire))
      BY <2>1, <3>1, AtSplit
    <3>3. At(wire', T, r)
      BY <1>2, <1>3, <2>1, <3>2, AtConcat DEF Follows
    <3>4. n \in Nat /\ r + Len(wire') = r + Len(wire) + n
      <4>1. Len(wire') = Len(wire) + n
        BY <1>2, <2>1, <3>2, ConcatProperties
      <4> HIDE DEF r
      <4> QED BY <2>1, <4>1
    <3>5. accepted' = accepted
      BY <1>1
    <3> QED BY <1>3, <3>3, <3>4, <3>5, WireGrows
  <2>3. CASE failed
    <3>1. SubSeq(buf, 1, n) = <<>>
      BY <1>2, <2>3, SubSeqEmpty
    <3>2. wire' = wire
      BY <1>2, <2>1, <3>1, ConcatEmptySeq
    <3> QED BY <1>1, <1>3, <3>2 DEF Follows, OnTheWay
  <2> QED BY <2>2, <2>3
<1> QED
  BY <1>1, <1>3, WriterStream

(* The reader stands at a frame and finds the length of that frame. *)
LEMMA ReadLengthStream ==
  ASSUME TypeOK, WriterInv, StreamInv, ReadLength
  PROVE  StreamInv'
<1> SUFFICES ASSUME Clean' PROVE Returned' /\ (rd' \in {"len", "body"} => (\E T, off : Follows(T, off))')
  BY DEF StreamInv
<1>1. /\ rd = "len" /\ Take(LenSize) /\ need' = Decoded(SubSeq(wire, 1, LenSize))
      /\ rd' = IF need' > limit THEN "toolong" ELSE "body"
      /\ UNCHANGED <<buffered, limit, pc, todo, buf, failed, sent, accepted, swallowed, got>>
  BY DEF ReadLength, writerVars
<1>2. PICK T, off : Returned /\ Follows(T, off)
  BY <1>1 DEF StreamInv, Clean
<1> DEFINE g == Len(got)
           m == sent[g + 1]
           a == off[g]
<1>3. /\ T \in Seq(Bytes) /\ Len(T) \in Nat /\ g \in 0..Len(sent) /\ Len(sent) \in Nat
      /\ a \in Nat /\ ReaderAt(off) = a /\ Len(wire) \in Nat /\ Len(buf) \in Nat
      /\ wire \in Seq(Bytes) /\ sent \in Seq(Outgoing)
      /\ LenSize \in Nat \ {0}
  <2>1. ReaderAt(off) = off[Len(got)] + 0
    BY <1>1 DEF ReaderAt
  <2>2. off[Len(got)] \in Nat
    BY <1>2, ReaderBounds
  <2>3. off[Len(got)] + 0 = off[Len(got)]
    BY <2>2
  <2> QED BY <1>2, <2>1, <2>2, <2>3, ReaderBounds, WireAssumption DEF TypeOK
<1>4. /\ wire' \in Seq(Bytes) /\ Len(wire') = Len(wire) - LenSize
      /\ LenSize \in 0..Len(wire)
      /\ wire' = SubSeq(wire, LenSize + 1, Len(wire))
  BY <1>1, <1>3, Taken DEF Take
<1>5. Layout(T, off, sent) /\ At(wire, T, a)
  BY <1>2, <1>3 DEF Follows
<1>6. g < Len(sent)
  \* behind the last frame there is nothing to read
  <2>1. a + Len(wire) <= Len(T)
    BY <1>5 DEF At
  <2>2. a # Len(T)
    BY <1>3, <1>4, <2>1
  <2>3. off[Len(sent)] = Len(T)
    BY <1>5 DEF Layout
  <2> QED BY <1>3, <2>2, <2>3
<1>7. m \in Outgoing
  <2>1. g + 1 \in 1..Len(sent)
    BY <1>3, <1>6
  <2> QED BY <1>3, <2>1, ElementOfSeq
<1>8. \A j \in 1..FrameLen(m) : T[a + j] = Frame(m)[j]
  <2>1. g + 1 \in 1..Len(sent) /\ g + 1 - 1 = g
    BY <1>3, <1>6
  <2> QED BY <1>5, <2>1 DEF Layout
<1>9. SubSeq(wire, 1, LenSize) = Encoded(LengthOf(m))
  <2> DEFINE s == SubSeq(wire, 1, LenSize)
             e == Encoded(LengthOf(m))
  <2>1. s \in Seq(Bytes) /\ Len(s) = LenSize /\ At(s, T, a)
    BY <1>3, <1>4, <1>5, AtSplit
  <2>2. e \in Seq(Bytes) /\ Len(e) = LenSize /\ LengthOf(m) \in Nat
    BY <1>7, FrameFacts, LengthAssumption
  <2>3. ASSUME NEW j \in 1..LenSize PROVE s[j] = e[j]
    <3>1. j \in 1..FrameLen(m)
      BY <1>3, <2>2 DEF FrameLen
    <3>2. s[j] = T[a + j]
      BY <2>1 DEF At
    <3> QED BY <1>7, <1>8, <3>1, <3>2, FrameParts
  <2> HIDE DEF s, e
  <2>4. s = e
    BY <2>1, <2>2, <2>3, SeqEqual
  <2> QED BY <2>4 DEF s, e
<1>10. need' = LengthOf(m)
  <2>1. LengthOf(m) \in 1..NoLimit /\ NoLimit \in Nat
    BY <1>7, FrameFacts, LengthAssumption
  <2>2. LengthOf(m) \in 0..NoLimit
    BY <2>1
  <2>3. Decoded(Encoded(LengthOf(m))) = LengthOf(m)
    BY <2>2, LengthAssumption
  <2> QED BY <1>1, <1>9, <2>3
<1>11. Returned'
  BY <1>1, <1>2, <1>6, <1>10 DEF Returned, Payload, Ids, LengthOf
<1>12. ASSUME rd' = "body" PROVE Follows(T, off)'
  <2>1. ReaderAt(off)' = a + LenSize
    BY <1>1, <1>12 DEF ReaderAt
  <2>2. At(wire', T, a + LenSize)
    BY <1>3, <1>4, <1>5, AtSplit
  <2>3. a + LenSize + Len(wire') = a + Len(wire)
    <3>1. \A x, y, z \in Nat : x + y + (z - y) = x + z
      OBVIOUS
    <3>2. a \in Nat /\ LenSize \in Nat /\ Len(wire) \in Nat
      BY <1>3
    <3> HIDE DEF a
    <3> QED BY <1>4, <3>1, <3>2
  <2>4. WriterAt(T, off)' = WriterAt(T, off) /\ Frozen' = Frozen
    BY <1>1 DEF WriterAt, Start, Turn, Writes, Last, Frozen
  <2>5. ASSUME ~Frozen
        PROVE  /\ At(buf', T, a + LenSize + Len(wire'))
               /\ a + LenSize + Len(wire') + Len(buf') = WriterAt(T, off)
    <3>1. At(buf, T, a + Len(wire)) /\ a + Len(wire) + Len(buf) = WriterAt(T, off)
      BY <1>2, <1>3, <2>5 DEF Follows
    <3> QED BY <1>1, <2>3, <3>1
  <2>6. Layout(T, off, sent')
    BY <1>1, <1>5
  <2>7. OnTheWay(off)'
    <3>1. accepted <= Len(sent) /\ off[accepted] <= a + Len(wire)
      BY <1>2, <1>3 DEF Follows, OnTheWay
    <3> QED BY <1>1, <2>1, <2>3, <3>1 DEF OnTheWay
  <2> QED BY <2>1, <2>2, <2>4, <2>5, <2>6, <2>7 DEF Follows
<1> QED
  BY <1>1, <1>11, <1>12

(* Behind the length the reader finds the payload, and is at the next frame. *)
LEMMA ReadBodyStream ==
  ASSUME TypeOK, WriterInv, StreamInv, ReadBody
  PROVE  StreamInv'
<1> SUFFICES ASSUME Clean' PROVE Returned' /\ (rd' \in {"len", "body"} => (\E T, off : Follows(T, off))')
  BY DEF StreamInv
<1>1. /\ rd = "body" /\ rd' = "len" /\ Take(need)
      /\ got' = Append(got, SubSeq(wire, 1, need))
      /\ UNCHANGED <<buffered, limit, pc, todo, buf, failed, sent, accepted, swallowed>>
  BY DEF ReadBody, writerVars
<1>2. PICK T, off : Returned /\ Follows(T, off)
  BY <1>1 DEF StreamInv, Clean
<1> DEFINE g == Len(got)
           m == sent[g + 1]
           a == off[g]
           p == a + LenSize
<1>3. /\ T \in Seq(Bytes) /\ Len(T) \in Nat /\ g \in 0..Len(sent) /\ Len(sent) \in Nat
      /\ a \in Nat /\ ReaderAt(off) = p /\ Len(wire) \in Nat /\ Len(buf) \in Nat
      /\ wire \in Seq(Bytes) /\ sent \in Seq(Outgoing) /\ got \in Seq(Seq(Bytes))
      /\ LenSize \in Nat /\ p \in Nat
  <2>1. ReaderAt(off) = p
    BY <1>1 DEF ReaderAt
  <2>2. off[Len(got)] \in Nat /\ LenSize \in Nat
    BY <1>2, ReaderBounds, WireAssumption
  <2>3. p \in Nat
    BY <2>2
  <2> QED BY <1>2, <2>1, <2>2, <2>3, ReaderBounds DEF TypeOK
<1>4. g < Len(sent) /\ need = LengthOf(m) /\ need \in Nat
  BY <1>1, <1>2, LengthAssumption DEF Returned, TypeOK
<1>5. m \in Outgoing /\ g + 1 \in 1..Len(sent) /\ g + 1 - 1 = g
  <2>1. g + 1 \in 1..Len(sent) /\ g + 1 - 1 = g
    BY <1>3, <1>4
  <2> QED BY <1>3, <2>1, ElementOfSeq
<1>6. /\ wire' \in Seq(Bytes) /\ Len(wire') = Len(wire) - need
      /\ need \in 0..Len(wire)
      /\ wire' = SubSeq(wire, need + 1, Len(wire))
  BY <1>1, <1>4, Taken DEF Take
<1>7. Layout(T, off, sent) /\ At(wire, T, p)
  BY <1>2, <1>3 DEF Follows
<1>8. /\ off[g + 1] = a + FrameLen(m)
      /\ \A j \in 1..FrameLen(m) : T[a + j] = Frame(m)[j]
  BY <1>5, <1>7 DEF Layout
<1>9. SubSeq(wire, 1, need) = Payload(m) /\ SubSeq(wire, 1, need) \in Seq(Bytes)
  <2> DEFINE s == SubSeq(wire, 1, need)
             e == Payload(m)
  <2>1. s \in Seq(Bytes) /\ Len(s) = need /\ At(s, T, p)
    BY <1>3, <1>6, <1>7, AtSplit
  <2>2. e \in Seq(Bytes) /\ Len(e) = need
    BY <1>4, <1>5, FrameFacts
  <2>3. ASSUME NEW j \in 1..need PROVE s[j] = e[j]
    <3>1. LenSize + j \in 1..FrameLen(m) /\ a + (LenSize + j) = a + LenSize + j
      <4>1. \A x, y, z \in Nat : \A k \in 1..z :
              y + k \in 1..(y + z) /\ x + (y + k) = x + y + k
        OBVIOUS
      <4>2. a \in Nat /\ LenSize \in Nat /\ need \in Nat /\ FrameLen(m) = LenSize + need
        BY <1>3, <1>4 DEF FrameLen
      <4> HIDE DEF a, m
      <4> QED BY <4>1, <4>2
    <3>2. s[j] = T[a + LenSize + j]
      BY <2>1 DEF At
    <3>3. T[a + (LenSize + j)] = Frame(m)[LenSize + j]
      BY <1>8, <3>1
    <3>4. Frame(m)[LenSize + j] = Payload(m)[j]
      BY <1>4, <1>5, FrameParts
    <3> QED BY <3>1, <3>2, <3>3, <3>4
  <2> HIDE DEF s, e
  <2>4. s = e
    BY <2>1, <2>2, <2>3, SeqEqual
  <2> QED BY <2>1, <2>4 DEF s, e
<1>10. /\ Len(got') = g + 1
       /\ \A i \in 1..g : got'[i] = got[i]
       /\ got'[g + 1] = Payload(m)
  <2>1. PICK b : b = SubSeq(wire, 1, need)
    OBVIOUS
  <2>2. b \in Seq(Bytes) /\ b = Payload(m) /\ got' = Append(got, b)
    BY <1>1, <1>9, <2>1
  <2>3. /\ Len(Append(got, b)) = Len(got) + 1
        /\ \A i \in 1..Len(got) : Append(got, b)[i] = got[i]
        /\ Append(got, b)[Len(got) + 1] = b
    BY <1>3, <2>2, AppendProperties
  <2> QED BY <2>2, <2>3
<1>11. Returned'
  <2>1. \A i \in 1..(g + 1) : got'[i] = Payload(sent[i])
    <3>1. \A i \in 1..g : got[i] = Payload(sent[i])
      BY <1>2 DEF Returned
    <3>2. \A n \in Nat : \A i \in 1..(n + 1) : i \in 1..n \/ i = n + 1
      OBVIOUS
    <3>3. g \in Nat
      BY <1>3
    <3> HIDE DEF g
    <3>4. ASSUME NEW i \in 1..(g + 1) PROVE got'[i] = Payload(sent[i])
      <4>1. CASE i \in 1..g
        BY <1>10, <3>1, <4>1
      <4>2. CASE i = g + 1
        BY <1>10, <4>2
      <4> QED BY <3>2, <3>3, <3>4, <4>1, <4>2
    <3> QED BY <3>4
  <2>2. g + 1 <= Len(sent)
    BY <1>3, <1>4
  <2> QED BY <1>1, <1>10, <2>1, <2>2 DEF Returned, Payload, Ids, LengthOf
<1>12. Follows(T, off)'
  <2>1. ReaderAt(off)' = p + need
    <3>1. a + FrameLen(m) = p + need
      BY <1>3, <1>4 DEF FrameLen
    <3>2. a + FrameLen(m) \in Nat
      BY <1>3, <1>4, <3>1
    <3>3. ReaderAt(off)' = off[g + 1] + 0
      BY <1>1, <1>10 DEF ReaderAt
    <3> QED BY <1>8, <3>1, <3>2, <3>3
  <2>2. At(wire', T, p + need)
    BY <1>3, <1>6, <1>7, AtSplit
  <2>3. p + need + Len(wire') = p + Len(wire)
    <3>1. \A x, y, z \in Nat : x + y + (z - y) = x + z
      OBVIOUS
    <3>2. p \in Nat /\ need \in Nat /\ Len(wire) \in Nat
      BY <1>3, <1>4
    <3> HIDE DEF p
    <3> QED BY <1>6, <3>1, <3>2
  <2>4. WriterAt(T, off)' = WriterAt(T, off) /\ Frozen' = Frozen
    BY <1>1 DEF WriterAt, Start, Turn, Writes, Last, Frozen
  <2>5. ASSUME ~Frozen
        PROVE  /\ At(buf', T, p + need + Len(wire'))
               /\ p + need + Len(wire') + Len(buf') = WriterAt(T, off)
    <3>1. At(buf, T, p + Len(wire)) /\ p + Len(wire) + Len(buf) = WriterAt(T, off)
      BY <1>2, <1>3, <2>5 DEF Follows
    <3> QED BY <1>1, <2>3, <3>1
  <2>6. Layout(T, off, sent')
    BY <1>1, <1>7
  <2>7. OnTheWay(off)'
    <3>1. accepted <= Len(sent) /\ off[accepted] <= p + Len(wire)
      BY <1>2, <1>3 DEF Follows, OnTheWay
    <3> QED BY <1>1, <2>1, <2>3, <3>1 DEF OnTheWay
  <2> QED BY <2>1, <2>2, <2>4, <2>5, <2>6, <2>7 DEF Follows
<1> QED
  BY <1>11, <1>12

(* Every step keeps the wire in step with the stream. *)
LEMMA StreamStep == TypeOK /\ WriterInv /\ StreamInv /\ [Next]_vars => StreamInv'
<1> SUFFICES ASSUME TypeOK, WriterInv, StreamInv, [Next]_vars PROVE StreamInv'
  OBVIOUS
<1>1. CASE ReadFails
  <2>1. rd' = "failed" /\ UNCHANGED <<buffered, swallowed, got, sent, need, limit>>
    BY <1>1 DEF ReadFails, writerVars
  <2> QED BY <2>1 DEF StreamInv, Clean, Returned, Payload, Ids, LengthOf
<1>2. CASE UNCHANGED vars
  <2>1. UNCHANGED <<buffered, limit, pc, todo, buf, failed, sent, accepted, swallowed, rd, need,
                    got, wire>>
    BY <1>2 DEF vars, writerVars, readerVars
  <2>2. \A T, off : Follows(T, off)' = Follows(T, off)
    BY <2>1 DEF Follows, OnTheWay, ReaderAt, WriterAt, Start, Turn, Writes, Last, Frozen
  <2>3. Returned' = Returned /\ Clean' = Clean
    BY <2>1 DEF Returned, Payload, Ids, LengthOf, Clean
  <2> QED BY <2>1, <2>2, <2>3 DEF StreamInv
<1> QED
  BY <1>1, <1>2, CallStream, WriteStream, WriteFailsStream, FlushStream, FlushFailsStream,
     ReadLengthStream, ReadBodyStream DEF Next

(* The invariant holds at the start. *)
LEMMA InvariantInit == Init => IInv
<1> SUFFICES ASSUME Init PROVE IInv
  OBVIOUS
<1>1. TypeOK
  <2>1. /\ todo \in Seq(Seq(Bytes)) /\ buf \in Seq(Bytes) /\ wire \in Seq(Bytes)
        /\ got \in Seq(Seq(Bytes)) /\ sent \in Seq(Outgoing)
    BY EmptySeq DEF Init
  <2>2. Len(buf) <= BufSize
    BY EmptySeq, WireAssumption DEF Init
  <2>3. need \in 0..NoLimit /\ accepted \in 0..MaxCalls
    <3>1. \A n \in Nat : 0 \in 0..n
      OBVIOUS
    <3> QED BY <3>1, WireAssumption, LengthAssumption DEF Init
  <2> QED BY <2>1, <2>2, <2>3 DEF Init, TypeOK
<1>2. Bounded /\ WriterInv
  BY WireAssumption DEF Init, Bounded, WriterInv
<1>3. StreamInv
  <2>1. PICK T : T = <<>>
    OBVIOUS
  <2>2. PICK off : off = [i \in {0} |-> 0]
    OBVIOUS
  <2>3. Layout(T, off, sent)
    BY <2>1, <2>2 DEF Init, Layout
  <2>4. Follows(T, off)
    BY <2>1, <2>2, <2>3 DEF Init, Follows, OnTheWay, ReaderAt, WriterAt, At
  <2>5. Returned
    BY DEF Init, Returned
  <2> QED BY <2>4, <2>5 DEF StreamInv
<1> QED BY <1>1, <1>2, <1>3 DEF IInv

(* The invariant always holds. *)
LEMMA Invariant == Spec => []IInv
<1>1. IInv /\ [Next]_vars => IInv'
  BY TypeStep, BoundedStep, WriterStep, StreamStep DEF IInv
<1> QED
  BY <1>1, InvariantInit, PTL DEF Spec

------------------------------------------------------------------------------
(* Type correctness of the framing; the buffer stays within its size. *)
THEOREM TypeCorrect == Spec => []TypeOK
BY Invariant, PTL DEF IInv

(* The reader returns the messages that were written, whole and in order,  *)
(* wherever writes fail, for any messages, lengths and buffers.            *)
THEOREM ReadsWhatWasWritten == Spec => []InOrder
<1>1. IInv => InOrder
  <2> SUFFICES ASSUME IInv, Clean PROVE IsPrefix(got, [i \in DOMAIN sent |-> Payload(sent[i])])
    BY DEF InOrder, Clean
  <2> DEFINE P == [i \in DOMAIN sent |-> Payload(sent[i])]
  <2>1. /\ got \in Seq(Seq(Bytes)) /\ Len(got) \in Nat
        /\ sent \in Seq(Outgoing) /\ Len(sent) \in Nat /\ DOMAIN sent = 1..Len(sent)
    BY LenProperties DEF IInv, TypeOK
  <2>2. Len(got) <= Len(sent) /\ \A i \in 1..Len(got) : got[i] = Payload(sent[i])
    BY DEF IInv, StreamInv, Returned
  <2>3. P \in Seq(Seq(Bytes)) /\ Len(P) = Len(sent)
    <3>1. \A i \in 1..Len(sent) : Payload(sent[i]) \in Seq(Bytes)
      BY <2>1, ElementOfSeq, FrameFacts
    <3>2. P \in [1..Len(sent) -> Seq(Bytes)]
      BY <2>1, <3>1
    <3> QED BY <2>1, <3>2
  <2>4. \A i \in 1..Len(got) : P[i] = got[i]
    BY <2>1, <2>2
  <2> HIDE DEF P
  <2>5. SubSeq(got, 1, Len(got)) = got
    BY <2>1, SubSeqFull
  <2>6. SubSeq(P, 1, Len(got)) = got
    <3> DEFINE s == SubSeq(P, 1, Len(got))
    <3>1. \A i \in 1..Len(got) : P[i] \in Seq(Bytes)
      BY <2>1, <2>4, ElementOfSeq
    <3>2. /\ s \in Seq(Seq(Bytes)) /\ Len(s) = Len(got)
          /\ \A i \in 1..Len(got) : s[i] = P[i]
      BY <2>1, <3>1, SubSeqProperties
    <3> HIDE DEF s
    <3>3. s = got
      BY <2>1, <2>4, <3>2, SeqEqual
    <3> QED BY <3>3 DEF s
  <2> QED BY <2>2, <2>3, <2>5, <2>6 DEF IsPrefix, P
<1> QED
  BY <1>1, Invariant, PTL

------------------------------------------------------------------------------
(* The safety part of AcceptedArrives.  The reader never waits in vain for *)
(* a message that the writer was told is written: the bytes that it reads  *)
(* next are on the wire; and it only refuses a message that is longer than *)
(* its limit.                                                              *)
AcceptedReadable ==
  buffered \/ ~swallowed =>
    /\ rd = "len" /\ Len(got) < accepted => Len(wire) >= LenSize
    /\ rd = "body" /\ Len(got) < accepted => Len(wire) >= need
    /\ rd = "toolong" => \E i \in DOMAIN sent : Len(Payload(sent[i])) > limit

(* The frames lie one behind the other. *)
LEMMA LayoutMonotone ==
  ASSUME NEW ms \in Seq(Outgoing), NEW T, NEW off, Layout(T, off, ms),
         NEW i \in 0..Len(ms), NEW k \in i..Len(ms)
  PROVE  off[i] <= off[k]
<1> DEFINE R == OpToRel(<, Nat)
           Wrong == {j \in i..Len(ms) : ~(off[i] <= off[j])}
<1>1. IsWellFoundedOn(R, Nat)
  BY NatLessThanWellFounded
<1>2. \A x, y \in Nat : y < x => <<y, x>> \in R
  BY DEF OpToRel
<1>3. Len(ms) \in Nat /\ i \in Nat
  BY LenProperties
<1>4. Wrong \subseteq Nat
  BY <1>3
<1> HIDE DEF R
<1>5. ASSUME Wrong # {} PROVE FALSE
  <2>1. PICK x \in Wrong : \A y \in Wrong : ~(<<y, x>> \in R)
    <3> HIDE DEF Wrong
    <3> QED BY <1>1, <1>4, <1>5, WFMin
  <2>2. x \in i..Len(ms) /\ ~(off[i] <= off[x])
    OBVIOUS
  <2>3. off[i] \in Nat
    BY LayoutBounds
  <2>4. x # i
    BY <2>2, <2>3
  <2>5. x \in 1..Len(ms) /\ x - 1 \in i..Len(ms) /\ x - 1 \in Nat /\ x \in Nat /\ x - 1 < x
        /\ x - 1 \in 0..Len(ms)
    BY <1>3, <2>2, <2>4
  <2>6. x - 1 \notin Wrong
    BY <1>2, <2>1, <2>5
  <2>7. off[i] <= off[x - 1]
    BY <2>5, <2>6
  <2>8. off[x] = off[x - 1] + FrameLen(ms[x])
    BY <2>5 DEF Layout
  <2>9. FrameLen(ms[x]) \in Nat /\ off[x - 1] \in Nat
    <3>1. ms[x] \in Outgoing
      BY <2>5, ElementOfSeq
    <3>2. FrameLen(ms[x]) \in Nat
      BY <3>1, FrameFacts, LenProperties
    <3>3. off[x - 1] \in Nat
      BY <2>5, LayoutBounds
    <3> QED BY <3>2, <3>3
  <2> QED BY <2>2, <2>3, <2>7, <2>8, <2>9
<1> QED BY <1>5

(* The reader of an accepted message finds on the wire what it reads next. *)
THEOREM AcceptedIsOnTheWire == Spec => []AcceptedReadable
<1>1. IInv => AcceptedReadable
  <2> SUFFICES ASSUME IInv, Clean
               PROVE  /\ rd = "len" /\ Len(got) < accepted => Len(wire) >= LenSize
                      /\ rd = "body" /\ Len(got) < accepted => Len(wire) >= need
                      /\ rd = "toolong" => \E i \in DOMAIN sent : Len(Payload(sent[i])) > limit
    BY DEF AcceptedReadable, Clean
  <2>1. /\ TypeOK /\ Returned /\ sent \in Seq(Outgoing) /\ Len(sent) \in Nat /\ Len(got) \in Nat
        /\ rd \in {"len", "body"} => \E T, off : Follows(T, off)
        /\ accepted \in Nat /\ DOMAIN sent = 1..Len(sent)
    BY LenProperties DEF IInv, StreamInv, TypeOK
  <2> DEFINE g == Len(got)
             m == sent[g + 1]
  <2>2. ASSUME g < Len(sent) PROVE m \in Outgoing /\ g + 1 \in 1..Len(sent) /\ g + 1 - 1 = g
    <3>1. g + 1 \in 1..Len(sent) /\ g + 1 - 1 = g
      BY <2>1, <2>2
    <3> QED BY <2>1, <3>1, ElementOfSeq
  <2>3. ASSUME rd \in {"len", "body"}, g < accepted
        PROVE  /\ rd = "len" => Len(wire) >= LenSize
               /\ rd = "body" => Len(wire) >= need
    <3>1. PICK T, off : Follows(T, off)
      BY <2>1, <2>3
    <3>2. accepted <= Len(sent) /\ off[accepted] <= ReaderAt(off) + Len(wire)
      BY <3>1 DEF Follows, OnTheWay
    <3>3. /\ m \in Outgoing /\ g + 1 \in 1..Len(sent) /\ g + 1 - 1 = g
          /\ g + 1 \in 0..Len(sent) /\ accepted \in (g + 1)..Len(sent)
      BY <2>1, <2>2, <2>3, <3>2
    <3>4. Layout(T, off, sent) /\ off[g + 1] = off[g] + FrameLen(m)
      BY <3>1, <3>3 DEF Follows, Layout
    <3>5. off[g + 1] <= off[accepted]
      BY <2>1, <3>3, <3>4, LayoutMonotone
    <3>6. off[g] \in Nat /\ off[accepted] \in Nat /\ Len(wire) \in Nat
      BY <2>1, <3>1, <3>2, <3>4, ReaderBounds, LayoutBounds
    <3>7. LengthOf(m) \in Nat /\ LenSize \in Nat /\ FrameLen(m) = LenSize + LengthOf(m)
      <4>1. m \in Outgoing
        BY <3>3
      <4> HIDE DEF m
      <4>2. LengthOf(m) \in 1..NoLimit
        BY <4>1, FrameFacts
      <4> QED BY <4>2, WireAssumption, LengthAssumption DEF FrameLen
    <3>8. rd = "body" => need = LengthOf(m)
      BY <2>1 DEF Returned
    <3> HIDE DEF g, m
    <3>9. off[g] + LenSize + LengthOf(m) <= ReaderAt(off) + Len(wire)
      <4>1. ReaderAt(off) \in Nat
        BY <2>1, <3>1, ReaderBounds
      <4>2. off[g] + FrameLen(m) = off[g] + LenSize + LengthOf(m)
        BY <3>6, <3>7
      <4> QED BY <3>2, <3>4, <3>5, <3>6, <3>7, <4>1, <4>2
    <3>10. ReaderAt(off) = IF rd = "body" THEN off[g] + LenSize ELSE off[g] + 0
      BY DEF ReaderAt, g
    <3> QED BY <3>6, <3>7, <3>8, <3>9, <3>10
  <2>4. ASSUME rd = "toolong" PROVE \E i \in DOMAIN sent : Len(Payload(sent[i])) > limit
    <3>1. g < Len(sent) /\ need = LengthOf(m) /\ need > limit
      BY <2>1, <2>4 DEF Returned
    <3>2. Len(Payload(m)) = LengthOf(m) /\ g + 1 \in DOMAIN sent
      BY <2>1, <2>2, <3>1, FrameFacts
    <3> QED BY <3>1, <3>2
  <2> QED BY <2>3, <2>4
<1> QED
  BY <1>1, Invariant, PTL

==============================================================================
