------------------------------ MODULE PeerWire ------------------------------
(***************************************************************************)
(* bt/peerwire.go and WriteExtensionMessage of bt/extension.go: messages   *)
(* as length-prefixed frames on one direction of a connection.             *)
(*                                                                         *)
(* A frame goes out in several writes, each of which may fail after some   *)
(* of its bytes (a write deadline of ten seconds, stream.go:84), and a     *)
(* later write may succeed again.  The writer is the connection itself, as *)
(* in metaTrackFetcher, or a bufio.Writer around it, as in FetchMetadata,  *)
(* which keeps up to BufSize bytes and never writes again after an error.  *)
(* The reader takes whatever bytes come for the length that it expects.    *)
(***************************************************************************)
EXTENDS Integers, Sequences, SequencesExt

CONSTANTS
  Base,     \* a byte is one of 0..Base-1
  LenSize,  \* bytes of a length: 4
  ExtID,    \* the id of extension messages
  Outgoing, \* messages that may be written: [ext, id, content]
  Limits,   \* what ReadMessageWithLimit is called with
  BufSize,  \* of the bufio.Writer
  MaxCalls  \* bound of this model: messages written

ASSUME WireAssumption ==
  /\ Base \in Nat \ {0, 1}
  /\ LenSize \in Nat \ {0}
  /\ ExtID \in 0..(Base - 1)
  /\ BufSize \in Nat \ {0}
  /\ MaxCalls \in Nat

Bytes == 0..(Base - 1)

VARIABLES
  buffered,  \* the writer is a bufio.Writer
  pc,        \* where the writing goroutine is
  todo,      \* the writes that its call has still to make
  buf,       \* the bytes in the bufio.Writer
  failed,    \* the bufio.Writer has had an error
  wire,      \* the bytes on their way
  rd,        \* where the reader is
  limit,     \* the longest message it accepts
  need,      \* the length it has read
  got,       \* history: the messages it has returned
  sent,      \* history: the messages of the calls made so far
  accepted,  \* history: how many of them the writer's calls say are written
  swallowed  \* history: a call returned nil although a write had failed

writerVars == <<pc, todo, buf, failed, sent, accepted, swallowed>>
readerVars == <<rd, need, got>>
vars == <<buffered, limit, wire, writerVars, readerVars>>

(* ReadMessage and ReadMessageInto have no limit but that of the length. *)
NoLimit == Base^LenSize - 1

TypeOK ==
  /\ buffered \in BOOLEAN
  /\ pc \in {"idle", "write", "stopped"}
  /\ todo \in Seq(Seq(Bytes))
  /\ buf \in Seq(Bytes)
  /\ Len(buf) <= BufSize
  /\ failed \in BOOLEAN
  /\ wire \in Seq(Bytes)
  /\ rd \in {"len", "body", "toolong", "failed"}
  /\ limit \in Limits \cup {NoLimit}
  /\ need \in 0..NoLimit
  /\ got \in Seq(Seq(Bytes))
  /\ sent \in Seq(Outgoing)
  /\ accepted \in 0..MaxCalls
  /\ swallowed \in BOOLEAN

Init ==
  /\ buffered \in BOOLEAN
  /\ pc = "idle"
  /\ todo = <<>>
  /\ buf = <<>>
  /\ failed = FALSE
  /\ wire = <<>>
  /\ rd = "len"
  /\ limit \in Limits \cup {NoLimit}
  /\ need = 0
  /\ got = <<>>
  /\ sent = <<>>
  /\ accepted = 0
  /\ swallowed = FALSE

------------------------------------------------------------------------------
(* The bytes of a frame *)

(* Mutant: an extension message is as long as another of that content. *)
LengthPlusOne(m) == Len(m.content) + 1

LengthOf(m) == Len(m.content) + IF m.ext THEN 2 ELSE 1

(* binary.Write of a uint32, big endian, and binary.Read of one. *)
Encoded(n) == [i \in 1..LenSize |-> (n \div Base^(LenSize - i)) % Base]
Decoded(b) == FoldLeft(LAMBDA n, x : n * Base + x, 0, b)

Ids(m) == IF m.ext THEN <<ExtID, m.id>> ELSE <<m.id>>

Payload(m) == Ids(m) \o m.content

(* The writes of a call: the length, the ids (byte by byte to a            *)
(* ByteWriter, at once to another writer) and the content.                 *)
Writes(m) ==
  <<Encoded(LengthOf(m))>>
  \o (IF buffered THEN [i \in DOMAIN Ids(m) |-> <<Ids(m)[i]>>] ELSE <<Ids(m)>>)
  \o <<m.content>>

(* encoding/binary, which is not the repository's, reads what it writes,   *)
(* and every message has a length that it can write.                       *)
ASSUME LengthAssumption ==
  /\ NoLimit \in Nat
  /\ \A n \in 0..NoLimit : Encoded(n) \in [1..LenSize -> Bytes] /\ Decoded(Encoded(n)) = n
  /\ \A b \in [1..LenSize -> Bytes] : Decoded(b) \in 0..NoLimit
  /\ \A m \in Outgoing :
       m \in [ext : BOOLEAN, id : Bytes, content : Seq(Bytes)] /\ LengthOf(m) <= NoLimit

------------------------------------------------------------------------------
(* The writer *)

Call(m) ==
  /\ pc = "idle"
  /\ Len(sent) < MaxCalls
  /\ pc' = "write"
  /\ todo' = Writes(m)
  /\ sent' = Append(sent, m)
  /\ UNCHANGED <<buffered, limit, wire, buf, failed, accepted, swallowed, readerVars>>

(* What is given to the connection: the bytes written, or, when they would *)
(* not fit, the contents of the buffer and them; nothing after an error.   *)
Waiting == IF buffered THEN buf \o Head(todo) ELSE Head(todo)
Overflows == ~buffered \/ Len(Waiting) > BufSize

(* A write succeeds: all of it reaches the connection, or as much as makes *)
(* the rest fit into the buffer.                                           *)
Write ==
  /\ pc = "write"
  /\ ~failed
  /\ \E n \in 0..Len(Waiting) :
       /\ IF buffered THEN Len(Waiting) - n <= BufSize /\ (n > 0 => Overflows) ELSE n = Len(Waiting)
       /\ wire' = wire \o SubSeq(Waiting, 1, n)
       /\ buf' = SubSeq(Waiting, n + 1, Len(Waiting))
  /\ todo' = Tail(todo)
  /\ pc' = IF Len(todo) = 1 THEN "idle" ELSE "write"
  /\ accepted' = IF Len(todo) = 1 /\ ~buffered THEN Len(sent) ELSE accepted
  /\ UNCHANGED <<buffered, limit, failed, sent, swallowed, readerVars>>

(* A write fails after some of its bytes.  If it was that of the length    *)
(* the call returns nil all the same (peerwire.go:73, extension.go:146).   *)
WriteFails ==
  /\ pc = "write"
  /\ failed \/ Overflows
  /\ \E n \in 0..Len(Waiting) :
       /\ (n < Len(Waiting) /\ ~failed) \/ n = 0
       /\ wire' = wire \o SubSeq(Waiting, 1, n)
  /\ failed' = buffered
  /\ todo' = <<>>
  /\ IF todo = Writes(Last(sent))
       THEN pc' = "idle" /\ swallowed' = TRUE
       ELSE pc' = "stopped" /\ UNCHANGED swallowed
  /\ UNCHANGED <<buffered, limit, buf, sent, accepted, readerVars>>

(* w.Flush() between two calls *)
Flush ==
  /\ buffered
  /\ pc = "idle"
  /\ ~failed
  /\ wire' = wire \o buf
  /\ buf' = <<>>
  /\ accepted' = Len(sent)
  /\ UNCHANGED <<buffered, limit, pc, todo, failed, sent, swallowed, readerVars>>

FlushFails ==
  /\ buffered
  /\ pc = "idle"
  /\ failed \/ buf # <<>>
  /\ \E n \in 0..Len(buf) :
       /\ (n < Len(buf) /\ ~failed) \/ n = 0
       /\ wire' = wire \o SubSeq(buf, 1, n)
  /\ failed' = TRUE
  /\ pc' = "stopped"
  /\ UNCHANGED <<buffered, limit, todo, buf, sent, accepted, swallowed, readerVars>>

------------------------------------------------------------------------------
(* The reader *)

Take(n) ==
  /\ Len(wire) >= n
  /\ wire' = SubSeq(wire, n + 1, Len(wire))

(* Mutant: a message of exactly the limit is refused. *)
ReadLengthBelow ==
  /\ rd = "len"
  /\ Take(LenSize)
  /\ need' = Decoded(SubSeq(wire, 1, LenSize))
  /\ rd' = IF need' >= limit THEN "toolong" ELSE "body"
  /\ UNCHANGED <<buffered, limit, writerVars, got>>

ReadLength ==
  /\ rd = "len"
  /\ Take(LenSize)
  /\ need' = Decoded(SubSeq(wire, 1, LenSize))
  /\ rd' = IF need' > limit THEN "toolong" ELSE "body"
  /\ UNCHANGED <<buffered, limit, writerVars, got>>

(* io.ReadFull, or io.CopyN into the buffer *)
ReadBody ==
  /\ rd = "body"
  /\ Take(need)
  /\ got' = Append(got, SubSeq(wire, 1, need))
  /\ rd' = "len"
  /\ need' = 0
  /\ UNCHANGED <<buffered, limit, writerVars>>

(* The end of the stream, or the read deadline, also amid a message. *)
ReadFails ==
  /\ rd \in {"len", "body"}
  /\ rd' = "failed"
  /\ UNCHANGED <<buffered, limit, wire, writerVars, need, got>>

------------------------------------------------------------------------------
Next ==
  \/ \E m \in Outgoing : Call(m)
  \/ Write \/ WriteFails \/ Flush \/ FlushFails
  \/ ReadLength \/ ReadBody \/ ReadFails

Spec == Init /\ [][Next]_vars

(* The reader goes on reading. *)
FairSpec == Spec /\ WF_vars(ReadLength) /\ WF_vars(ReadBody)

------------------------------------------------------------------------------
(* The reader returns the messages that were written, whole and in order,  *)
(* wherever a write fails: behind a bufio.Writer always, although the      *)
(* error of the length is swallowed; on the bare connection as long as     *)
(* none has been.                                                          *)
InOrder ==
  buffered \/ ~swallowed =>
    IsPrefix(got, [i \in DOMAIN sent |-> Payload(sent[i])])

(* What the writer was told is written arrives, unless the reader's        *)
(* connection fails or it has a limit below the length of a message.  For  *)
(* a bufio.Writer the word is Flush's.                                     *)
AcceptedArrives ==
  \A n \in 1..MaxCalls :
    accepted >= n /\ (buffered \/ ~swallowed) ~>
      \/ Len(got) >= n
      \/ rd = "failed"
      \/ \E i \in DOMAIN sent : Len(Payload(sent[i])) > limit
      \/ ~buffered /\ swallowed
==============================================================================
