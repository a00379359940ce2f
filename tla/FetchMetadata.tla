--------------------------- MODULE FetchMetadata ---------------------------
(***************************************************************************)
(* bt/fetchmeta.go, FetchMetadata: dial a peer, handshake, introduce the   *)
(* ut_metadata extension and read messages until the metadata is complete, *)
(* with bt/stream.go under it.                                             *)
(*                                                                         *)
(* The goroutine looks at its context between two messages only; a read    *)
(* ends with a message or, ten seconds without a byte later, an error.     *)
(* A peer may send anything (Messages) and hang up at any time, unless it  *)
(* is honest: then it has the metadata and follows the protocol.           *)
(***************************************************************************)
EXTENDS ExtProtocol

CONSTANTS
  Messages,     \* what a peer may send
  MaxHandshakes \* the extension handshakes that an honest peer sends

ASSUME FetchAssumption ==
  /\ MaxHandshakes \in Nat \ {0}
  /\ \A msg \in Messages : IsMessage(msg)

VARIABLES
  honest,     \* what kind of peer it is
  pc,         \* where FetchMetadata is
  stream,     \* the connection
  cancelled,  \* ctx is done (cancelled, or past its deadline)
  session,    \* the ExtProtocol and its FetchMetaExt
  result,     \* what was returned: the metadata, or Nil
  late,       \* history: a message was read after ctx was done
  handshakes  \* history: the handshakes an honest peer has sent

vars == <<honest, pc, stream, cancelled, session, result, late, handshakes>>

TypeOK ==
  /\ honest \in BOOLEAN
  /\ pc \in {"dial", "handshake", "compare", "greet", "check", "read", "react", "returned", "crashed"}
  /\ stream \in {"none", "open", "closed"}
  /\ cancelled \in BOOLEAN
  /\ IsSession(session, {<<>>})
  /\ result \in Seq(Int) \cup {Nil}
  /\ late \in BOOLEAN
  /\ handshakes \in 0..MaxHandshakes

Init ==
  /\ honest \in BOOLEAN
  /\ pc = "dial"
  /\ stream = "none"
  /\ cancelled = FALSE
  /\ session = NewSession(<<Meta>>, <<>>)
  /\ result = Nil
  /\ late = FALSE
  /\ handshakes = 0

------------------------------------------------------------------------------
Cancel ==
  /\ ~cancelled
  /\ cancelled' = TRUE
  /\ UNCHANGED <<honest, pc, stream, session, result, late, handshakes>>

(* A return from FetchMetadata runs the deferred stream.Close. *)
Return(from, r) ==
  /\ pc = from
  /\ pc' = "returned"
  /\ stream' = IF stream = "open" THEN "closed" ELSE stream
  /\ result' = r

Goto(from, to) ==
  /\ pc = from
  /\ pc' = to
  /\ UNCHANGED <<stream, result>>

(* net.DialTimeout *)
DialFails ==
  /\ Return("dial", Nil)
  /\ UNCHANGED <<honest, cancelled, session, late, handshakes>>

Dial ==
  /\ pc = "dial"
  /\ pc' = "handshake"
  /\ stream' = "open"
  /\ UNCHANGED <<honest, cancelled, session, result, late, handshakes>>

(* Mutant: DialUseTCP returns the error of the handshake at once. *)
HandshakeFailsOpen ==
  /\ pc = "handshake"
  /\ pc' = "returned"
  /\ UNCHANGED <<honest, stream, cancelled, session, result, late, handshakes>>

(* The 68 bytes cannot be written or read, or name another protocol:       *)
(* DialUseTCP closes the connection itself.                                *)
HandshakeFails ==
  /\ Return("handshake", Nil)
  /\ UNCHANGED <<honest, cancelled, session, late, handshakes>>

Handshaken ==
  /\ Goto("handshake", "compare")
  /\ UNCHANGED <<honest, cancelled, session, late, handshakes>>

(* The peer has another info hash, or does not know extensions. *)
PeerUnfit ==
  /\ Return("compare", Nil)
  /\ UNCHANGED <<honest, cancelled, session, late, handshakes>>

PeerFit ==
  /\ Goto("compare", "greet")
  /\ UNCHANGED <<honest, cancelled, session, late, handshakes>>

(* proto.WriteHandshake and Flush *)
GreetFails ==
  /\ Return("greet", Nil)
  /\ UNCHANGED <<honest, cancelled, session, late, handshakes>>

Greet ==
  /\ Goto("greet", "check")
  /\ UNCHANGED <<honest, cancelled, session, late, handshakes>>

(* Mutant: the context is not looked at. *)
CheckCtxNever ==
  /\ Goto("check", "read")
  /\ UNCHANGED <<honest, cancelled, session, late, handshakes>>

CheckCtx ==
  /\ IF cancelled THEN Return("check", Nil) ELSE Goto("check", "read")
  /\ UNCHANGED <<honest, cancelled, session, late, handshakes>>

(* The read deadline, the end of the stream, a message that is too long.   *)
ReadFails ==
  /\ Return("read", Nil)
  /\ UNCHANGED <<honest, cancelled, session, late, handshakes>>

(* A message that is empty or not for the extension protocol: continue. *)
Skip ==
  /\ Goto("read", "check")
  /\ late' = (late \/ cancelled)
  /\ UNCHANGED <<honest, cancelled, session, handshakes>>

(* An extension message: HandlePayload. *)
Receive(msg) ==
  LET s == HandlePayload(session, msg)
  IN  /\ pc = "read"
      /\ late' = (late \/ cancelled)
      /\ session' = s
      /\ IF s.status = "panic" THEN
           pc' = "crashed" /\ UNCHANGED <<stream, result>>
         ELSE IF s.status = "error" THEN
           Return("read", Nil)
         ELSE
           Goto("read", "react")
      /\ UNCHANGED <<honest, cancelled>>

ReceiveAny ==
  /\ \E msg \in Messages : Receive(msg)
  /\ UNCHANGED handshakes

(* After a handshake the requests are written, however many the peer's     *)
(* size asks for, without a look at ctx.  Past 4096 bytes that means to    *)
(* write to the connection, for ten seconds at most.                       *)
WriteRequest(s) ==
  /\ pc = "react" /\ Requesting(session)
  /\ session' = s
  /\ UNCHANGED <<honest, pc, stream, cancelled, result, late, handshakes>>

WriteFails ==
  /\ Return("react", Nil)
  /\ UNCHANGED <<honest, cancelled, session, late, handshakes>>

(* Flush, which fails if a request was lost (a bufio.Writer keeps its      *)
(* error), IsSupoort, CheckDone and FetchRawMeta.                          *)
React ==
  /\ ~Requesting(session) /\ AllAsked(session)
  /\ IF Meta \notin session.supports THEN Return("react", Nil)
     ELSE IF CheckDone(session) /\ HashMatches(session) THEN Return("react", Joined(session))
     ELSE Goto("react", "check")
  /\ UNCHANGED <<honest, cancelled, session, late, handshakes>>

------------------------------------------------------------------------------
(* An honest peer: it has the metadata, knows the extension under the id   *)
(* 3, may repeat its handshake (all requests are then made again), answers *)
(* each request with the true piece and sends other messages in between.   *)
HonestHandshake ==
  [type |-> "handshake", m |-> [k \in {Meta} |-> 3], size |-> Len(TrueMeta), tr |-> "absent"]

HonestData(no) ==
  [type |-> "ext", id |-> 1, body |-> [kind |-> "data", piece |-> no, bytes |-> TruePiece(no)]]

ReceiveHandshake ==
  /\ honest
  /\ handshakes < MaxHandshakes
  /\ handshakes' = handshakes + 1
  /\ Receive(HonestHandshake)

ReceiveData(no) ==
  /\ honest
  /\ no \in session.asked
  /\ Receive(HonestData(no))
  /\ UNCHANGED handshakes

------------------------------------------------------------------------------
Connecting ==
  \/ Dial \/ Handshaken \/ PeerFit \/ Greet
  \/ ~honest /\ (DialFails \/ HandshakeFails \/ PeerUnfit \/ GreetFails)

Reading ==
  \/ Skip
  \/ ~honest /\ (ReadFails \/ ReceiveAny)
  \/ ReceiveHandshake
  \/ \E no \in 0..Len(TrueMeta) : ReceiveData(no)

Reacting ==
  \/ WriteRequest(Request(session)) \/ React
  \/ ~honest /\ (WriteRequest(LoseRequest(session)) \/ WriteFails)

Next == Cancel \/ Connecting \/ CheckCtx \/ Reading \/ Reacting

Spec == Init /\ [][Next]_vars

(* The goroutine runs, and no read or write lasts for ever.  An honest     *)
(* peer's answers come, whatever else it sends before them.                *)
Fairness ==
  /\ WF_vars(Connecting)
  /\ WF_vars(CheckCtx)
  /\ WF_vars(Reading)
  /\ WF_vars(Reacting)
  /\ SF_vars(ReceiveHandshake)
  /\ \A no \in 0..Len(TrueMeta) : SF_vars(ReceiveData(no))

FairSpec == Spec /\ Fairness

------------------------------------------------------------------------------
(* Whatever a peer sends, in whatever order and however often it repeats   *)
(* its handshake: what FetchMetadata returns hashes to the info hash.      *)
OnlyTrueMeta == result # Nil => result = TrueMeta

(* No return leaves the connection open, the failed handshakes of          *)
(* DialUseTCP included.                                                    *)
ClosedOnReturn == pc = "returned" => stream # "open"

(* FetchMetadata asks CheckDone only when pieces have been requested: it   *)
(* is not satisfied by the nil pieces of an extension that has seen no     *)
(* handshake, or one without a size.                                       *)
NeverVacuouslyDone ==
  pc \in {"check", "read"} /\ Meta \in session.supports =>
    Len(session.pieces) > 0 /\ session.asked # {}

(* After ctx is done at most one more message is handled. *)
OneMessageAfterCancel == [][pc = "read" /\ pc' # "read" /\ late' => ~late]_vars

(* Only four kinds of messages crash the program in HandlePayload; no      *)
(* other sequence of messages does.                                        *)
OnlyPoisonCrashes ==
  [][pc' = "crashed" /\ pc # "crashed" =>
       \E msg \in Messages : Poisonous(session, msg) /\ Receive(msg)]_vars

(* A fetch whose context is done comes to an end, also in the middle of    *)
(* the requests for a size that the peer made up and that nobody reads: it *)
(* returns, or the program crashes, for which the peer has to send one of  *)
(* the Poisonous messages.                                                 *)
CancelEndsFetch ==
  /\ cancelled ~> pc \in {"returned", "crashed"}
  /\ OnlyPoisonCrashes

(* A fetch from an honest peer delivers the metadata unless ctx is done    *)
(* first, also when the peer repeats its handshake during the download.    *)
HonestPeerSucceeds ==
  honest ~> pc = "returned" /\ (result = TrueMeta \/ cancelled)
==============================================================================
