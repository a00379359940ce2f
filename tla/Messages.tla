------------------------------ MODULE Messages ------------------------------
(***************************************************************************)
(* What btlet puts into bencode and takes out of it: KRPC messages         *)
(* (dht/krpc.go), the compact addresses in them (dht/util.go,              *)
(* tools/tools.go), what the sybil transaction answers (dht/crawler.go),   *)
(* and the outline of a torrent's metadata (bt/metadata.go).  A datagram   *)
(* is a stream of one item (BencodeStream): it is received, possibly       *)
(* damaged, and disposed of.                                               *)
(*                                                                         *)
(* A key, and the name of a query, is one byte here.  Numbers of bytes are *)
(* those of the code.  Types that have an UnmarshalBencode of their own    *)
(* are read as what it reads, and its conditions are checked afterwards.   *)
(***************************************************************************)
EXTENDS BencodeStream, Bitwise

CONSTANTS
  Packets,    \* datagrams and metadata: pairs like those of Pool
  NodeID,     \* of this node: 20 bytes
  Target,     \* what the crawler looks for
  Token       \* RandomString(20)

VARIABLE event   \* what has been made of the datagram
vars == <<streamVars, event>>

StringField(name, b) == Field(name, <<b>>, {}, StringT)
Optional(name, b, T) == Field(name, <<b>>, {"omitempty"}, T)

MessageT == StructT(<< StringField("TransactionID", 116), StringField("Y", 121),
                       Optional("Q", 113, StringT), Optional("Args", 97, RawT),
                       Optional("Resp", 114, RawT), Optional("Err", 101, RawT) >>)
Query == <<113>>
Resp == <<114>>
Err == <<101>>

PingArgs == StructT(<<StringField("NodeID", 105)>>)
FindNodeArgs == StructT(<<StringField("NodeID", 105), StringField("Target", 103)>>)
GetPeersArgs == StructT(<<StringField("NodeID", 105), StringField("InfoHash", 104)>>)
AnnouncePeerArgs ==
  StructT(<< StringField("NodeID", 105), StringField("InfoHash", 104),
             Field("Port", <<112>>, {}, IntT), StringField("Token", 116) >>)
Response ==
  StructT(<< StringField("NodeID", 105), Optional("Nodes", 110, PtrT(StringT)),
             Optional("Token", 116, StringT), Optional("Values", 118, SliceT(StringT)) >>)

Ping == <<1>>
FindNode == <<2>>
GetPeers == <<3>>
AnnouncePeer == <<4>>
ArgsOf == (Ping :> PingArgs) @@ (FindNode :> FindNodeArgs)
          @@ (GetPeers :> GetPeersArgs) @@ (AnnouncePeer :> AnnouncePeerArgs)

------------------------------------------------------------------------------
(* krpc.go *)
NoRaw == RawMessage(<<>>)
Message(tid, y) ==
  [TransactionID |-> Str(tid), Y |-> Str(y), Q |-> Str(<<>>),
   Args |-> NoRaw, Resp |-> NoRaw, Err |-> NoRaw]

MakeQueryEx(q, tid, args) ==
  Struct(MessageT, [Message(tid, Query) EXCEPT !.Q = Str(q), !.Args = RawMessage(Encode(args))])

(* The type of the arguments says what is asked. *)
MakeQuery(tid, args) == MakeQueryEx(CHOOSE q \in DOMAIN ArgsOf : ArgsOf[q] = args.t, tid, args)

(* Mutant: the transaction of the query is not named. *)
ResponseToNobody(tid, resp) ==
  Struct(MessageT, [Message(<<>>, Resp) EXCEPT !.Resp = RawMessage(Encode(resp))])

MakeResponse(tid, resp) ==
  Struct(MessageT, [Message(tid, Resp) EXCEPT !.Resp = RawMessage(Encode(resp))])

(* With KRPCErr.MarshalBencode *)
MakeError(tid, code, describe) ==
  Struct(MessageT, [Message(tid, Err) EXCEPT
                      !.Err = RawMessage(Encode(List(<<Num(code), Str(describe)>>)))])

(* KRPCErr.UnmarshalBencode: of the code it is not asked what it is. *)
IsKRPCErr(raw) ==
  LET e == Unmarshal(raw, SliceT(AnyT))
  IN  e.ok /\ Len(e.v.e) >= 2 /\ e.v.e[2].k = "str"

IsMessage(msg) == msg.ok /\ (msg.v.f.Err = NoRaw \/ IsKRPCErr(msg.v.f.Err.s))

------------------------------------------------------------------------------
(* tools.go, util.go *)
IPv4(ip) == [i \in 1..10 |-> 0] \o <<255, 255>> \o ip   \* net.IPv4

DecodeCompactIPPortInfo(info) ==
  [ip |-> IPv4(SubSeq(info, 1, 4)), port |-> info[5] * 256 + info[6]]

(* The first bytes of the IP, however long it is. *)
EncodeCompactIPPortInfo(addr) ==
  [i \in 1..4 |-> IF i \in DOMAIN addr.ip THEN addr.ip[i] ELSE 0]
    \o <<addr.port \div 256, addr.port % 256>>

PackNodes(nodes) ==
  FlattenSeq([i \in DOMAIN nodes |-> EncodeCompactIPPortInfo(nodes[i].addr)])

CanUnpackNodes(data) == Len(data) % 26 = 0
(* Mutant: the address is taken from where the id begins. *)
UnpackedAtId(data) ==
  [i \in 1..(Len(data) \div 26) |->
    LET buf == SubSeq(data, (i - 1) * 26 + 1, i * 26)
    IN  [id |-> SubSeq(buf, 1, 20), addr |-> DecodeCompactIPPortInfo(SubSeq(buf, 20, 25))]]

UnpackNodes(data) ==
  [i \in 1..(Len(data) \div 26) |->
    LET buf == SubSeq(data, (i - 1) * 26 + 1, i * 26)
    IN  [id |-> SubSeq(buf, 1, 20), addr |-> DecodeCompactIPPortInfo(SubSeq(buf, 21, 26))]]

(* For two equal ids this is 168, not 160. *)
CommonPrefixLen(a, b) ==
  LET i == SelectInSeq([n \in 1..20 |-> a[n] # b[n]], LAMBDA differs : differs)
      v == a[i] ^^ b[i]
  IN  IF i = 0 THEN 168
      ELSE 8 * (i - 1) + Cardinality({j \in 1..8 : v \div 2 ^ (8 - j) = 0})

CanMakeID(dst) == dst = <<>> \/ Len(dst) >= 15   \* else the slice panics
MakeID(dst, id) == IF dst = <<>> THEN id ELSE SubSeq(dst, 1, 15) \o SubSeq(id, 16, Len(id))

------------------------------------------------------------------------------
(* metadata.go *)
FileT == StructT(<<Field("Path", <<112>>, {}, SliceT(StringT)), Field("Length", <<108>>, {}, UintT)>>)
Meta == StructT(<< StringField("Name", 110), Optional("Length", 108, PtrT(UintT)),
                   Field("PieceLength", <<112>>, {}, UintT), Field("Pieces", <<115>>, {}, BytesT),
                   Optional("Files", 102, SliceT(FileT)) >>)

Slash == <<47>>
JoinPath(path) ==   \* strings.Join
  IF path = <<>> THEN <<>>
  ELSE FoldLeft(LAMBDA s, name : s \o Slash \o name.s, Head(path).s, Tail(path))

(* Mutant: one file or many, that is told from the length. *)
FilesByLength(m) ==
  IF m.Length # Nil THEN <<[path |-> m.Name.s, length |-> m.Length.n]>>
  ELSE [i \in DOMAIN m.Files.e |-> [path |-> JoinPath(m.Files.e[i].f.Path.e),
                                    length |-> m.Files.e[i].f.Length.n]]

(* A file of its own, or those that are listed. *)
OutlineFiles(m) ==
  IF m.Files = NilList THEN <<[path |-> m.Name.s, length |-> m.Length.n]>>
  ELSE [i \in DOMAIN m.Files.e |-> [path |-> JoinPath(m.Files.e[i].f.Path.e),
                                    length |-> m.Files.e[i].f.Length.n]]

------------------------------------------------------------------------------
(* What is done with the bytes.  "panic" is one of the goroutine.          *)
Arrived(T) == event.at = "wire" /\ sent[1] \in Packets /\ sent[1][1] = T
Nothing == [at |-> "done", reply |-> <<>>, queries |-> {}]
Panic == [Nothing EXCEPT !.at = "panic"]

(* Host.disposeMessage *)
DisposeMessage ==
  /\ Arrived(MessageT)
  /\ \E msg \in {Unmarshal(dec.input, MessageT)} :
       event' = IF IsMessage(msg) /\ msg.v.f.Y.s \in {Query, Resp}
                THEN [at |-> IF msg.v.f.Y.s = Query THEN "query" ELSE "response", m |-> msg.v.f]
                ELSE Nothing
  /\ UNCHANGED streamVars

(* findTargetNode *)
FindTargetNode(nodes) ==
  LET query(nd) == MakeQuery(<<0>>, Struct(FindNodeArgs,
                     [NodeID |-> Str(MakeID(nd.id, NodeID)), Target |-> Str(Target)]))
      sends == {[to |-> nd.addr, msg |-> query(nd)] : nd \in nodes}
  IN  {[to |-> send.to, data |-> Encode(send.msg)] : send \in sends}

Src == [ip |-> <<9, 9, 9, 9>>, port |-> 9]   \* where the datagram comes from

(* The response of OnQuery: to get_peers also a token and no nodes. *)
AnswerTo(q, id) ==
  Struct(Response, [ NodeID |-> Str(MakeID(id, NodeID)),
                     Nodes |-> IF q = GetPeers THEN Str(PackNodes(<<>>)) ELSE Nil,
                     Token |-> Str(IF q = GetPeers THEN Token ELSE <<>>),
                     Values |-> NilList ])

(* sybilTransaction.OnQuery.  The filter lets the sender pass, or not. *)
OnQuery ==
  /\ event.at = "query"
  /\ \E passes \in BOOLEAN :
       LET m == event.m
           sender(id) == IF passes THEN {[id |-> id, addr |-> Src]} ELSE {}
       IN  \/ /\ m.Q.s \notin {Ping, GetPeers, AnnouncePeer}
              /\ event' = [Nothing EXCEPT !.queries = FindTargetNode(sender(<<>>))]
           \/ /\ m.Q.s \in {Ping, GetPeers, AnnouncePeer}
              /\ \E a \in {Unmarshal(m.Args.s, ArgsOf[m.Q.s])} :
                   IF ~a.ok THEN event' = Nothing
                   ELSE IF ~CanMakeID(a.v.f.NodeID.s) THEN event' = Panic
                   ELSE \E r \in {MakeResponse(m.TransactionID.s, AnswerTo(m.Q.s, a.v.f.NodeID.s))} :
                          event' = [Nothing EXCEPT !.reply = Encode(r),
                                      !.queries = FindTargetNode(sender(a.v.f.NodeID.s))]
  /\ UNCHANGED streamVars

IsResponse(r) == r.ok /\ (r.v.f.Nodes = Nil \/ CanUnpackNodes(r.v.f.Nodes.s))

(* sybilTransaction.OnResponse *)
OnResponse ==
  /\ event.at = "response"
  /\ \E r \in {Unmarshal(event.m.Resp.s, Response)} :
       IF ~IsResponse(r) \/ r.v.f.Nodes = Nil THEN event' = Nothing
       ELSE \E passing \in SUBSET Range(UnpackNodes(r.v.f.Nodes.s)) :
              event' = [Nothing EXCEPT !.queries = FindTargetNode(passing)]
  /\ UNCHANGED streamVars

(* RawMeta.FillOutline *)
FillOutline ==
  /\ Arrived(Meta)
  /\ \E meta \in {Unmarshal(dec.input, Meta)} :
       LET m == meta.v.f
       IN  event' = IF ~meta.ok THEN Nothing
                    ELSE IF m.Files = NilList /\ m.Length = Nil THEN Panic
                    ELSE [at |-> "outline", name |-> m.Name.s, files |-> OutlineFiles(m)]
  /\ UNCHANGED streamVars

Init == StreamInit(Streams \cup {<<p>> : p \in Packets}) /\ event = [at |-> "wire"]
Next ==
  \/ Damage /\ event.at = "wire" /\ UNCHANGED event
  \/ (DecodeFresh \/ DecodeReused) /\ Range(sent) \subseteq Pool /\ UNCHANGED event
  \/ DisposeMessage \/ OnQuery \/ OnResponse \/ FillOutline
Spec == Init /\ [][Next]_vars

------------------------------------------------------------------------------
(* Properties *)

Near(id, to) == Len(id) = 20 /\ (Len(to) = 20 => CommonPrefixLen(id, to) >= 120)

(* A message that is made, encoded and received undamaged is the message   *)
(* that the disposer gets: transaction id, query, and arguments.           *)
HostUnderstands ==
  [][ event.at = "wire" /\ sent[1][1] = MessageT /\ ~damaged =>
        LET m == sent[1][2].f
        IN  event' = CASE m.Y.s = Query -> [at |-> "query", m |-> m]
                       [] m.Y.s = Resp -> [at |-> "response", m |-> m]
                       [] OTHER -> Nothing ]_event

(* Whatever the query, and damaged or not, an answer reaches the           *)
(* transaction that has asked, is a response that the asker can read, and  *)
(* comes from an id close to its own: that is what a sybil is.             *)
AnswersTheAsker ==
  [][ event.at = "query" /\ event'.reply # <<>> =>
        \A a \in {Unmarshal(event.m.Args.s, PingArgs)}, m \in {Unmarshal(event'.reply, MessageT)} :
          /\ IsMessage(m) /\ m.v.f.Y.s = Resp
          /\ m.v.f.TransactionID = event.m.TransactionID
          /\ \A r \in {Unmarshal(m.v.f.Resp.s, Response)} :
               IsResponse(r) /\ Near(r.v.f.NodeID.s, a.v.f.NodeID.s) ]_event

(* Who is asked after a response is a node that the response names, at the *)
(* address that is packed behind its id, and by a neighbour of that id.    *)
NodesAreAsked ==
  [][ event.at = "response" =>
        \A query \in event'.queries, r \in {Unmarshal(event.m.Resp.s, Response)} :
        \A m \in {Unmarshal(query.data, MessageT)} :
        \A args \in {Unmarshal(m.v.f.Args.s, FindNodeArgs)} :
          LET compact == r.v.f.Nodes.s
              addr == [ip |-> SubSeq(query.to.ip, 13, 16), port |-> query.to.port]
          IN  /\ m.v.f.Q.s = FindNode /\ args.ok /\ args.v.f.Target.s = Target
              /\ \E i \in 1..(Len(compact) \div 26) :
                   /\ SubSeq(compact, 26 * i - 5, 26 * i) = EncodeCompactIPPortInfo(addr)
                   /\ Near(args.v.f.NodeID.s, SubSeq(compact, 26 * i - 25, 26 * i - 6)) ]_event

(* The outline shows every file that was listed when the metadata was      *)
(* encoded, even if it names a length as well, under all the names of its  *)
(* path, the empty ones too, and no other file; of metadata that lists     *)
(* none, the one file that its length is about.                            *)
OutlineComplete ==
  event.at = "outline" /\ ~damaged =>
    LET m == sent[1][2].f
        listed == m.Files.e
        shows(i) ==
          /\ event.files[i].length = listed[i].f.Length.n
          /\ Slash \o event.files[i].path
               = FlattenSeq([j \in DOMAIN listed[i].f.Path.e |-> Slash \o listed[i].f.Path.e[j].s])
    IN  /\ event.name = m.Name.s
        /\ IF listed = <<>>
           THEN event.files = <<[path |-> m.Name.s, length |-> m.Length.n]>>
           ELSE DOMAIN event.files = DOMAIN listed /\ \A i \in DOMAIN listed : shows(i)
==============================================================================
