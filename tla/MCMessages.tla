----------------------------- MODULE MCMessages -----------------------------
(***************************************************************************)
(* Values of every kind that the decoder and the encoder tell apart, and   *)
(* one datagram of each sort.  Keys and strings hold bytes that mean       *)
(* something to bencode, so that damage can shift what is read as what.    *)
(***************************************************************************)
EXTENDS Messages

a == <<97>>
b == <<98>>
ab == <<97, 98>>
e1 == <<E, 49>>

Inner == StructT(<<Field("z", b, {}, IntT)>>)
Outer == StructT(<< Field("list", ab, {}, SliceT(IntT)), Embedded("Inner", <<66>>, Inner),
                    Field("ptr", a, {}, PtrT(BoolT)), Field("opt", <<99>>, {"omitempty"}, StringT),
                    Field("no", e1, {"-"}, IntT), Plain("plain", <<65>>, StringT) >>)
Known == StructT(<<Field("x", a, {}, AnyT), Field("raw", ab, {"omitempty"}, RawT)>>)

MCPool ==
  { <<IntT, Num(-12)>>, <<BoolT, Bool(TRUE)>>, <<StringT, Str(e1)>>,
    <<BytesT, Str(<<>>)>>, <<BytesT, Str(<<L, E>>)>>,
    <<SliceT(IntT), List(<<Num(1), Num(300)>>)>>,
    <<SliceT(IntT), NilList>>, <<SliceT(IntT), List(<<>>)>>,
    <<SliceT(AnyT), List(<<NilList, Str(<<>>), Dict(b :> Num(1))>>)>>,
    <<MapT(ByteT), Dict((ab :> Num(3)) @@ (b :> Num(255)))>>,
    <<MapT(ByteT), Dict((a :> Num(4)) @@ (b :> Num(0)))>>,
    <<Outer, Struct(Outer, ("list" :> List(<<Num(7)>>)) @@ ("z" :> Num(5)) @@ ("ptr" :> Nil)
                           @@ ("opt" :> Str(<<E>>)) @@ ("plain" :> Str(<<>>)))>>,
    <<Known, Struct(Known, ("x" :> List(<<Num(1)>>)) @@ ("raw" :> RawMessage(<<L, E>>)))>> }

MCTargets ==
  {p[1] : p \in MCPool} \cup {AnyT, RawT, UintT, ArrayT(IntT, 1), MapT(RawT), PtrT(IntT)}

MCEdits == {E, I, Colon, Minus, 49}

Id(x) == [i \in 1..20 |-> x]
MCNodeID == Id(200)
MCTarget == Id(201)
MCToken == Id(202)

Args(T, id) == Struct(T, [f \in {g.name : g \in Range(T.fields)} |->
  CASE f = "NodeID" -> Str(id) [] f = "Port" -> Num(6881) [] OTHER -> Str(Id(5))])

Addr(x) == [ip |-> <<10, 0, 0, x>>, port |-> 256 * x + 1]
Compact(x) == Id(x) \o EncodeCompactIPPortInfo(Addr(x))
PeerResponse(nodes) ==
  Struct(Response, [NodeID |-> Str(Id(3)), Nodes |-> nodes, Token |-> Str(<<>>),
                    Values |-> List(<<Str(e1)>>)])

File(path, n) == Struct(FileT, [Path |-> List(path), Length |-> Num(n)])
Torrent(length, files) ==
  Struct(Meta, [Name |-> Str(ab), Length |-> length, PieceLength |-> Num(16),
                Pieces |-> Str(e1), Files |-> files])

Tid == <<1, 2>>
MCPackets ==
  {<<MessageT, MakeQuery(Tid, Args(T, Id(7)))>> : T \in Range(<<FindNodeArgs, GetPeersArgs>>)}
    \cup {<<MessageT, MakeQuery(Tid, Args(AnnouncePeerArgs, id))>> : id \in {Id(7), [i \in 1..16 |-> 7]}}
    \cup {<<MessageT, MakeQuery(Tid, Args(PingArgs, id))>> : id \in {<<>>, <<7>>, Id(7)}}
    \cup {<<MessageT, MakeQueryEx(<<5>>, Tid, Args(PingArgs, Id(7)))>>}
    \cup {<<MessageT, MakeResponse(Tid, PeerResponse(nodes))>> :
            nodes \in {Nil, Str(<<>>), Str(Compact(8) \o Compact(9)), Str(<<1>>)}}
    \cup {<<MessageT, MakeError(Tid, 203, a)>>}
    \cup {<<Meta, Torrent(length, files)>> :
            length \in {Nil, Num(0)}, files \in {NilList}}
    \cup {<<Meta, Torrent(Nil, List(<<File(<<Str(a)>>, 1), File(<<Str(a), Str(b)>>, 2)>>))>>}
    \cup {<<Meta, Torrent(Num(3), List(<<File(<<Str(<<>>), Str(b)>>, 2)>>))>>}
=============================================================================
