------------------------------- MODULE Bencode -------------------------------
(***************************************************************************)
(* bencode/: Decoder and Encoder, on bytes and on Go values.               *)
(*                                                                         *)
(* A byte is its number.  A Go type is a record with a kind, and what      *)
(* reflection tells of it; a Go value is a record with a field k.  A       *)
(* pointer is what it points to, or Nil; an interface is what it holds.    *)
(* A decoder is a record: input, offset and the sticky errors are those of *)
(* the Decoder, ok says that no read has failed so far, and v is what the  *)
(* last call has read or made of its target.                               *)
(*                                                                         *)
(* Left out: numbers beyond 64 bits, kinds that Encode does not support,   *)
(* and Marshalers of one's own except RawMessage.                          *)
(***************************************************************************)
EXTENDS Integers, Sequences, SequencesExt, TLC

I == 105
L == 108
D == 100
E == 101
Colon == 58
Plus == 43
Minus == 45
Eof == -1
IsDigit(b) == b \in 48..57

(* Values *)
Nil == [k |-> "nil"]
Num(n) == [k |-> "int", n |-> n]
Bool(b) == [k |-> "bool", b |-> b]
Str(s) == [k |-> "str", s |-> s]
RawMessage(s) == [k |-> "raw", s |-> s]
List(e) == [k |-> "list", e |-> e, null |-> FALSE]
NilList == [k |-> "list", e |-> <<>>, null |-> TRUE]
Dict(m) == [k |-> "dict", m |-> m]
Struct(T, f) == [k |-> "struct", t |-> T, f |-> f]

(* Types *)
Basic(kind) == [kind |-> kind]
AnyT == Basic("any")
IntT == Basic("int")
UintT == Basic("uint")
ByteT == Basic("uint8")
BoolT == Basic("bool")
StringT == Basic("string")
BytesT == Basic("bytes")     \* []byte; its values are those of a string
RawT == Basic("raw")
PtrT(T) == [kind |-> "ptr", of |-> T]
SliceT(T) == [kind |-> "slice", of |-> T]
ArrayT(T, n) == [kind |-> "array", of |-> T, len |-> n]
MapT(T) == [kind |-> "map", of |-> T]
StructT(fields) == [kind |-> "struct", fields |-> fields]

(* A field of a struct: its name, its key (of the tag, or else the name),  *)
(* the options of the tag (parseTag; tagged says that there is one), its   *)
(* type, and whether it is embedded or unexported.                         *)
Field(name, key, opts, T) ==
  [ name |-> name, key |-> key, opts |-> opts, of |-> T,
    tagged |-> TRUE, embedded |-> FALSE, exported |-> TRUE ]
Plain(name, key, T) == [Field(name, key, {}, T) EXCEPT !.tagged = FALSE]
Embedded(name, key, T) == [Plain(name, key, T) EXCEPT !.embedded = TRUE]

Ignored(f) == "-" \in f.opts

(* The fields that wrapStruct2Map and readStruct go through: first those   *)
(* of embedded structs, then one's own.                                    *)
(* Mutant: embedded structs are passed over. *)
OwnFields(T) == SelectSeq(T.fields, LAMBDA f : f.exported /\ ~f.embedded /\ ~Ignored(f))

RECURSIVE Fields(_)
Fields(T) ==
  LET exported == SelectSeq(T.fields, LAMBDA f : f.exported)
      inner == SelectSeq(exported, LAMBDA f : f.embedded /\ ~f.tagged)
      own == SelectSeq(exported, LAMBDA f : ~(f.embedded /\ ~f.tagged) /\ ~Ignored(f))
  IN  FoldLeft(LAMBDA s, f : s \o Fields(f.of), <<>>, inner) \o own

(* reflect.New *)
RECURSIVE Zero(_)
Zero(T) ==
  CASE T.kind \in {"any", "ptr"} -> Nil
    [] T.kind \in {"int", "uint", "uint8"} -> Num(0)
    [] T.kind = "bool" -> Bool(FALSE)
    [] T.kind \in {"string", "bytes"} -> Str(<<>>)
    [] T.kind = "raw" -> RawMessage(<<>>)
    [] T.kind = "slice" -> NilList
    [] T.kind = "array" -> List([i \in 1..T.len |-> Zero(T.of)])
    [] T.kind = "map" -> Dict(<<>>)
    [] T.kind = "struct" ->
         Struct(T, [x \in {f.name : f \in Range(Fields(T))} |->
                     Zero((CHOOSE f \in Range(Fields(T)) : f.name = x).of)])

------------------------------------------------------------------------------
(* strconv *)
ParseUint(s) ==
  LET ok == s # <<>> /\ \A i \in DOMAIN s : IsDigit(s[i])
  IN  [ok |-> ok, n |-> IF ok THEN FoldLeft(LAMBDA n, b : 10 * n + b - 48, 0, s) ELSE 0]

ParseInt(s) ==
  IF s # <<>> /\ Head(s) \in {Plus, Minus}
  THEN LET u == ParseUint(Tail(s))
       IN  [u EXCEPT !.n = IF Head(s) = Minus THEN -@ ELSE @]
  ELSE ParseUint(s)

RECURSIVE Digits(_)
Digits(n) ==
  IF n < 0 THEN <<Minus>> \o Digits(-n)
  ELSE IF n < 10 THEN <<48 + n>>
  ELSE Append(Digits(n \div 10), 48 + (n % 10))

(* Strings are ordered by their bytes. *)
Less(a, b) ==
  \E i \in DOMAIN b :
    /\ i <= Len(a) => a[i] < b[i]
    /\ i - 1 <= Len(a)
    /\ \A j \in 1..(i - 1) : a[j] = b[j]

------------------------------------------------------------------------------
(* The reads of a Decoder *)
NewDecoder(input, knownOnly, orderedOnly) ==
  [ input |-> input, offset |-> 0, ok |-> TRUE, v |-> Nil,
    disallowUnknownFields |-> knownOnly, disallowUnorderedKeys |-> orderedOnly,
    unknownFieldsErr |-> FALSE, unorderedKeysErr |-> FALSE ]

Fail(d, v) == [d EXCEPT !.ok = FALSE, !.v = v]

PeekByte(d) == IF d.offset < Len(d.input) THEN d.input[d.offset + 1] ELSE Eof
ReadByte(d) == [d EXCEPT !.offset = @ + 1]

(* The bytes before delim; the offset is behind it, or at the end. *)
ReadBytes(d, delim) ==
  LET at == {i \in (d.offset + 1)..Len(d.input) : d.input[i] = delim}
  IN  IF at = {} THEN Fail([d EXCEPT !.offset = Len(d.input)], Nil)
      ELSE LET end == Min(at)
           IN  [d EXCEPT !.offset = end, !.v = SubSeq(d.input, d.offset + 1, end - 1)]

(* Mutant: Read, which is content with less. *)
ReadUpTo(d, n) ==
  LET end == Min({d.offset + n, Len(d.input)})
  IN  [d EXCEPT !.offset = end, !.v = SubSeq(d.input, d.offset + 1, end)]

ReadFull(d, n) ==
  IF d.offset + n > Len(d.input) THEN Fail([d EXCEPT !.offset = Len(d.input)], Nil)
  ELSE [d EXCEPT !.offset = @ + n, !.v = SubSeq(d.input, d.offset + 1, d.offset + n)]

------------------------------------------------------------------------------
(* readValueInto: a value is gone over, for a RawMessage (raw) or for a    *)
(* field or an element that has no place in the target.                    *)

(* Mutant: without a buffer, what the length announces is not read. *)
BodyNotSkipped(d, raw) ==
  LET line == ReadBytes(d, Colon)
  IN  IF ~line.ok \/ ~raw THEN line ELSE ReadFull(line, ParseInt(line.v).n)

(* A length that does not parse is taken for 0.  Discard refuses a         *)
(* negative number, CopyN does not.                                        *)
ReadStringInto(d, raw) ==
  LET line == ReadBytes(d, Colon)
      length == ParseInt(line.v).n
  IN  IF ~line.ok THEN line
      ELSE IF length >= 0 THEN ReadFull(line, length)
      ELSE [line EXCEPT !.ok = raw]

RECURSIVE ReadValueInto(_, _)
RECURSIVE ReadItemsInto(_, _, _)

ReadItem(d, raw) == IF d.ok THEN ReadValueInto(d, raw) ELSE d

(* The loops of readListInto and readDictInto *)
ReadItemsInto(d, raw, dict) ==
  IF ~d.ok \/ PeekByte(d) = Eof THEN Fail(d, Nil)
  ELSE IF PeekByte(d) = E THEN ReadByte(d)
  ELSE ReadItemsInto(ReadItem(IF dict THEN ReadStringInto(d, raw) ELSE d, raw), raw, dict)

ReadValueInto(d, raw) ==
  LET next == PeekByte(d)
  IN  CASE next = I -> ReadBytes(d, E)
        [] IsDigit(next) -> ReadStringInto(d, raw)
        [] next \in {L, D} -> ReadItemsInto(ReadByte(d), raw, next = D)
        [] OTHER -> Fail(d, Nil)

(* Mutant: what the RawMessage held is not cut off. *)
RawAppended(r, from, old) ==
  [r EXCEPT !.v = IF r.ok THEN RawMessage(old.s \o SubSeq(r.input, from + 1, r.offset)) ELSE old]

(* RawMessage.UnmarshalBencode, of what has been read from the offset on *)
RawFrom(r, from, old) ==
  [r EXCEPT !.v = IF r.ok THEN RawMessage(SubSeq(r.input, from + 1, r.offset)) ELSE old]

------------------------------------------------------------------------------
(* decode *)

DecodeInt(d, T, old) ==
  LET line == ReadBytes(ReadByte(d), E)
      num == IF T.kind \in {"any", "int"} THEN ParseInt(line.v) ELSE ParseUint(line.v)
  IN  IF line.ok /\ T.kind \in {"any", "int", "uint", "uint8", "bool"} /\ num.ok
      THEN [line EXCEPT !.v = CASE T.kind = "bool" -> Bool(num.n # 0)
                                [] T.kind = "uint8" -> Num(num.n % 256)
                                [] OTHER -> Num(num.n)]
      ELSE Fail(line, old)

DecodeString(d, T, old) ==
  LET line == ReadBytes(d, Colon)
      length == ParseInt(line.v)
      body == ReadFull(line, length.n)
  IN  IF ~line.ok \/ ~length.ok \/ length.n < 0 THEN Fail(line, old)
      ELSE IF body.ok /\ T.kind \in {"any", "string", "bytes"} THEN [body EXCEPT !.v = Str(@)]
      ELSE Fail(body, old)

RECURSIVE Decode(_, _, _)
RECURSIVE DecodeItems(_, _, _)
RECURSIVE DecodeEntries(_, _, _)

(* Mutant: a list is appended to what the target holds. *)
ItemsSoFarKept(T, val, i) == val

(* The elements of a slice are cut off when the first element comes. *)
ItemsSoFar(T, val, i) ==
  IF T.kind = "slice" /\ i = 0 THEN [val EXCEPT !.e = <<>>] ELSE val

(* Element i + 1 has been decoded, into its place in an array or into a    *)
(* new value to append to a slice.                                         *)
PutItem(r, T, val, i) ==
  [r EXCEPT !.v = IF T.kind = "array" THEN [val EXCEPT !.e[i + 1] = r.v]
                  ELSE IF r.ok THEN List(Append(val.e, r.v)) ELSE val]

DecodeItem(d, T, val, i) ==
  IF T.kind = "array" /\ i >= T.len
  THEN [ReadValueInto(d, FALSE) EXCEPT !.v = val]
  ELSE PutItem(Decode(d, T.of, IF T.kind = "array" THEN val.e[i + 1] ELSE Zero(T.of)), T, val, i)

(* decodeList's loop: d.v is the list with i elements of it decoded.       *)
DecodeItems(d, T, i) ==
  IF ~d.ok \/ PeekByte(d) = Eof THEN Fail(d, d.v)
  ELSE IF PeekByte(d) = E THEN ReadByte(d)
  ELSE DecodeItems(DecodeItem(d, T, ItemsSoFar(T, d.v, i), i), T, i + 1)

(* A []byte is a slice too: of uint8, which cuts numbers off. *)
BytesToList(str) == List([i \in DOMAIN str.s |-> Num(str.s[i])])
ListToBytes(r) == [r EXCEPT !.v = Str([i \in DOMAIN @.e |-> @.e[i].n])]

DecodeList(d, T, old) ==
  CASE T.kind = "any" -> DecodeItems([ReadByte(d) EXCEPT !.v = NilList], SliceT(AnyT), 0)
    [] T.kind \in {"slice", "array"} -> DecodeItems([ReadByte(d) EXCEPT !.v = old], T, 0)
    [] T.kind = "bytes" ->
         ListToBytes(DecodeItems([ReadByte(d) EXCEPT !.v = BytesToList(old)], SliceT(ByteT), 0))
    [] OTHER -> Fail(d, old)

(* wrapStruct2Map: of several fields with one key the last one counts.     *)
HasField(T, key) == \E f \in Range(Fields(T)) : f.key = key
FieldFor(T, key) == Last(SelectSeq(Fields(T), LAMBDA f : f.key = key))

(* The entry's value has been decoded, into a new value for a map or into  *)
(* its place in a struct.                                                  *)
PutEntry(r, T, val, key) ==
  [r EXCEPT !.v = IF T.kind = "struct" THEN [val EXCEPT !.f[FieldFor(T, key).name] = r.v]
                  ELSE IF r.ok THEN Dict((key :> r.v) @@ val.m) ELSE val]

DecodeEntryValue(d, T, val, key) ==
  IF T.kind = "map" THEN PutEntry(Decode(d, T.of, Zero(T.of)), T, val, key)
  ELSE IF HasField(T, key)
  THEN PutEntry(Decode(d, FieldFor(T, key).of, val.f[FieldFor(T, key).name]), T, val, key)
  ELSE [ReadValueInto([d EXCEPT !.unknownFieldsErr = @ \/ d.disallowUnknownFields], FALSE)
          EXCEPT !.v = val]

(* One turn of decodeDict's loop, when k has read the key.                 *)
DecodeEntry(k, T, val, lastKey) ==
  IF ~k.ok THEN Fail(k, val)
  ELSE DecodeEntryValue([k EXCEPT !.unorderedKeysErr =
                           @ \/ (k.disallowUnorderedKeys /\ Less(k.v.s, lastKey))],
                        T, val, k.v.s)

DecodeEntries(d, T, lastKey) ==
  LET k == DecodeString(d, StringT, Str(<<>>))
  IN  IF ~d.ok \/ PeekByte(d) = Eof THEN Fail(d, d.v)
      ELSE IF PeekByte(d) = E THEN ReadByte(d)
      ELSE DecodeEntries(DecodeEntry(k, T, d.v, lastKey), T, k.v.s)

DecodeDict(d, T, old) ==
  CASE T.kind = "any" -> DecodeEntries([ReadByte(d) EXCEPT !.v = Dict(<<>>)], MapT(AnyT), <<>>)
    [] T.kind \in {"map", "struct"} -> DecodeEntries([ReadByte(d) EXCEPT !.v = old], T, <<>>)
    [] OTHER -> Fail(ReadByte(d), old)

(* Decoder.decode: the next value, into a target that holds old.           *)
Decode(d, T, old) ==
  LET next == PeekByte(d)
  IN  CASE T.kind = "ptr" -> Decode(d, T.of, IF old = Nil THEN Zero(T.of) ELSE old)
        [] T.kind = "raw" -> RawFrom(ReadValueInto(d, TRUE), d.offset, old)
        [] next = I -> DecodeInt(d, T, old)
        [] IsDigit(next) -> DecodeString(d, T, old)
        [] next = L -> DecodeList(d, T, old)
        [] next = D -> DecodeDict(d, T, old)
        [] OTHER -> Fail(d, old)

(* Unmarshal: the value of data, or that there is an error. *)
Unmarshal(data, T) == Decode(NewDecoder(data, FALSE, FALSE), T, Zero(T))

------------------------------------------------------------------------------
(* encode *)

EncodeString(s) == Digits(Len(s)) \o <<Colon>> \o s

(* Mutant: omitempty has no effect. *)
NeverEmpty(f, v) == FALSE

(* isEmptyValue, of a field: a pointer to zero is not empty. *)
IsEmptyValue(f, v) ==
  IF v = Nil THEN TRUE
  ELSE /\ f.of.kind \notin {"ptr", "any"}
       /\ v \in {Num(0), Bool(FALSE), Str(<<>>), RawMessage(<<>>), NilList, List(<<>>), Dict(<<>>)}

(* readStruct: nil pointers and what omitempty leaves out are not there.   *)
ReadStruct(v) ==
  LET fields == SelectSeq(Fields(v.t), LAMBDA f :
                  /\ v.f[f.name] # Nil
                  /\ "omitempty" \in f.opts => ~IsEmptyValue(f, v.f[f.name]))
  IN  [i \in DOMAIN fields |-> [key |-> fields[i].key, value |-> v.f[fields[i].name]]]

(* sort.Sort, which leaves the order of a few equal keys alone. *)
Sorted(pairs) ==
  LET Insert(s, p) ==
        LET upTo == SelectSeq(s, LAMBDA q : ~Less(p.key, q.key))
        IN  upTo \o <<p>> \o SubSeq(s, Len(upTo) + 1, Len(s))
  IN  FoldLeft(Insert, <<>>, pairs)

MapPairs(v) ==
  LET keys == SetToSeq({x \in DOMAIN v.m : v.m[x] # Nil})
  IN  [i \in DOMAIN keys |-> [key |-> keys[i], value |-> v.m[keys[i]]]]

RECURSIVE Encode(_)

EncodePairs(pairs) ==
  <<D>> \o FlattenSeq([i \in DOMAIN pairs |->
                        EncodeString(pairs[i].key) \o Encode(pairs[i].value)]) \o <<E>>

Encode(v) ==
  CASE v.k = "nil" -> <<>>
    [] v.k = "int" -> <<I>> \o Digits(v.n) \o <<E>>
    [] v.k = "bool" -> <<I, IF v.b THEN 49 ELSE 48, E>>
    [] v.k = "str" -> EncodeString(v.s)
    [] v.k = "raw" -> v.s
    [] v.k = "list" -> <<L>> \o FlattenSeq([i \in DOMAIN v.e |-> Encode(v.e[i])]) \o <<E>>
    [] v.k = "dict" -> EncodePairs(Sorted(MapPairs(v)))
    [] v.k = "struct" -> EncodePairs(Sorted(ReadStruct(v)))
==============================================================================
