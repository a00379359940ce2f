---------------------------- MODULE BencodeStream ----------------------------
(***************************************************************************)
(* A program that encodes values one behind the other, and another that    *)
(* reads them with one Decoder: into a variable of the right type or of a  *)
(* wrong one, into a fresh one or into the one it has just used.  On the   *)
(* way one byte may change or get lost, or the end may be missing.         *)
(***************************************************************************)
EXTENDS Bencode, Naturals

CONSTANTS
  Pool,       \* what may be sent: pairs of a type and a value of that type
  Targets,    \* the types that the reader decodes into
  Edits,      \* the bytes that damage may put in place of another
  MaxItems,   \* bound: values of one stream
  MaxDamaged  \* bound: only a single value of so many bytes gets damaged

ASSUME PoolAssumption == \A p \in Pool : p[1] \in Targets /\ Encode(p[2]) # <<>>

VARIABLES
  sent,       \* the items of the stream
  dec,        \* the Decoder
  damaged,    \* whether the input is no longer what was sent
  taken,      \* how many values have been asked for
  last        \* the last call: where it began, its type, and its target

streamVars == <<sent, dec, damaged, taken, last>>

None == [from |-> 0, T |-> AnyT, old |-> Nil]

Sizes(items) == FoldLeft(LAMBDA n, p : n + Len(Encode(p[2])), 0, items)

Streams == UNION {[1..n -> Pool] : n \in 1..MaxItems}

StreamInit(streams) ==
  /\ sent \in streams
  /\ \E strict \in BOOLEAN :   \* DisallowUnknownFields and -UnorderedKeys
       dec = NewDecoder(FlattenSeq([i \in DOMAIN sent |-> Encode(sent[i][2])]), strict, strict)
  /\ damaged = FALSE
  /\ taken = 0
  /\ last = None

(* The reader's network or peer is at fault, once. *)
Damage ==
  /\ ~damaged /\ taken = 0 /\ Len(sent) = 1 /\ Len(dec.input) <= MaxDamaged
  /\ \E i \in DOMAIN dec.input :
       \/ \E b \in Edits \ {dec.input[i]} : dec' = [dec EXCEPT !.input[i] = b]
       \/ dec' = [dec EXCEPT !.input = RemoveAt(@, i)]
       \/ dec' = [dec EXCEPT !.input = SubSeq(@, 1, i - 1)]
  /\ damaged' = TRUE
  /\ UNCHANGED <<sent, taken, last>>

(* Decoder.Decode.  A reader stops when a value could not be read; that a  *)
(* field is unknown or a key out of order does not keep one from reading   *)
(* on.                                                                     *)
DecodeInto(T, old) ==
  /\ dec.ok /\ taken < Len(sent)
  /\ dec' = Decode(dec, T, old)
  /\ taken' = taken + 1
  /\ last' = [from |-> dec.offset, T |-> T, old |-> old]
  /\ UNCHANGED <<sent, damaged>>

(* A variable that is new, or the one of the last call. *)
DecodeFresh == \E T \in Targets : DecodeInto(T, Zero(T))
DecodeReused == taken > 0 /\ DecodeInto(last.T, dec.v)

------------------------------------------------------------------------------
(* Bencode, by its grammar.  The one liberty that the decoder takes is     *)
(* that strconv allows a sign and leading zeros: in numbers and, as no     *)
(* byte is looked at before, in the length of a key.                       *)

IsInt(s) ==
  Len(s) > 2 /\ s[1] = I /\ Last(s) = E /\ ParseInt(SubSeq(s, 2, Len(s) - 1)).ok

IsKey(s) ==
  \E c \in DOMAIN s :
    /\ s[c] = Colon
    /\ ParseInt(SubSeq(s, 1, c - 1)) = [ok |-> TRUE, n |-> Len(s) - c]

IsString(s) == s # <<>> /\ IsDigit(s[1]) /\ IsKey(s)

RECURSIVE IsValue(_)

IsEntry(s) == \E m \in 1..Len(s) : IsKey(SubSeq(s, 1, m)) /\ IsValue(SubSeq(s, m + 1, Len(s)))

(* One Part behind the other, or nothing: up to how many bytes s is that.  *)
Divides(s, Part(_)) ==
  LET longer(ends, i) ==
        IF \E j \in ends : Part(SubSeq(s, j + 1, i)) THEN ends \cup {i} ELSE ends
  IN  Len(s) \in FoldLeftDomain(longer, {0}, s)

IsValue(s) ==
  \/ IsInt(s)
  \/ IsString(s)
  \/ /\ Len(s) > 1 /\ Last(s) = E
     /\ \/ s[1] = L /\ Divides(SubSeq(s, 2, Len(s) - 1), IsValue)
        \/ s[1] = D /\ Divides(SubSeq(s, 2, Len(s) - 1), IsEntry)

------------------------------------------------------------------------------
(* Properties *)

Asked == taken > 0
Before == [dec EXCEPT !.offset = last.from, !.ok = TRUE]   \* of the last call
Extent == SubSeq(dec.input, last.from + 1, dec.offset)
Own == ~damaged /\ taken \in DOMAIN sent /\ last.T = sent[taken][1]
Fresh == last.old = Zero(last.T)

(* Whatever a value is read into, an undamaged stream stays in step: the   *)
(* next value, or the piece behind a header, begins where the last one     *)
(* has ended: FetchMetaExt.HandleMessage cuts the message off there, at    *)
(* BytesParsed, to get the piece.  decode, the copying of a RawMessage and *)
(* the skipping of unknown keys and surplus elements are three readers of  *)
(* the same bytes.                                                         *)
InStep ==
  ~damaged /\ dec.ok
    => dec.offset = Sizes(SubSeq(sent, 1, taken))

(* What was encoded is decoded, into a fresh variable of its own type, to  *)
(* the value that it was.  The encoder sorts what it takes from maps,      *)
(* structs and embedded structs together, so that no decoder finds a key   *)
(* out of order (DisallowUnorderedKeys).  Only of an empty list it is not  *)
(* told whether it was nil: it comes back as nil.                          *)
ValueBack ==
  Own /\ Fresh =>
    /\ dec.ok /\ ~dec.unorderedKeysErr
    /\ dec.v = IF sent[taken][2] = List(<<>>) THEN NilList ELSE sent[taken][2]

(* Into an interface a value is read if and only if there is one, and it   *)
(* is read to its end.                                                     *)
AcceptsGrammar ==
  Asked /\ last.T = AnyT =>
    IF dec.ok THEN IsValue(Extent)
    ELSE \A n \in last.from..Len(dec.input) :
           ~IsValue(SubSeq(dec.input, last.from + 1, n))

(* What is a value is copied whole into a RawMessage and skipped whole.    *)
(* Input that is none may be copied: its consumer then gets the error.     *)
OneExtent ==
  Asked =>
    LET any == Decode(Before, AnyT, Nil)
    IN  any.ok => /\ dec.ok => dec.offset = any.offset
                  /\ last.T = RawT => dec.ok /\ dec.v = RawMessage(Extent)
                  /\ LET skipped == ReadValueInto(Before, FALSE)
                     IN  skipped.ok /\ skipped.offset = any.offset

(* A variable that is used again: entries are added to a map, the elements *)
(* of a list replace those of a slice, but an empty list leaves them (of a *)
(* []byte too, which an empty string empties), and a struct keeps the      *)
(* fields that the input does not name.  ExtProtocol decodes the "m" of    *)
(* every handshake into the same map.                                      *)
ReusedTarget ==
  Asked /\ dec.ok =>
    LET fresh == Decode(Before, last.T, Zero(last.T)).v
        named == DOMAIN Decode(Before, MapT(RawT), Dict(<<>>)).v.m
        old == last.old
    IN  CASE last.T.kind = "map" -> dec.v.m = fresh.m @@ old.m
          [] last.T.kind = "slice" -> dec.v = IF fresh.e = <<>> THEN old ELSE fresh
          [] last.T.kind = "bytes" -> dec.v = IF Extent = <<L, E>> THEN old ELSE fresh
          [] last.T.kind = "struct" ->
               \A f \in Range(Fields(last.T)) :
                 f.key \notin named => dec.v.f[f.name] = old.f[f.name]
          [] OTHER -> TRUE
==============================================================================
