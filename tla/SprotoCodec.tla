---------------------------- MODULE SprotoCodec ----------------------------
(***************************************************************************)
(* The field encoding of sproto, in Go (gosproto/encode.go, decode.go) and *)
(* in C# (SprotoTypeSerialize.cs, SprotoTypeDeserialize.cs and the classes *)
(* sprotogen writes), and the whole way of a message between a server and  *)
(* a client: encode, pack, unpack, decode.                                 *)
(*                                                                         *)
(* A message is a header of 16-bit words (their number; then per field its *)
(* value, or 0 when the value is in the data, or how many tags are left    *)
(* out) and the data, each piece behind its length.                        *)
(*                                                                         *)
(* Numbers are scaled down: a byte has Base values, 256 in the code.  Then *)
(* 16, 32 and 64 bits are 2, 4 and 8 bytes, and every limit of the code is *)
(* where it belongs.  A state is a type and a message of that type, which  *)
(* is built a field at a time, or else an input of SprotoPack.             *)
(***************************************************************************)
EXTENDS SprotoPack

CONSTANTS
    Base,           \* values of a byte
    MaxFields       \* bound on the fields of a message

ASSUME CodecAssumption == Base \in 4..256 /\ MaxFields \in Nat

M16 == Base^2
M32 == Base^4
M64 == Base^8
MaxEmbeddedInt == M16 \div 2 - 2
MaxInt32 == M32 \div 2 - 1

\* n in k bytes, little endian, and back; in two's complement if negative.
Bytes(n, k) == [i \in 1..k |-> ((n % Base^k) \div Base^(i - 1)) % Base]
Number(s) == FoldLeftDomain(LAMBDA sum, i : sum + s[i] * Base^(i - 1), 0, s)
Signed(n, m) == IF n >= m \div 2 THEN n - m ELSE n

\* A piece of data behind its length.
Chunk(s) == Bytes(Len(s), 4) \o s

RECURSIVE Chunks(_)
\* The pieces of a list, or Error.
Chunks(s) ==
    IF s = <<>> THEN <<>>
    ELSE LET n == Number(SubSeq(s, 1, 4))
         IN  IF Len(s) < 4 \/ Len(s) < 4 + n THEN Error
             ELSE <<SubSeq(s, 5, 4 + n)>> \o Chunks(From(s, 4 + n))

Ints == {"int32", "uint32", "int64", "uint64"}

\* An integer as the fields of a kind hold it: the casts of both languages
\* and reflect's SetInt and SetUint cut off what does not fit.
Cast(kind, n) ==
    CASE kind = "int32" -> Signed(n % M32, M32)
      [] kind = "uint32" -> n % M32
      [] kind = "int64" -> Signed(n % M64, M64)
      [] kind = "uint64" -> n % M64

\* A type is a sequence of fields in ascending order of tags; a message maps
\* the tags of its fields that are set to their values.
Tags(type) == {type[i].tag : i \in DOMAIN type}
FieldOf(type, tag) == CHOOSE f \in {type[i] : i \in DOMAIN type} : f.tag = tag

\* A field has the value it has when it is not set; a struct never, as a nil
\* pointer is a field that is not set.
IsZero(f, v) ==
    CASE f.list \/ f.kind = "string" -> v = <<>>
      [] f.kind = "bool" /\ ~f.list -> ~v
      [] f.kind = "struct" /\ ~f.list -> FALSE
      [] OTHER -> v = 0

\* The type of every struct field: one number, with a tag in front left out.
Inner == <<[tag |-> 1, kind |-> "int64", list |-> FALSE]>>

\* The words for one field: tags that are left out are one word in front.
skipTag(last, tag) == IF tag > last + 1 THEN <<(tag - last - 2) * 2 + 1>> ELSE <<>>

HeaderWords(parts) ==
    FlattenSeq([i \in DOMAIN parts |->
        skipTag(IF i = 1 THEN -1 ELSE parts[i - 1].tag, parts[i].tag) \o <<parts[i].word>>])

\* The message with these fields, each with its header word and its data.
Layout(parts) ==
    LET words == HeaderWords(parts)
    IN  Bytes(Len(words), 2) \o FlattenSeq([i \in DOMAIN words |-> Bytes(words[i], 2)])
           \o FlattenSeq([i \in DOMAIN parts |-> parts[i].data])

Part(f, word, data) == [tag |-> f.tag, word |-> word, data |-> data]

-----------------------------------------------------------------------------

(***************************************************************************)
(* Encoding.                                                               *)
(***************************************************************************)
RECURSIVE Encode(_, _, _)

\* What the two sides write alike: all but numbers and bool.
EncodePiece(side, f, v) ==
    CASE f.kind = "bool" -> [i \in DOMAIN v |-> IF v[i] THEN 1 ELSE 0]
      [] f.kind = "string" /\ f.list -> FlattenSeq([i \in DOMAIN v |-> Chunk(v[i])])
      [] f.kind = "string" /\ ~f.list -> v
      [] f.kind = "struct" /\ f.list ->
            FlattenSeq([i \in DOMAIN v |-> Chunk(Encode(side, Inner, v[i]))])
      [] f.kind = "struct" /\ ~f.list -> Encode(side, Inner, v)

IntList(vs, intLen) == <<intLen>> \o FlattenSeq([i \in DOMAIN vs |-> Bytes(vs[i], intLen)])

\* MUTANT: a number that needs all of 32 bits is not given more.
extractIntWide(kind, v) ==
    CASE kind = "int32" -> 4
      [] kind = "int64" -> IF v >= -(MaxInt32 + 1) /\ v < M32 THEN 4 ELSE 8
      [] OTHER -> IF v < M32 THEN 4 ELSE 8

\* Go: the bytes a number needs in the data.
extractInt(kind, v) ==
    CASE kind = "int32" -> 4
      [] kind = "int64" -> IF v >= -(MaxInt32 + 1) /\ v <= MaxInt32 THEN 4 ELSE 8
      [] OTHER -> IF v <= MaxInt32 THEN 4 ELSE 8

encodeIntSlice(kind, vs) ==
    IntList(vs, Max({4} \cup {extractInt(kind, vs[i]) : i \in DOMAIN vs}))

encodeField(f, v) ==
    CASE f.kind \in Ints /\ ~f.list ->
            IF v % M64 <= MaxEmbeddedInt
            THEN Part(f, 2 * (v + 1), <<>>)
            ELSE Part(f, 0, Chunk(Bytes(v, extractInt(f.kind, v))))
      [] f.kind \in Ints /\ f.list -> Part(f, 0, Chunk(encodeIntSlice(f.kind, v)))
      [] f.kind = "bool" /\ ~f.list -> Part(f, 4, <<>>)
      [] OTHER -> Part(f, 0, Chunk(EncodePiece("go", f, v)))

\* Go writes a field unless it has its zero value; the zero value of a slice
\* is nil, not empty.
GoWrites(f, m) == f.tag \in DOMAIN m /\ (f.list \/ ~IsZero(f, m[f.tag]))

\* C#: write_integer for a number, cast to Int64.
write_integer(f, v) ==
    IF v >= -(MaxInt32 + 1) /\ v <= MaxInt32
    THEN IF v % M32 < M16 \div 2 - 1
         THEN Part(f, (v + 1) * 2, <<>>)
         ELSE Part(f, 0, Chunk(Bytes(v, 4)))
    ELSE Part(f, 0, Chunk(Bytes(v, 8)))

\* C#: lists of 32-bit numbers are short whatever is in them.
write_list32(vs) == IntList(vs, 4)

\* C#: the other lists are written anew with 8 bytes a number at the first
\* that needs them.
write_list64(vs) ==
    LET wide(v) == v > MaxInt32 \/ v < -(MaxInt32 + 1)
    IN  IntList(vs, IF \E i \in DOMAIN vs : wide(vs[i]) THEN 8 ELSE 4)

write_field(f, v) ==
    CASE f.kind \in Ints /\ ~f.list -> write_integer(f, Cast("int64", v))
      [] f.kind \in {"int32", "uint32"} /\ f.list -> Part(f, 0, Chunk(write_list32(v)))
      [] f.kind \in {"int64", "uint64"} /\ f.list -> Part(f, 0, Chunk(write_list64(v)))
      [] f.kind = "bool" /\ ~f.list -> write_integer(f, IF v THEN 1 ELSE 0)
      [] OTHER -> Part(f, 0, Chunk(EncodePiece("cs", f, v)))

\* C# writes the fields that are set, but no empty lists.
CsWrites(f, m) == f.tag \in DOMAIN m /\ (f.list => ~IsZero(f, m[f.tag]))

\* The header words for which the generated class leaves room (sprotogen):
\* one per field and one per gap between their tags.
MaxFieldCount(type) ==
    Len(type) + Cardinality({i \in DOMAIN type :
                    type[i].tag > (IF i = 1 THEN 0 ELSE type[i - 1].tag + 1)})

\* In C# the header is written into the room left for it; one that does not
\* fit would run into the data (Error).  write_tag throws when a word does
\* not fit in 16 bits.
Encode(side, type, m) ==
    LET in == SelectSeq(type, LAMBDA f : IF side = "go" THEN GoWrites(f, m) ELSE CsWrites(f, m))
        parts == [i \in DOMAIN in |-> IF side = "go" THEN encodeField(in[i], m[in[i].tag])
                                                     ELSE write_field(in[i], m[in[i].tag])]
        words == HeaderWords(parts)
    IN  IF side = "cs" /\ (\/ Len(words) > MaxFieldCount(type)
                           \/ \E i \in DOMAIN words : words[i] >= M16)
        THEN Error ELSE Layout(parts)

-----------------------------------------------------------------------------

(***************************************************************************)
(* Decoding.  A value comes in a sequence, so that it differs from Error.  *)
(***************************************************************************)
RECURSIVE Decode(_, _, _)

\* Go: the header words as tags, each with its value or -1.
decodeHeader(words) ==
    FoldLeft(LAMBDA st, w :
                IF w % 2 = 1
                THEN [st EXCEPT !.tag = (@ + ((w + 1) % M16) \div 2) % M16]
                ELSE [tag |-> (st.tag + 1) % M16,
                      tags |-> Append(st.tags, [tag |-> st.tag, val |-> w \div 2 - 1])],
             [tag |-> 0, tags |-> <<>>], words).tags

\* C#: the same by read_tag, which counts from the tag before.
read_tag(words) ==
    FoldLeft(LAMBDA st, w :
                IF w % 2 = 1
                THEN [st EXCEPT !.tag = @ + 1 + w \div 2]
                ELSE [tag |-> st.tag + 1,
                      tags |-> Append(st.tags, [tag |-> st.tag + 1, val |-> w \div 2 - 1])],
             [tag |-> -1, tags |-> <<>>], words).tags

\* A struct that has been read from s: for Go it takes up its piece to the
\* last byte.
InnerOf(side, s, r) ==
    IF r.err \/ (side = "go" /\ r.at # Len(s)) THEN Error ELSE <<r.m>>

DecodeInner(side, s) == InnerOf(side, s, Decode(side, Inner, s))

\* A list, if all of its items could be read.
AllOf(items) ==
    IF \E i \in DOMAIN items : items[i] = Error THEN Error
    ELSE <<[i \in DOMAIN items |-> items[i][1]]>>

ItemsOf(side, kind, items) ==
    CASE items = Error -> Error
      [] items # Error /\ kind = "string" -> <<items>>
      [] OTHER -> AllOf([i \in DOMAIN items |-> DecodeInner(side, items[i])])

DecodePiece(side, f, data) ==
    CASE f.kind = "bool" -> <<[i \in DOMAIN data |-> data[i] # 0]>>
      [] f.kind = "string" /\ ~f.list -> <<data>>
      [] f.kind = "struct" /\ ~f.list -> DecodeInner(side, data)
      [] OTHER -> ItemsOf(side, f.kind, Chunks(data))

\* Go reads 4 bytes as a number without a sign.
decodeInt(kind, s) == Cast(kind, Number(s))

\* C# reads them with their sign (expand64).
read_integer(kind, s) == Cast(kind, Signed(Number(s), Base^Len(s)))

\* The pieces of a list of numbers.  Lengths other than 4 and 8, which neither
\* side writes, count as malformed.
IntPieces(data) ==
    LET n == data[1]
    IN  IF data # <<>> /\ n \in {4, 8} /\ (Len(data) - 1) % n = 0
        THEN [i \in 1..((Len(data) - 1) \div n) |-> SubSeq(data, 2 + (i - 1) * n, 1 + i * n)]
        ELSE Error

decodeIntSlice(kind, data) ==
    LET items == IntPieces(data)
    IN  IF items = Error THEN Error ELSE <<[i \in DOMAIN items |-> decodeInt(kind, items[i])]>>

read_integer_list(kind, data) ==
    LET items == IntPieces(data)
    IN  CASE data = <<>> -> <<data>>
          [] data # <<>> /\ items = Error -> Error
          [] OTHER -> <<[i \in DOMAIN items |-> read_integer(kind, items[i])]>>

\* The value of a field from its word (-1 if it is in the data) and its data.
DecodeField(side, f, val, data) ==
    IF side = "cs" /\ f.list /\ val >= 0 THEN Error ELSE
    CASE f.kind \in Ints /\ ~f.list ->
            CASE val >= 0 -> <<Cast(f.kind, val)>>
              [] val < 0 /\ Len(data) \in {4, 8} ->
                    <<IF side = "go" THEN decodeInt(f.kind, data) ELSE read_integer(f.kind, data)>>
              [] val < 0 /\ Len(data) = 0 /\ side = "go" -> <<0>>
              [] OTHER -> Error
      [] f.kind \in Ints /\ f.list ->
            IF side = "go" THEN decodeIntSlice(f.kind, data) ELSE read_integer_list(f.kind, data)
      [] f.kind = "bool" /\ ~f.list -> IF val < 0 THEN Error ELSE <<val # 0>>
      [] OTHER -> DecodePiece(side, f, data)

\* MUTANT: the length in front of the data is not passed over.
read_unknow_dataShort(at, n) == IF n = 0 THEN at ELSE at + n - 4

\* Where the data goes on behind that of a tag nobody knows.
read_unknow_data(at, n) == at + n

Failed == [at |-> 0, m |-> <<>>, err |-> TRUE]

\* The field of a tag is stored, and the data goes on behind it.
Stored(st, tag, n, v) ==
    IF v = Error THEN Failed ELSE [st EXCEPT !.at = @ + n, !.m = (tag :> v[1]) @@ @]

\* One turn of the loop over the tags, with the rest of the data; tags that
\* are not in the type are passed over.
DecodeTurn(side, type, st, t, rest) ==
    LET n == IF t.val >= 0 THEN 0 ELSE 4 + Number(SubSeq(rest, 1, 4))
    IN  CASE t.val < 0 /\ Len(rest) < 4 -> Failed
          [] (t.val >= 0 \/ Len(rest) >= 4) /\ Len(rest) < n -> Failed
          [] OTHER ->
                IF t.tag \notin Tags(type) THEN [st EXCEPT !.at = read_unknow_data(@, n)]
                ELSE Stored(st, t.tag, n, DecodeField(side, FieldOf(type, t.tag), t.val,
                                                      SubSeq(rest, 5, n)))

\* The message and the bytes it took; what follows is not looked at.
Decode(side, type, s) ==
    LET fn == Number(SubSeq(s, 1, 2))
        words == [i \in 1..fn |-> Number(SubSeq(s, 2 * i + 1, 2 * i + 2))]
    IN  IF Len(s) < 2 THEN Failed
        ELSE IF Len(s) < 2 + 2 * fn THEN Failed
        ELSE FoldLeft(LAMBDA st, t : IF st.err THEN st
                                     ELSE DecodeTurn(side, type, st, t, From(s, st.at)),
                      [at |-> 2 + 2 * fn, m |-> <<>>, err |-> FALSE],
                      IF side = "go" THEN decodeHeader(words) ELSE read_tag(words))

\* From message to packet and back (NetworkPeer.cs, codec/sproto/sproto.go).
Packed(from, e) == IF e = Error THEN Error ELSE IF from = "go" THEN Pack(e) ELSE pack(e)
Unpacked(to, p) == IF to = "go" THEN Unpack(p) ELSE unpack(p, Len(p))

-----------------------------------------------------------------------------

VARIABLES type, msg

codecVars == <<src, type, msg>>

\* Values around every limit the code tells apart.
IntValues(kind) ==
    CASE kind = "int32" -> {0, MaxEmbeddedInt, MaxEmbeddedInt + 1, MaxInt32, -1, -(MaxInt32 + 1)}
      [] kind = "uint32" -> {0, MaxEmbeddedInt + 1, MaxInt32, MaxInt32 + 1, M32 - 1}
      [] kind = "int64" -> {0, 1, MaxInt32, MaxInt32 + 1, -1, -(MaxInt32 + 1), -(MaxInt32 + 2)}
      [] kind = "uint64" -> {0, MaxEmbeddedInt, MaxInt32 + 1, M64 - 1, M64 - MaxInt32 - 2}

Texts == {<<>>, <<0, 2, 0>>, [i \in 1..17 |-> 1 + (i % 3)]}
Structs == {<<>>, 1 :> 3, 1 :> -(MaxInt32 + 2)}

Values(f) ==
    CASE f.kind \in Ints /\ ~f.list -> IntValues(f.kind)
      [] f.kind \in Ints /\ f.list ->
            LET a == Max(IntValues(f.kind)) b == Min(IntValues(f.kind))
            IN  {<<>>, <<1>>, <<1, a>>, <<a, 1>>, <<b, 1>>}
      [] f.kind = "bool" /\ ~f.list -> BOOLEAN
      [] f.kind = "bool" /\ f.list -> {<<>>, <<FALSE, TRUE>>}
      [] f.kind = "string" /\ ~f.list -> Texts
      [] f.kind = "string" /\ f.list -> {<<>>, <<<<>>, <<3, 1>>>>}
      [] f.kind = "struct" /\ ~f.list -> Structs
      [] f.kind = "struct" /\ f.list -> {<<>>, <<<<>>, 1 :> 9>>}

NextTag == IF type = <<>> THEN 0 ELSE type[Len(type)].tag + 1

\* Another field, set or not, behind the last or behind a gap in the tags.
\* Fields other than bool are tried two at a time.
AddField ==
    /\ src = <<>>
    /\ Len(type) < MaxFields
    /\ \E gap \in {0, 2}, kind \in Ints \cup {"bool", "string", "struct"}, list \in BOOLEAN :
          LET f == [tag |-> NextTag + gap, kind |-> kind, list |-> list]
          IN  /\ (kind # "bool" \/ list) =>
                    Len(type) < 2 /\ \A i \in DOMAIN type : type[i].tag \in DOMAIN msg
              /\ type' = Append(type, f)
              /\ \/ kind = "bool" /\ ~list /\ msg' = msg
                 \/ \E v \in Values(f) : msg' = (f.tag :> v) @@ msg
    /\ (Len(type) >= 2 => \A i \in DOMAIN type' : type'[i].kind = "bool" /\ ~type'[i].list)
    /\ UNCHANGED src

\* Data that is only packed.
FeedBytes == type = <<>> /\ Feed /\ UNCHANGED <<type, msg>>

CodecInit == src = <<>> /\ type = <<>> /\ msg = <<>>
CodecNext == AddField \/ FeedBytes

-----------------------------------------------------------------------------

\* A message without the fields that are as if they were not set.
Set(m) == {t \in DOMAIN m : ~IsZero(FieldOf(type, t), m[t])}
Restricted(m, S) == [t \in S |-> m[t]]

\* Go reads a number of 4 bytes without its sign: a negative int64 that fits
\* in 32 bits, and a uint64 so large that C#, which casts it to Int64, takes
\* it for one, arrive as numbers without the sign.
Small(v) == v >= -(MaxInt32 + 1) /\ v <= MaxInt32

AsRead(from, to, f, v) ==
    CASE to = "go" /\ f.kind = "int64" /\ f.list ->
            IF \A i \in DOMAIN v : Small(v[i]) THEN [i \in DOMAIN v |-> v[i] % M32] ELSE v
      [] to = "go" /\ f.kind = "int64" /\ ~f.list -> IF Small(v) THEN v % M32 ELSE v
      [] to = "go" /\ from = "cs" /\ f.kind = "uint64" /\ ~f.list ->
            IF Small(Signed(v, M64)) THEN v % M32 ELSE v
      [] OTHER -> v

\* Tags so far apart that the word between them is the largest there is, for
\* which v + 1 of decodeHeader wraps to 0, or needs more than 16 bits, for
\* which C# throws and Go writes the low ones.
FarTags == \E t \in Tags(type) : t >= M16 \div 2

\* The message that has been read is the one that was sent.
Intact(from, to, r) ==
    /\ ~r.err
    /\ Restricted(r.m, Set(r.m))
          = [t \in Set(msg) |-> AsRead(from, to, FieldOf(type, t), msg[t])]

\* Whichever side sends, and whichever receives, a message arrives as it
\* was sent: through encode, pack, unpack and decode, for every kind of
\* field, value and gap between tags (but for AsRead, and for the inputs that
\* SprotoPack.cs cannot pack).  Its header fits in the room that the generated
\* class leaves for it: Encode is no error, whichever fields are set.
MessageArrives ==
    type # <<>> /\ ~FarTags => \A from \in {"go", "cs"} :
        LET e == Encode(from, type, msg)
            p == Packed(from, e)
        IN  /\ e # Error
            /\ p # Error => \A to \in {"go", "cs"} :
                    Intact(from, to, Decode(to, type, Unpacked(to, p)))

\* What is read by an older type, compared with what the new one reads.
ReadsRest(old, full, tag) ==
    ~old.err /\ old.m = Restricted(full.m, DOMAIN full.m \ {tag})

\* A receiver with an older version of the type, in which a field is
\* missing, passes over it and reads all the others.
OldTypeReads ==
    type # <<>> => LET e == Encode("cs", type, msg) IN
        e # Error => \A to \in {"go", "cs"}, i \in DOMAIN type :
            ReadsRest(Decode(to, RemoveAt(type, i), e), Decode(to, type, e), type[i].tag)

=============================================================================
