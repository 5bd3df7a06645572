------------------------------- MODULE ObjFmt -------------------------------
(***************************************************************************)
(* The binary format of goobjfmt, which the codec "binary" of cellnet and  *)
(* so all system messages use: BinaryWrite asks dataSize for the length of *)
(* the buffer and encodes into it, BinaryRead checks a length and decodes. *)
(* Both go through the fields of a struct by reflection.                   *)
(*                                                                         *)
(* A type is a record whose kind is one of                                 *)
(*   int      a number or bool of size bytes, signed or not                *)
(*   string   text, and []byte, which is written alike                     *)
(*   slice    of elem, which is not a byte                                 *)
(*   struct   a sequence of fields, each with a type and whether it has    *)
(*            the tag binary:"-"                                           *)
(* mem is the size of a value in memory, reflect.Type.Size, which dataSize *)
(* uses for the elements of a slice.  Floats are numbers to this code.     *)
(* Arrays panic in dataSize and kinds it does not know, like int, in both. *)
(* Panic stands for an index out of range, which ends the goroutine.       *)
(***************************************************************************)
EXTENDS Integers, SequencesExt

CONSTANTS
    Panic, ErrOutOfData,
    MaxObjFields        \* bound on the fields of the struct

VARIABLES
    objType,            \* the fields of a struct type
    obj                 \* a value of it

objVars == <<objType, obj>>

Num(bytes, signed) == [kind |-> "int", size |-> bytes, signed |-> signed, mem |-> bytes]
Bool == [kind |-> "bool", mem |-> 1]
Str == [kind |-> "string", mem |-> 16]
SliceOf(t) == [kind |-> "slice", elem |-> t, mem |-> 24]
StructOf(fields, bytes) == [kind |-> "struct", fields |-> fields, mem |-> bytes]
Field(t, dash) == [type |-> t, dash |-> dash]

-----------------------------------------------------------------------------

\* encoder.uint16 and its like: the low byte first.
PutUint(x, bytes) == [i \in 1..bytes |-> (x \div 256 ^ (i - 1)) % 256]

GetUint(buf, bytes, signed) ==
    LET high == IF signed /\ buf[bytes] >= 128 THEN buf[bytes] - 256 ELSE buf[bytes]
    IN  FoldLeft(LAMBDA acc, i : acc + buf[i] * 256 ^ (i - 1), high * 256 ^ (bytes - 1),
                 [i \in 1..(bytes - 1) |-> i])

PutBool(x) == <<IF x THEN 1 ELSE 0>>

GetBool(buf) == buf[1] # 0

\* MUTANT: a string is sized without its length.
stringSizeBare(v) == Len(v)

stringSize(v) == Len(v) + 4

RECURSIVE dataSize(_, _), encoderValue(_, _), decoderValue(_, _), Zero(_)

\* reflect.Zero
Zero(t) ==
    CASE t.kind = "int" -> 0
      [] t.kind = "bool" -> FALSE
      [] t.kind \in {"string", "slice"} -> <<>>
      [] t.kind = "struct" -> [i \in DOMAIN t.fields |-> Zero(t.fields[i].type)]

\* The tag of a field counts only for a kind that is not supported.
dataSize(t, v) ==
    CASE t.kind = "int" -> t.size
      [] t.kind = "bool" -> 1
      [] t.kind = "string" -> stringSize(v)
      [] t.kind = "slice" -> Len(v) * t.elem.mem + 4
      [] t.kind = "struct" -> FoldLeft(LAMBDA n, i : n + dataSize(t.fields[i].type, v[i]), 0,
                                       [i \in DOMAIN t.fields |-> i])

ZeroBytes(n) == [i \in 1..n |-> 0]

\* What is written for a value; a field with the tag is skipped as zeros.
encoderValue(t, v) ==
    CASE t.kind = "int" -> PutUint(v, t.size)
      [] t.kind = "bool" -> PutBool(v)
      [] t.kind = "string" -> PutUint(Len(v), 4) \o v
      [] t.kind = "slice" -> PutUint(Len(v), 4) \o FlattenSeq([i \in DOMAIN v |-> encoderValue(t.elem, v[i])])
      [] t.kind = "struct" -> FlattenSeq([i \in DOMAIN t.fields |->
                                IF t.fields[i].dash THEN ZeroBytes(dataSize(t.fields[i].type, v[i]))
                                ELSE encoderValue(t.fields[i].type, v[i])])

BinaryWrite(t, v) ==
    LET size == dataSize(t, v)
        out == encoderValue(t, v)
    IN  IF Len(out) > size THEN Panic ELSE out \o ZeroBytes(size - Len(out))

(***************************************************************************)
(* The decoder: its state is what is left of the buffer and the value read *)
(* last, and nothing more is read after a panic.                           *)
(***************************************************************************)
After(d, n, v) == [d EXCEPT !.buf = SubSeq(@, n + 1, Len(@)), !.v = v]
Fail(d) == [d EXCEPT !.panic = TRUE]

ReadUint(d, bytes, signed) ==
    IF d.panic \/ Len(d.buf) < bytes THEN Fail(d) ELSE After(d, bytes, GetUint(d.buf, bytes, signed))

ReadBool(d) == IF d.panic \/ d.buf = <<>> THEN Fail(d) ELSE After(d, 1, GetBool(d.buf))

ReadBytes(d) ==
    LET l == ReadUint(d, 4, TRUE)
    IN  IF l.panic \/ l.v < 0 \/ Len(l.buf) < l.v THEN Fail(l) ELSE After(l, l.v, SubSeq(l.buf, 1, l.v))

\* Types one after the other; the values are collected.
ReadAll(d, types) ==
    FoldLeft(LAMBDA acc, t : LET r == decoderValue(acc.d, t)
                             IN  [d |-> r, vs |-> Append(acc.vs, r.v)],
             [d |-> d, vs |-> <<>>], types)

\* The decoder does not look at the tag of a field.  Every element of a slice
\* takes a byte, so it runs out of them when there are fewer.
decoderValue(d, t) ==
    CASE d.panic -> d
      [] ~d.panic /\ t.kind = "int" -> ReadUint(d, t.size, t.signed)
      [] ~d.panic /\ t.kind = "bool" -> ReadBool(d)
      [] ~d.panic /\ t.kind = "string" -> ReadBytes(d)
      [] ~d.panic /\ t.kind = "slice" ->
            LET l == ReadUint(d, 4, TRUE)
                all == ReadAll(l, [i \in 1..l.v |-> t.elem])
            IN  IF l.panic \/ l.v < 0 \/ l.v > Len(l.buf) THEN Fail(l) ELSE [all.d EXCEPT !.v = all.vs]
      [] OTHER -> LET all == ReadAll(d, [i \in DOMAIN t.fields |-> t.fields[i].type])
                  IN  [all.d EXCEPT !.v = all.vs]

\* Into a new object, as DecodeMessage does.
BinaryRead(data, t) ==
    LET d == decoderValue([buf |-> data, v |-> 0, panic |-> FALSE], t)
    IN  CASE data = <<>> -> Zero(t)
          [] data # <<>> /\ Len(data) < dataSize(t, Zero(t)) -> ErrOutOfData
          [] OTHER -> IF d.panic THEN Panic ELSE d.v

-----------------------------------------------------------------------------

(***************************************************************************)
(* The structs: fields of each kind, with values at the limits.            *)
(***************************************************************************)
InnerStruct == StructOf(<<Field(Num(1, FALSE), FALSE), Field(Str, FALSE)>>, 24)

Text(n) == [i \in 1..n |-> 65 + i]

ObjFields ==
    {<<Num(1, FALSE), v>> : v \in {0, 255}} \cup {<<Num(2, TRUE), v>> : v \in {-32768, -1, 32767}}
    \cup {<<Bool, TRUE>>}
    \cup {<<Str, Text(n)>> : n \in {0, 1, 3}}
    \cup {<<SliceOf(Num(2, TRUE)), v>> : v \in {<<>>, <<-1, 256>>}}
    \cup {<<SliceOf(Str), v>> : v \in {<<Text(1)>>, <<Text(13)>>, <<Text(1), Text(13)>>}}
    \cup {<<InnerStruct, <<7, Text(1)>>>>}
    \cup {<<SliceOf(InnerStruct), v>> : v \in {<<<<7, Text(1)>>, <<0, <<>>>>>>, <<<<7, Text(20)>>>>}}

ObjInit == objType = <<>> /\ obj = <<>>

AddObjField(c, dash) ==
    /\ Len(obj) < MaxObjFields
    /\ objType' = Append(objType, Field(c[1], dash))
    /\ obj' = Append(obj, c[2])

ObjNext == \E c \in ObjFields, dash \in BOOLEAN : AddObjField(c, dash)

-----------------------------------------------------------------------------

\* Fields whose tag is "-" are read back as they are written, as zeros: their
\* length is lost, so nothing is claimed of what lies behind one that has one.
Plain(f) == ~f.dash \/ f.type.kind \in {"int", "bool"}

Expect(i) == IF objType[i].dash THEN Zero(objType[i].type) ELSE obj[i]

\* A slice whose elements have a size of their own: dataSize takes that of
\* their headers in memory.
Loose(t) == t.kind = "slice" /\ t.elem.kind \notin {"int", "bool"}

\* An object that is written is read back, although its length is computed
\* apart from its encoding and the decoder has no type information but the
\* receiver's.  Unless it holds a slice of strings, slices or structs, it is
\* written, without a byte to spare, and when it is cut off anywhere but at
\* the start this is noticed.
BinaryRoundTrip ==
    LET t == StructOf(objType, 0)
        data == BinaryWrite(t, obj)
    IN  (\A i \in DOMAIN objType : Plain(objType[i])) =>
            /\ data # Panic => BinaryRead(data, t) = [i \in DOMAIN obj |-> Expect(i)]
            /\ (\A i \in DOMAIN objType : ~Loose(objType[i].type)) =>
                    /\ data = encoderValue(t, obj)
                    /\ \A n \in 1..(Len(data) - 1) :
                            BinaryRead(SubSeq(data, 1, n), t) \in {Panic, ErrOutOfData}

=============================================================================
