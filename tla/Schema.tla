------------------------------- MODULE Schema -------------------------------
(***************************************************************************)
(* The schema compiler of gosproto/meta, which sprotogen generates the     *)
(* messages of both the server and the client from: ParseFileList with     *)
(* tags that are given or counted up, and types that may be declared later *)
(* or in another file and are resolved in two passes.                      *)
(*                                                                         *)
(* The text is abstracted to what its tokens say: a file is a sequence of  *)
(* declarations of structs and enums, a field has a name, a tag (auto when *)
(* none is written), the name of a type and maybe that of a main index.    *)
(* Text that is not well formed is refused by Expect and is left out, and  *)
(* so are comments, file tags and lists.  TagBase is 0 until a generator   *)
(* sets it.                                                                *)
(***************************************************************************)
EXTENDS Integers, SequencesExt

CONSTANTS
    MaxObjects,     \* bound on declarations in all files
    MaxWeight       \* bound on fields; one of a declared type counts twice

VARIABLE files      \* what is written in the files

ObjectNames == {"A", "B"}
FieldNames == <<"x", "y", "z">>
BuiltIn == "int32"      \* stands for every name in fieldtypeByStr
NoIndex == "-"

(***************************************************************************)
(* Descriptors.  FieldByTag is kept as the set of its keys.  A type is     *)
(* what resolve finds: its sort, and the file and name of its descriptor.  *)
(***************************************************************************)
NoType == [ft |-> "None", of |-> <<0, BuiltIn>>]
BasicType == [ft |-> "Basic", of |-> <<0, BuiltIn>>]

newDescriptor(decl) == [kind |-> decl.kind, name |-> decl.name, fields |-> <<>>, FieldByTag |-> {}]

TagNumber(fd) == IF fd.AutoTag = -1 THEN fd.Tag ELSE fd.AutoTag

MaxTag(d) == Max({0} \cup {TagNumber(d.fields[i]) : i \in DOMAIN d.fields})

HasField(d, name) == \E i \in DOMAIN d.fields : d.fields[i].name = name

\* AutoTag is -1 when a tag is written.
newFieldDescriptor(decl) == [name |-> decl.name, Tag |-> 0, AutoTag |-> -1]

Tagged(d, decl) ==
    LET fd == newFieldDescriptor(decl)
    IN  IF decl.auto
        THEN [fd EXCEPT !.AutoTag = IF d.fields = <<>> THEN 0 ELSE MaxTag(d) + 1]
        ELSE [fd EXCEPT !.Tag = decl.tag]

\* MUTANT: tags are not compared.
checkFieldName(d, fd) == ~HasField(d, fd.name)

checkField(d, fd) == ~HasField(d, fd.name) /\ TagNumber(fd) \notin d.FieldByTag

\* The key is Tag, which is 0 in every field whose tag was counted up.
addField(d, fd) == [d EXCEPT !.fields = Append(@, fd), !.FieldByTag = @ \cup {fd.Tag}]

NameExists(file, name) == \E i \in DOMAIN file : file[i].name = name

ObjectOf(file, name) == file[CHOOSE i \in DOMAIN file : file[i].name = name]

\* The first file that has the name.
FileSetType(parsed, name) ==
    LET having == {i \in DOMAIN parsed : NameExists(parsed[i], name)}
    IN  IF having = {} THEN NoType
        ELSE [ft |-> ObjectOf(parsed[Min(having)], name).kind, of |-> <<Min(having), name>>]

parseType(parsed, name) == IF name = BuiltIn THEN BasicType ELSE FileSetType(parsed, name)

(***************************************************************************)
(* resolve: whether it has to be tried again, or is an error in the second *)
(* pass.  A basic type has no descriptor to look for an index in; the nil  *)
(* pointer ends the generator.                                             *)
(***************************************************************************)
IndexMissing(parsed, t, index) ==
    index # NoIndex /\ (t.ft = "Basic" \/ ~HasField(ObjectOf(parsed[t.of[1]], t.of[2]), index))

resolve(parsed, lazy) ==
    LET t == parseType(parsed, lazy.type)
    IN  [type |-> t, again |-> t.ft = "None" \/ IndexMissing(parsed, t, lazy.index),
         crash |-> t.ft = "Basic" /\ lazy.index # NoIndex]

parseEnumField(b, decl) ==
    LET fd == Tagged(b.d, decl) @@ [type |-> BasicType]
    IN  [b EXCEPT !.d = addField(@, fd), !.err = @ \/ ~checkField(b.d, fd)]

\* b is the descriptor under construction; lazy names its field to be.
parseStructField(parsed, b, decl) ==
    LET lazy == [type |-> decl.type, index |-> decl.index,
                 at |-> <<Len(parsed), Len(Last(parsed)) + 1, Len(b.d.fields) + 1>>]
        r == resolve(parsed, lazy)
        fd == Tagged(b.d, decl) @@ [type |-> r.type]
    IN  [d |-> addField(b.d, fd),
         unknown |-> IF r.again THEN Append(b.unknown, lazy) ELSE b.unknown,
         err |-> b.err \/ r.crash \/ ~checkField(b.d, fd)]

\* The object is added when all of it is parsed, and if its name is new.
addObject(p, b) ==
    [files |-> [p.files EXCEPT ![Len(p.files)] = Append(@, b.d)],
     unknown |-> b.unknown,
     err |-> p.err \/ b.err \/ NameExists(Last(p.files), b.d.name)]

Begun(p, decl) == [d |-> newDescriptor(decl), unknown |-> p.unknown, err |-> FALSE]

parseStruct(p, decl) ==
    addObject(p, FoldLeft(LAMBDA b, f : parseStructField(p.files, b, f), Begun(p, decl), decl.fields))

parseEnum(p, decl) == addObject(p, FoldLeft(parseEnumField, Begun(p, decl), decl.fields))

parseObject(p, decl) == IF decl.kind = "Enum" THEN parseEnum(p, decl) ELSE parseStruct(p, decl)

rawParse(p, file) == FoldLeft(parseObject, [p EXCEPT !.files = Append(@, <<>>)], file)

resolveAll(p) ==
    FoldLeft(LAMBDA x, lazy :
                LET r == resolve(x.files, lazy)
                IN  [x EXCEPT !.files[lazy.at[1]][lazy.at[2]].fields[lazy.at[3]].type = r.type,
                              !.err = @ \/ r.again],
             p, p.unknown)

\* An error ends the parser where it occurs; here it is noted, and what
\* follows it does not count.
ParseFileList(list) ==
    LET p == FoldLeft(rawParse, [files |-> <<>>, unknown |-> <<>>, err |-> FALSE], list)
    IN  IF p.err THEN p ELSE resolveAll(p)

-----------------------------------------------------------------------------

(***************************************************************************)
(* The texts: a declaration or a field is added to the last file, and a    *)
(* second file begun.                                                      *)
(***************************************************************************)
SchemaInit == files = <<<<>>>>

Weight(f) == IF f.type = BuiltIn THEN 1 ELSE 2

TotalWeight ==
    FoldLeft(LAMBDA n, decl : FoldLeft(LAMBDA k, f : k + Weight(f), n, decl.fields),
             0, FlattenSeq(files))

AddObject(kind, name) ==
    /\ Len(FlattenSeq(files)) < MaxObjects
    /\ files' = [files EXCEPT ![Len(files)] = Append(@, [kind |-> kind, name |-> name, fields |-> <<>>])]

FieldChoices(decl) ==
    [name : {FieldNames[1], FieldNames[Len(decl.fields) + 1]}, auto : {TRUE}, tag : {0},
     type : {BuiltIn} \cup ObjectNames, index : {NoIndex, "x"}]
    \cup
    [name : {FieldNames[1], FieldNames[Len(decl.fields) + 1]}, auto : {FALSE}, tag : 0..1,
     type : {BuiltIn} \cup ObjectNames, index : {NoIndex}]

AddFieldTo(f) ==
    /\ Weight(f) + TotalWeight <= MaxWeight
    /\ files' = [files EXCEPT ![Len(files)][Len(Last(files))].fields = Append(@, f)]

NewFile == Len(files) < 2 /\ Last(files) # <<>> /\ files' = Append(files, <<>>)

SchemaNext ==
    \/ \E kind \in {"Struct", "Enum"}, name \in ObjectNames : AddObject(kind, name)
    \/ /\ Last(files) # <<>>
       /\ Len(Last(Last(files)).fields) < Len(FieldNames)
       /\ \E f \in FieldChoices(Last(Last(files))) :
             (Last(Last(files)).kind = "Enum" => f.type = BuiltIn /\ f.index = NoIndex) /\ AddFieldTo(f)
    \/ NewFile

-----------------------------------------------------------------------------

\* The tag of the k-th field, by the text alone.
Counted(decl) ==
    LET T[k \in 1..Len(decl.fields)] ==
            CASE ~decl.fields[k].auto -> decl.fields[k].tag
              [] decl.fields[k].auto /\ k = 1 -> 0
              [] OTHER -> 1 + Max({T[j] : j \in 1..(k - 1)})
    IN  T

Pairs(n) == {ij \in (1..n) \X (1..n) : ij[1] < ij[2]}

\* What a file set may be refused for.  A tag of 0 behind a counted one is
\* refused although it may be free, and one that equals a counted tag is let
\* through: addField keeps the counted ones under 0.
Wrong(decl) ==
    \E ij \in Pairs(Len(decl.fields)) :
        LET a == decl.fields[ij[1]]  b == decl.fields[ij[2]]  T == Counted(decl)
        IN  a.name = b.name \/ (~b.auto /\ IF a.auto THEN b.tag = 0 ELSE T[ij[1]] = T[ij[2]])

Refused(list) ==
    \E i \in DOMAIN list :
        \/ \E kl \in Pairs(Len(list[i])) : list[i][kl[1]].name = list[i][kl[2]].name
        \/ \E k \in DOMAIN list[i] :
            \/ Wrong(list[i][k])
            \/ \E n \in DOMAIN list[i][k].fields :
                LET f == list[i][k].fields[n]
                    t == parseType(list, f.type)
                IN  t.ft = "None" \/ IndexMissing(list, t, f.index)

\* Whatever the order of declarations, and over however many files: a schema
\* is refused for a reason, and in one that is accepted every object has its
\* fields with the tags that the text gives them, and every field the type
\* that its name means once all files are known, whichever pass found it.
SchemaAsDeclared ==
    LET p == ParseFileList(files)
    IN  /\ p.err <=> Refused(files)
        /\ ~p.err => \A i \in DOMAIN files, k \in 1..MaxObjects : k \in DOMAIN files[i] =>
                LET d == p.files[i][k]  decl == files[i][k]
                IN  /\ <<d.kind, d.name, Len(d.fields)>> = <<decl.kind, decl.name, Len(decl.fields)>>
                    /\ \A n \in DOMAIN d.fields :
                        /\ d.fields[n].name = decl.fields[n].name
                        /\ TagNumber(d.fields[n]) = Counted(decl)[n]
                        /\ d.fields[n].type = parseType(files, decl.fields[n].type)

=============================================================================
