---------------------------- MODULE SprotoTypes ----------------------------
(***************************************************************************)
(* The cache of types in gosproto/meta.go: GetSprotoType takes a Go struct *)
(* apart the first time it is encoded or decoded, together with the        *)
(* structs its fields point to, and keeps what it has built in stMap.      *)
(* Types refer to each other, also in circles, so a type is in stMap       *)
(* before its fields are known.                                            *)
(*                                                                         *)
(* A field is told apart by what getSprotoTypeLocked makes of it:          *)
(*   tag   the number in its sproto tag, or -1 when it has none            *)
(*   ok    parse and setEncAndDec, with assertWire, find the tag and the   *)
(*         kind of the field in order                                      *)
(*   of    the struct it points to, or NoStruct                            *)
(* The mutex makes a call of GetSprotoType one step.                       *)
(***************************************************************************)
EXTENDS Integers, SequencesExt

CONSTANT MaxCached      \* bound on the types that are built

VARIABLES
    structs,    \* the Go structs: a sequence of fields for each name
    heap,       \* the SprotoTypes that were made: name, fields and whether finished
    stMap       \* the SprotoType of a name, or 0

typesVars == <<structs, heap, stMap>>

StructNames == {"P", "Q"}
NoStruct == "none"

Fields == [tag : {-1, 1, 2}, ok : {TRUE}, of : {NoStruct} \cup StructNames]
            \cup [tag : {1}, ok : {FALSE}, of : {NoStruct}]

TypesInit ==
    /\ structs \in [StructNames -> UNION {[1..n -> Fields] : n \in 0..2}]
    /\ heap = <<>>
    /\ stMap = [s \in StructNames |-> 0]

-----------------------------------------------------------------------------

RECURSIVE getSprotoTypeLocked(_, _), addFields(_, _, _)

(***************************************************************************)
(* c is the cache with the outcome of the last call: err, or the index ret *)
(* of a SprotoType in heap.                                                *)
(***************************************************************************)
\* A kind that has no coders, or another wire type, is an error.
setEncAndDec(c, f) ==
    CASE ~f.ok -> [c EXCEPT !.err = TRUE]
      [] f.ok /\ f.of = NoStruct -> [c EXCEPT !.err = FALSE, !.ret = 0]
      [] OTHER -> getSprotoTypeLocked(c, f.of)

\* A field without a tag is not looked at any further.
initField(c, f) ==
    IF f.tag < 0 THEN [c EXCEPT !.err = FALSE, !.ret = 0] ELSE setEncAndDec(c, f)

Repeats(st, f) == f.tag >= 0 /\ \E i \in DOMAIN st.fields : st.fields[i].tag = f.tag

\* MUTANT: a type that could not be built stays in the cache.
forgetNothing(c, s) == c

forget(c, s) == [c EXCEPT !.stMap[s] = 0]

\* st is the index of the SprotoType under construction, rest what is left.
addFields(c, st, rest) ==
    IF rest = <<>>
    THEN [c EXCEPT !.heap[st].done = TRUE, !.err = FALSE, !.ret = st]
    ELSE LET r == initField(c, Head(rest))
         IN  CASE r.err -> forget(r, r.heap[st].name)
               [] ~r.err /\ Repeats(r.heap[st], Head(rest)) -> [r EXCEPT !.err = TRUE]
               [] OTHER -> addFields([r EXCEPT !.heap[st].fields =
                                        Append(@, [tag |-> Head(rest).tag, st |-> r.ret])],
                                     st, Tail(rest))

getSprotoTypeLocked(c, s) ==
    IF c.stMap[s] # 0
    THEN [c EXCEPT !.err = FALSE, !.ret = c.stMap[s]]
    ELSE addFields([c EXCEPT !.heap = Append(@, [name |-> s, fields |-> <<>>, done |-> FALSE]),
                             !.stMap[s] = Len(c.heap) + 1],
                   Len(c.heap) + 1, structs[s])

GetSprotoType(s) == getSprotoTypeLocked([heap |-> heap, stMap |-> stMap, err |-> FALSE, ret |-> 0], s)

TypesNext ==
    /\ Len(heap) < MaxCached
    /\ \E s \in StructNames :
        LET c == GetSprotoType(s)
        IN  heap' = c.heap /\ stMap' = c.stMap /\ UNCHANGED structs

-----------------------------------------------------------------------------

\* The structs that the fields of s lead to, s included.
Leads(s) == {structs[s][i].of : i \in {j \in DOMAIN structs[s] : structs[s][j].tag >= 0}} \ {NoStruct}
Reach(s) == {s} \cup Leads(s) \cup UNION {Leads(t) : t \in Leads(s)}

BadField(s) == \E i \in DOMAIN structs[s] : structs[s][i].tag >= 0 /\ ~structs[s][i].ok
TagTwice(s) == \E i, j \in DOMAIN structs[s] : i # j /\ structs[s][i].tag = structs[s][j].tag
                                                   /\ structs[s][i].tag >= 0
Circular(s) == \E t \in Reach(s) : t \in UNION {Leads(u) : u \in Reach(t)}

\* A SprotoType is whole when it and those its fields point to are finished.
PointsTo(h, i) == {h[i].fields[k].st : k \in DOMAIN h[i].fields} \ {0}
Whole(h, i) ==
    \A j \in {i} \cup PointsTo(h, i) \cup UNION {PointsTo(h, k) : k \in PointsTo(h, i)} : h[j].done

\* Whatever types were asked for before, and failed: a struct that leads to
\* sound ones only gets a type in which nothing is missing, and one that leads
\* to a field with a wrong tag is refused each time.  (After "tag repeated" the
\* entry stays in stMap, and a type that is removed may be in use by one that
\* it is in a circle with; what comes of these is not claimed.)
TypesAsDeclared ==
    \A s \in StructNames :
        LET c == GetSprotoType(s)
        IN  /\ (\A t \in Reach(s) : ~BadField(t) /\ ~TagTwice(t)) => ~c.err /\ Whole(c.heap, c.ret)
            /\ /\ \E t \in Reach(s) : BadField(t)
               /\ \A t \in Reach(s) : ~TagTwice(t)
               /\ ~Circular(s)
               => c.err

=============================================================================
