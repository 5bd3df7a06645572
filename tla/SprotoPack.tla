----------------------------- MODULE SprotoPack -----------------------------
(***************************************************************************)
(* Zero packing, in Go (gosproto/pack.go) and in C# (SprotoPack.cs).  The  *)
(* input is taken in segments of 8 bytes.  A segment becomes a header, one *)
(* bit per byte that is not zero, and these bytes; but a run of segments   *)
(* that have (nearly) no zeros becomes 0xff, the number of segments less   *)
(* one, and the segments as they are.  The packers find out that a run is  *)
(* over when they are past it, and then go back and write it over what the *)
(* segments left in the buffer.                                            *)
(*                                                                         *)
(* A state is an input; SprotoCodec extends this module.  Offsets count    *)
(* from 0 as in the code.                                                  *)
(***************************************************************************)
EXTENDS Integers, SequencesExt

CONSTANTS
    Error,          \* an error is returned, or an exception thrown
    MaxRun,         \* segments in a run (256 in the code)
    MaxSegments     \* bound on the segments of an input

ASSUME PackAssumption == MaxRun \in 2..256 /\ MaxSegments \in Nat

Least(a, b) == Min({a, b})
From(s, off) == SubSeq(s, off + 1, Len(s))
Zeros(n) == [i \in 1..n |-> 0]
AlignUp(n) == 8 * ((n + 7) \div 8)
NonZero(s) == SelectSeq(s, LAMBDA b : b # 0)
Mask(s) == FoldLeftDomain(LAMBDA sum, i : sum + (IF s[i] # 0 THEN 2^(i - 1) ELSE 0), 0, s)

\* The buffer with s written over it at an offset.
Overwrite(buf, off, s) ==
    [j \in 1..Max({Len(buf), off + Len(s)}) |->
        CASE j > off /\ j <= off + Len(s) -> s[j - off]
          [] j <= Len(buf) -> buf[j]
          [] OTHER -> 0]

\* What both packers keep: the buffer, the offset of the next segment in it,
\* and the run under way: its segments so far (ffN), where it begins in the
\* input (ffS) and in the buffer (ffP).
Start == [buf |-> <<>>, offset |-> 0, ffN |-> 0, ffS |-> 0, ffP |-> 0, err |-> FALSE]

-----------------------------------------------------------------------------

(***************************************************************************)
(* Go.                                                                     *)
(***************************************************************************)

\* MUTANT: a segment with five bytes that are not zero goes on with a run.
packSegmentFive(nz, ffN) ==
    CASE ffN > 0 /\ nz >= 5 -> 8
      [] nz = 8 -> 10
      [] OTHER -> nz + 1

\* The bytes a segment takes in the buffer.
packSegment(nz, ffN) ==
    CASE ffN > 0 /\ nz >= 6 -> 8
      [] nz = 8 -> 10
      [] OTHER -> nz + 1

\* MUTANT: the segments are taken from the byte behind the first.
writeFFShifted(buf, off, src, n) ==
    LET m == Least(n, Len(src))
    IN  Overwrite(buf, off, <<255, (AlignUp(n) \div 8 - 1) % 256>>
                               \o SubSeq(src, 2, m) \o Zeros(AlignUp(n) - m + 1))

writeFF(buf, off, src, n) ==
    LET m == Least(n, Len(src))
    IN  Overwrite(buf, off, <<255, (AlignUp(n) \div 8 - 1) % 256>>
                               \o SubSeq(src, 1, m) \o Zeros(AlignUp(n) - m))

\* One turn of the loop of Pack, for the segment at offset i of src.
PackTurn(src, st, i) ==
    LET seg == SubSeq(src, i + 1, Least(i + 8, Len(src)))
        nz == NonZero(seg)
        used == packSegment(Len(nz), st.ffN)
        inRun == used = 8 /\ st.ffN > 0
        buf == IF used = 10 \/ inRun THEN Overwrite(st.buf, st.offset + 1, nz)
                                     ELSE Overwrite(st.buf, st.offset, <<Mask(seg)>> \o nz)
        flush == st.ffN > 0 /\ IF inRun THEN st.ffN + 1 = MaxRun ELSE used # 10
        n == IF inRun THEN st.ffN + 1 ELSE st.ffN
    IN  [st EXCEPT !.buf = IF flush THEN writeFF(buf, st.ffP, From(src, st.ffS), 8 * n) ELSE buf,
                   !.offset = @ + used,
                   !.ffN = CASE used = 10 -> 1 [] flush -> 0 [] OTHER -> n,
                   !.ffS = IF used = 10 THEN i ELSE @,
                   !.ffP = IF used = 10 THEN st.offset ELSE @]

Turns(src) == [k \in 1..(AlignUp(Len(src)) \div 8) |-> 8 * (k - 1)]

Pack(src) ==
    LET st == FoldLeft(LAMBDA a, i : PackTurn(src, a, i), Start, Turns(src))
        run == From(src, st.ffS)
    IN  SubSeq(IF st.ffN > 0 THEN writeFF(st.buf, st.ffP, run, Len(run)) ELSE st.buf,
               1, st.offset)

ErrUnpack == Error

RECURSIVE Unpack(_)
\* Unpack one segment or run, and the rest.
Unpack(src) ==
    IF src = <<>> THEN <<>>
    ELSE LET raw == Head(src) = 255
             bits == {i \in 0..7 : (Head(src) \div 2^i) % 2 = 1}
             upTo(i) == Cardinality({b \in bits : b <= i})
             used == IF raw THEN 2 + (IF Len(src) < 2 THEN 0 ELSE 8 * (src[2] + 1))
                            ELSE 1 + Cardinality(bits)
         IN  IF Len(src) < used THEN ErrUnpack
             ELSE LET rest == Unpack(From(src, used))
                      seg == IF raw THEN SubSeq(src, 3, used)
                             ELSE [i \in 1..8 |-> IF i - 1 \in bits
                                                  THEN src[1 + upTo(i - 1)] ELSE 0]
                  IN  IF rest = Error THEN Error ELSE seg \o rest

-----------------------------------------------------------------------------

(***************************************************************************)
(* C#.                                                                     *)
(***************************************************************************)

\* buffer.Write throws when the source has fewer than n bytes from its
\* offset on.
write_ff(st, buf, src, n) ==
    IF Len(src) < n
    THEN [st EXCEPT !.err = TRUE]
    ELSE [st EXCEPT !.buf = Overwrite(buf, st.ffP, <<255, (AlignUp(n) \div 8 - 1) % 256>>
                                      \o SubSeq(src, 1, n) \o Zeros(AlignUp(n) - n))]

\* A segment with six or seven counts as full within a run.
pack_seg(nz, ff_n) ==
    LET notzero == IF nz \in 6..7 /\ ff_n > 0 THEN 8 ELSE nz
    IN  IF notzero = 8 THEN IF ff_n > 0 THEN 8 ELSE 10 ELSE notzero + 1

\* One turn of the loop of pack; the last segment is padded with zeros.
pack_turn(data, st, i) ==
    LET seg == SubSeq(data \o Zeros(7), i + 1, i + 8)
        nz == NonZero(seg)
        n == pack_seg(Len(nz), st.ffN)
        inRun == n = 8 /\ st.ffN > 0
        full == inRun /\ st.ffN + 1 = MaxRun
        ends == ~inRun /\ n # 10 /\ st.ffN > 0
        buf == IF n = 10 \/ inRun THEN Overwrite(st.buf, st.offset + 1, nz)
                                  ELSE Overwrite(st.buf, st.offset, <<Mask(seg)>> \o nz)
        moved == IF full \/ ends
                 THEN write_ff(st, buf, From(data, st.ffS), 8 * (IF full THEN MaxRun ELSE st.ffN))
                 ELSE [st EXCEPT !.buf = buf]
    IN  IF st.err THEN st
        ELSE [moved EXCEPT !.offset = @ + n,
                           !.ffN = CASE n = 10 -> 1 [] full \/ ends -> 0
                                     [] inRun -> @ + 1 [] OTHER -> @,
                           !.ffS = IF n = 10 THEN i ELSE @,
                           !.ffP = IF n = 10 THEN st.offset ELSE @]

\* A SprotoPack keeps its buffer, and what it held, from call to call.
Stale == [i \in 1..(8 * MaxSegments + 2) |-> 12]

pack(data) ==
    LET st == FoldLeft(LAMBDA a, i : pack_turn(data, a, i),
                       [Start EXCEPT !.buf = Stale], Turns(data))
        run == From(data, st.ffS)
        end == CASE st.err \/ st.ffN = 0 -> st
                 [] st.ffN = 1 -> write_ff(st, st.buf, run, 8)
                 [] OTHER -> write_ff(st, st.buf, run, Len(run))
        maxsz == ((Len(data) + 8 * MaxRun - 1) \div (8 * MaxRun)) * 2 + Len(data) + 2
    IN  IF end.err \/ maxsz < end.offset THEN Error ELSE SubSeq(end.buf, 1, end.offset)

RECURSIVE unpack(_, _)
\* srcsz bytes of data are left.  Its tests for srcsz < 0 come to nothing:
\* what stops it at the end of the data is the bound of the array.
unpack(data, srcsz) ==
    IF srcsz = 0 THEN <<>>
    ELSE LET at == Len(data) - srcsz
             header == data[at + 1]
             bits == {i \in 0..7 : (header \div 2^i) % 2 = 1}
             before(i) == Cardinality({b \in bits : b < i})
             more == IF header = 255 THEN (IF srcsz < 2 THEN 1 ELSE 1 + 8 * (data[at + 2] + 1))
                                     ELSE Cardinality(bits)
         IN  IF srcsz - 1 < more THEN Error
             ELSE LET rest == unpack(data, srcsz - 1 - more)
                      seg == IF header = 255 THEN SubSeq(data, at + 3, at + 1 + more)
                             ELSE [i \in 1..8 |-> IF i - 1 \in bits
                                                  THEN data[at + 2 + before(i - 1)] ELSE 0]
                  IN  IF rest = Error THEN Error ELSE seg \o rest

-----------------------------------------------------------------------------

VARIABLE src        \* the input

\* Where a segment has bytes that are not zero: the counts around which the
\* packers change their mind, with zeros at either end.
Patterns == {{}, {8}, 1..5, 1..6, 3..8, 2..8, 1..8}

\* The values differ, so that bytes out of place are noticed.
Fill(n, pattern) == [i \in 1..n |-> IF i \in pattern THEN 1 + ((Len(src) + i) % 11) ELSE 0]

Feed ==
    /\ Len(src) % 8 = 0
    /\ Len(src) < 8 * MaxSegments
    /\ \E n \in {1, 3, 6, 7, 8}, pattern \in Patterns :
          src' = src \o Fill(n, pattern)

Padded(s) == s \o Zeros(AlignUp(Len(s)) - Len(s))

\* The one input SprotoPack.cs cannot pack: its last segment is short and is
\* the last that fits in a run.  (In pack.go, line 32 takes care of it.)
ShortEndsRun == pack(src) = Error

\* What either side packs, the other unpacks: the input comes back, with
\* zeros up to a whole segment, wherever runs begin, end or reach the limit.
\* Packed data that is cut off is an error or gives a prefix of the input, at
\* both sides alike: never other bytes, and no read past the end.
PackRoundTrip ==
    src # <<>> =>
        LET p == Pack(src)
        IN  /\ Unpack(p) = Padded(src)
            /\ \A n \in 0..Len(p) :
                LET cut == SubSeq(p, 1, n)
                IN  /\ unpack(cut, n) = Unpack(cut)
                    /\ Unpack(cut) = Error \/ IsPrefix(Unpack(cut), Padded(src))

\* Both sides pack alike, whatever the buffer of SprotoPack.cs held before:
\* none of that is sent.  pack of C# throws only for an input
\* whose last segment is short and would fill a run; its test of maxsz never
\* fails.
PackersAgree ==
    src # <<>> => IF ShortEndsRun
                  THEN Len(src) % 8 # 0 /\ Len(src) >= 8 * MaxRun - 2
                  ELSE pack(src) = Pack(src)

=============================================================================
