---------------------------- MODULE SafeTensors ----------------------------
(***************************************************************************)
(* The weight loader: SafeTensors::parse() of src/model/safetensors.cpp    *)
(* and the conversions of dtype.hpp.  A file is an 8-byte length, a JSON   *)
(* header that names tensors with their dtype, shape and span of the data  *)
(* region, and the region.                                                 *)
(*                                                                         *)
(* A file is represented by its sizes, whether its header is JSON of the   *)
(* right form, its entries in the order the header is walked in (names are *)
(* keys there, so they differ), and the 16-bit word its region consists of,*)
(* by the fields it has as a half.  Machine integers have Word values; a   *)
(* half has 5 bits of exponent and MantBits (10) of mantissa, a bfloat16 3 *)
(* more and 3 less, and a float Widening (13) bits of mantissa more.       *)
(***************************************************************************)
EXTENDS Integers, Sequences, Functions

CONSTANTS Files,    \* [size, header_len, parses, entries, word]; an entry is a record
                    \* [dtype, shape, begin, end]
          Word,     \* 2^64
          MantBits, Widening

\* Bytes of the length in front of the header.
Prefix == 8

WordAssumption == Word \in Nat \ {0}
\* Few enough bits for every subnormal half to be a normal float, and enough for the
\* exponent of a bfloat16.
HalfAssumption == MantBits \in 3..111 /\ Widening \in Nat
FilesAssumption == \A f \in Files :
    /\ {f.size, f.header_len} \subseteq 0..(Word - 1)
    /\ f.entries \in Seq([dtype : {"F32", "F16", "BF16"}, shape : Seq(Int),
                          begin : 0..(Word - 1), end : 0..(Word - 1)])
    /\ f.word \in [sign : {0, 1}, exp : 0..31, mant : 0..(2^MantBits - 1)]

VARIABLES file,
          spans,    \* [begin, end] of the entries accepted
          tensors,  \* [shape, numel, value] of each: its elements all have one value
          at,       \* entry the loop is at
          pc        \* "header", "entry", "overlap", "loaded" or "thrown"

vars == <<file, spans, tensors, at, pc>>

-----------------------------------------------------------------------------
(* Shapes and dtypes *)

Product(shape) == FoldFunction(LAMBDA d, n : d * n, 1, shape)

\* num_elements(): the product wraps, and no dimension is no element.
NumElements(shape) == IF shape = <<>> THEN 0 ELSE Product(shape) % Word

ElemSize(dtype) == IF dtype = "F32" THEN 4 ELSE 2

\* Mutant of SubnormalExp: the shift loop counts from 0.
SubnormalExpFromZero(shift) == 0 - shift

\* The exponent left by the loop that shifts a subnormal until its hidden bit is set.
SubnormalExp(shift) == 1 - shift

\* f16_to_f32() by fields: zero, subnormal, infinity and NaN, normal.
Widen(h) ==
    LET shift == CHOOSE n \in 1..MantBits : h.mant * 2^n \in 2^MantBits..(2^(MantBits + 1) - 1)
    IN IF h.exp = 0 /\ h.mant = 0 THEN [sign |-> h.sign, exp |-> 0, mant |-> 0]
       ELSE IF h.exp = 0
       THEN [sign |-> h.sign, exp |-> SubnormalExp(shift) + (127 - 15),
             mant |-> ((h.mant * 2^shift) % 2^MantBits) * 2^Widening]
       ELSE [sign |-> h.sign, exp |-> IF h.exp = 31 THEN 255 ELSE h.exp + (127 - 15),
             mant |-> h.mant * 2^Widening]

\* bf16_to_f32(): the word becomes the high half of the float's.
WidenBrain(h) == [sign |-> h.sign, exp |-> h.exp * 8 + h.mant \div 2^(MantBits - 3),
                  mant |-> (h.mant % 2^(MantBits - 3)) * 2^(Widening + 3)]

\* What an element is in memory; an F32 is copied as it is.
Stored(dtype, h) == IF dtype = "F16" THEN Widen(h)
                    ELSE IF dtype = "BF16" THEN WidenBrain(h) ELSE h

-----------------------------------------------------------------------------
(* parse() *)

Region == file.size - Prefix - file.header_len
Entry == file.entries[at]

Init == /\ file \in Files
        /\ spans = <<>> /\ tensors = <<>> /\ at = 1 /\ pc = "header"

Throw == pc' = "thrown" /\ UNCHANGED <<file, spans, tensors, at>>

HeaderFits == file.size >= Prefix /\ file.header_len <= file.size - Prefix

ReadHeader == /\ pc = "header"
              /\ \/ HeaderFits /\ file.parses
                    /\ pc' = "entry" /\ UNCHANGED <<file, spans, tensors, at>>
                 \/ ~ (HeaderFits /\ file.parses) /\ Throw

\* What the loop asks of an entry.
EntryFits(e) ==
    LET nbytes == e.end - e.begin
    IN /\ e.end >= e.begin /\ e.end <= Region
       /\ \A i \in DOMAIN e.shape : e.shape[i] >= 0
       /\ nbytes % ElemSize(e.dtype) = 0
       /\ nbytes \div ElemSize(e.dtype) = NumElements(e.shape)

\* One turn of the loop over the header.
ReadEntry ==
    /\ pc = "entry" /\ at <= Len(file.entries)
    /\ \/ /\ EntryFits(Entry)
          /\ spans' = Append(spans, <<Entry.begin, Entry.end>>)
          /\ tensors' = Append(tensors,
                [shape |-> Entry.shape, numel |-> NumElements(Entry.shape),
                 value |-> Stored(Entry.dtype, file.word)])
          /\ at' = at + 1
          /\ UNCHANGED <<file, pc>>
       \/ ~ EntryFits(Entry) /\ Throw

EntriesDone == /\ pc = "entry" /\ at > Len(file.entries)
               /\ pc' = "overlap"
               /\ UNCHANGED <<file, spans, tensors, at>>

Before(a, b) == a[1] < b[1] \/ (a[1] = b[1] /\ a[2] < b[2])

\* Mutant of InOrder: the spans are compared in the order of the header.
InOrderUnsorted(s) == s

\* std::sort: the spans in some order in which none is before one in front of it.
InOrder(s) ==
    LET sorted == CHOOSE p \in Bijection(DOMAIN s, DOMAIN s) :
                      \A i, j \in DOMAIN s : i < j => ~ Before(s[p[j]], s[p[i]])
    IN [i \in DOMAIN s |-> s[sorted[i]]]

\* The spans are sorted and each compared with the one before it.
CheckOverlap ==
    /\ pc = "overlap"
    /\ \/ /\ \A i \in 2..Len(spans) : InOrder(spans)[i][1] >= InOrder(spans)[i - 1][2]
          /\ pc' = "loaded" /\ UNCHANGED <<file, spans, tensors, at>>
       \/ /\ \E i \in 2..Len(spans) : InOrder(spans)[i][1] < InOrder(spans)[i - 1][2]
          /\ Throw

Returned == pc \in {"loaded", "thrown"} /\ UNCHANGED vars

Next == ReadHeader \/ ReadEntry \/ EntriesDone \/ CheckOverlap \/ Returned

Spec == Init /\ [][Next]_vars

-----------------------------------------------------------------------------
(* Properties *)

Count(shape) == IF shape = <<>> THEN 0 ELSE Product(shape)

\* "The format requires sorted, non-overlapping data regions": spans lie in the region,
\* hold their shape's elements, and no two of any number of them meet.
Valid(f) ==
    LET Spans == DOMAIN f.entries
        e == f.entries
    IN /\ f.size >= Prefix + f.header_len /\ f.parses
       /\ \A i \in Spans : /\ 0 <= e[i].begin /\ e[i].begin <= e[i].end
                           /\ Prefix + f.header_len + e[i].end <= f.size
                           /\ \A d \in DOMAIN e[i].shape : e[i].shape[d] >= 0
                           /\ Count(e[i].shape) * ElemSize(e[i].dtype) = e[i].end - e[i].begin
       /\ \A i, j \in Spans : i # j => e[i].end <= e[j].begin \/ e[j].end <= e[i].begin

Representable(f) == \A i \in DOMAIN f.entries : Count(f.entries[i].shape) < Word

\* parse() accepts exactly the valid files, though it compares neighbours only; what
\* its integers cannot count is left out.
AcceptsExactly == Representable(file) =>
    /\ pc = "loaded" => Valid(file)
    /\ pc = "thrown" => ~ Valid(file)

\* A float has the value of the half it was read from, subnormals included: the same
\* mantissa with its hidden bit, once both are scaled to one exponent.
SameValue(h, f) ==
    LET significand(n, bits) == IF n.exp = 0 THEN n.mant ELSE 2^bits + n.mant
        scale == (IF h.exp = 0 THEN 1 ELSE h.exp) - 15 - MantBits
                 - ((IF f.exp = 0 THEN 1 ELSE f.exp) - 127 - MantBits - Widening)
    IN /\ h.sign = f.sign
       /\ h.exp = 31 => f.exp = 255 /\ f.mant = h.mant * 2^Widening
       /\ h.exp < 31 =>
            IF h.mant = 0 /\ h.exp = 0 THEN f.exp = 0 /\ f.mant = 0
            ELSE /\ scale >= 0
                 /\ significand(h, MantBits) * 2^scale = significand(f, MantBits + Widening)

\* A bfloat16 is a float without its low word: the float has no bit there, and above it
\* exponent and mantissa are, as one number, those of the 16-bit word.
SameUpperBits(h, f) ==
    /\ h.sign = f.sign /\ f.mant % 2^(Widening + 3) = 0
    /\ f.exp * 2^(MantBits - 3) + f.mant \div 2^(Widening + 3) = h.exp * 2^MantBits + h.mant

\* Each element is loaded with the value it has in the file, of either 16-bit format.
WidensExactly == \A i \in DOMAIN tensors :
    /\ file.entries[i].dtype = "F16" => SameValue(file.word, tensors[i].value)
    /\ file.entries[i].dtype = "BF16" => SameUpperBits(file.word, tensors[i].value)
=============================================================================
