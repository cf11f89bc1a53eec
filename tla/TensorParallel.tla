--------------------------- MODULE TensorParallel ---------------------------
(***************************************************************************)
(* A linear layer split over shards with the primitives of                 *)
(* src/engine/tensor_parallel.cpp, in the two ways the header describes:   *)
(* column-parallel (split_rows of the weight, concat_columns) and          *)
(* row-parallel (split_columns of weight and input, sum).                  *)
(*                                                                         *)
(* A tensor keeps the code's row-major buffer, so every memcpy is the      *)
(* index arithmetic it does.  Elements are integers: all five operators    *)
(* are additive in each tensor, so what agrees on unit matrices (one 1,    *)
(* the rest 0) agrees on every matrix of the shape.                        *)
(***************************************************************************)
EXTENDS Integers, Sequences, Functions, FiniteSetsExt, SequencesExt

CONSTANTS Rows, In, Out,   \* sets of dimensions: x is rows x in, w is out x in
          ShardCounts

TensorParallelAssumption ==
    Rows \cup In \cup Out \cup ShardCounts \subseteq Nat \ {0}

VARIABLES x, w, shards, mode,
          weights, inputs,   \* shards of w and x
          partials,          \* outputs of the shards run so far
          out, pc

vars == <<x, w, shards, mode, weights, inputs, partials, out, pc>>
problem == <<x, w, shards, mode>>

Tensor(rows, cols, Data(_)) ==
    [rows |-> rows, cols |-> cols, data |-> [i \in 0..(rows * cols - 1) |-> Data(i)]]
Unit(rows, cols, n) == Tensor(rows, cols, LAMBDA i : IF i = n THEN 1 ELSE 0)
NoTensor == Tensor(0, 0, LAMBDA i : 0)

-----------------------------------------------------------------------------
(* The primitives *)

linear(a, b) ==
    Tensor(a.rows, b.rows, LAMBDA i :
        SumFunction([k \in 0..(a.cols - 1) |->
            a.data[(i \div b.rows) * a.cols + k] * b.data[(i % b.rows) * a.cols + k]]))

split_rows(m, n) ==
    LET per == m.rows \div n
    IN [s \in 1..n |-> Tensor(per, m.cols, LAMBDA i : m.data[(s - 1) * per * m.cols + i])]

split_columns(m, n) ==
    LET per == m.cols \div n
    IN [s \in 1..n |-> Tensor(m.rows, per, LAMBDA i :
            m.data[(i \div per) * m.cols + (s - 1) * per + (i % per)])]

\* Column of the result at which part p starts.
Offset(parts, p) == SumFunctionOnSet([q \in DOMAIN parts |-> parts[q].cols], 1..(p - 1))

concat_columns(parts) ==
    LET total == Offset(parts, Len(parts) + 1)
        PartOf(c) == Max({p \in DOMAIN parts : Offset(parts, p) <= c})
    IN Tensor(parts[1].rows, total, LAMBDA i :
          LET p == PartOf(i % total)
          IN parts[p].data[(i \div total) * parts[p].cols + (i % total) - Offset(parts, p)])

\* Mutant of sum: the loop starts at part 1 of a zeroed output, losing part 0.
sum_losing_first(parts) ==
    Tensor(parts[1].rows, parts[1].cols,
           LAMBDA i : SumFunctionOnSet([p \in DOMAIN parts |-> parts[p].data[i]], 2..Len(parts)))

sum(parts) ==
    Tensor(parts[1].rows, parts[1].cols,
           LAMBDA i : SumFunction([p \in DOMAIN parts |-> parts[p].data[i]]))

-----------------------------------------------------------------------------
(* The two ways to run a linear *)

Init == /\ \E r \in Rows, i \in In, o \in Out :
              /\ x \in {Unit(r, i, n) : n \in 0..(r * i - 1)}
              /\ w \in {Unit(o, i, n) : n \in 0..(o * i - 1)}
        /\ shards \in ShardCounts /\ mode \in {"column", "row"}
        /\ weights = <<>> /\ inputs = <<>> /\ partials = <<>> /\ out = NoTensor /\ pc = "split"

Divides == (IF mode = "column" THEN w.rows ELSE w.cols) % shards = 0

Throw == /\ pc = "split" /\ ~Divides
         /\ pc' = "thrown"
         /\ UNCHANGED <<problem, weights, inputs, partials, out>>

SplitColumnParallel ==
    /\ pc = "split" /\ Divides /\ mode = "column"
    /\ weights' = split_rows(w, shards)
    /\ inputs' = [s \in 1..shards |-> x]
    /\ pc' = "run"
    /\ UNCHANGED <<problem, partials, out>>

SplitRowParallel ==
    /\ pc = "split" /\ Divides /\ mode = "row"
    /\ weights' = split_columns(w, shards)
    /\ inputs' = split_columns(x, shards)
    /\ pc' = "run"
    /\ UNCHANGED <<problem, partials, out>>

\* The shards run one after the other.
RunShard ==
    LET s == Len(partials) + 1
    IN /\ pc = "run" /\ s <= shards
       /\ partials' = Append(partials, linear(inputs[s], weights[s]))
       /\ UNCHANGED <<problem, weights, inputs, out, pc>>

Combine ==
    /\ pc = "run" /\ Len(partials) = shards
    /\ out' = IF mode = "column" THEN concat_columns(partials) ELSE sum(partials)
    /\ pc' = "done"
    /\ UNCHANGED <<problem, weights, inputs, partials>>

Finished == pc \in {"done", "thrown"} /\ UNCHANGED vars

Next == Throw \/ SplitColumnParallel \/ SplitRowParallel \/ RunShard \/ Combine \/ Finished

Spec == Init /\ [][Next]_vars

-----------------------------------------------------------------------------
(* Properties *)

\* "The arithmetic is identical either way": the combined partial outputs are
\* the output of the layer that was not split.
MatchesUnsharded == pc = "done" => out = linear(x, w)
=============================================================================
