---------------------------- MODULE GridKernels ----------------------------
(***************************************************************************)
(* The kernels of src/cuda/device.cu that compute one output element, pair *)
(* or head per thread, next to the CPU functions they are twins of.  A     *)
(* launch starts whole blocks of threads, which run in any order; a thread *)
(* beyond the work returns at once.                                        *)
(*                                                                         *)
(* Buffers are functions over row-major offsets from 0, as in the code.    *)
(* Real arithmetic is kept as terms over the elements read, except in      *)
(* attention: scores are small integers, and exp(x) is represented by 2^x  *)
(* in units of 2^-Span, which is exact for the sums and rescalings of both *)
(* softmaxes.                                                              *)
(***************************************************************************)
EXTENDS Integers, Sequences, FiniteSets, FiniteSetsExt

CONSTANTS BlockDim,    \* kThreads
          MaxHeadDim,  \* kMaxHeadDim
          Launches,    \* launches: records of a kernel's name and arguments
          Span         \* bound on the difference of two scores

VARIABLES launch,  \* the arguments of the launch
          mem,     \* the buffer it writes
          held,    \* held[t]: the pair thread t of rope has loaded
          ran      \* the threads that have returned

vars == <<launch, mem, held, ran>>

-----------------------------------------------------------------------------
(* Geometry *)

\* Blocks that a launch over work elements takes.
GridFor(work) == (work + BlockDim - 1) \div BlockDim

Half(l) == l.head_dim \div 2

\* Threads a kernel has work for.
Work(l) == CASE l.kernel = "embedding" -> Len(l.ids) * l.hidden
             [] l.kernel = "add_bias" -> l.rows * l.out_dim
             [] l.kernel = "add_inplace" -> l.n
             [] l.kernel = "rope" -> l.rows * l.n_heads * Half(l)
             [] l.kernel = "attention" -> l.n_heads * l.q_len
             [] l.kernel = "paged_scatter" -> l.n * l.kv_dim
             [] l.kernel = "paged_gather" -> l.rows * l.kv_dim

Started == 0..(GridFor(Work(launch)) * BlockDim - 1)

\* Offsets of the buffer written.
Cells(l) == CASE l.kernel = "rope" -> 0..(l.rows * l.n_heads * l.head_dim - 1)
              [] l.kernel = "attention" -> 0..(l.q_len * l.n_heads * l.head_dim - 1)
              [] l.kernel = "paged_scatter" -> 0..(l.num_blocks * l.block_size * l.kv_dim - 1)
              [] OTHER -> 0..(Work(l) - 1)

Nothing == <<>>

Was(c) == <<"was", c>>

Init == /\ launch \in Launches
        /\ mem = [c \in Cells(launch) |-> Was(c)]
        /\ held = [t \in Started |-> Nothing]
        /\ ran = {t \in Started : t >= Work(launch)}

Runs(t, kernel) == launch.kernel = kernel /\ t \in Started \ ran

Returns(t) == ran' = ran \cup {t} /\ UNCHANGED <<launch, held>>

-----------------------------------------------------------------------------
(* The kernels.  What is read of another buffer is named by its offset. *)

\* out[idx] = weight[ids[row] * hidden + col]
EmbeddingThread(t) ==
    LET l == launch
    IN /\ Runs(t, "embedding")
       /\ mem' = [mem EXCEPT ![t] =
            <<"weight", l.ids[(t \div l.hidden) + 1] * l.hidden + (t % l.hidden)>>]
       /\ Returns(t)

\* y[idx] += bias[idx % out_dim]
AddBiasThread(t) ==
    /\ Runs(t, "add_bias")
    /\ mem' = [mem EXCEPT ![t] = <<"+", @, <<"bias", t % launch.out_dim>>>>]
    /\ Returns(t)

\* x[i] += y[i]; silu_mul and saxpy address their buffers alike.
AddThread(t) == /\ Runs(t, "add_inplace")
                /\ mem' = [mem EXCEPT ![t] = <<"+", @, <<"y", t>>>>]
                /\ Returns(t)

\* Where thread t of rope finds its pair, and the angle it turns it by: the
\* position of its row and the frequency of its place in the head.
RopeCell(t) == LET l == launch
                   per_row == l.n_heads * Half(l)
                   hh == (t % per_row) \div Half(l)
               IN (t \div per_row) * l.n_heads * l.head_dim + hh * l.head_dim + (t % Half(l))
RopeAngle(t) == <<launch.positions[(t \div (launch.n_heads * Half(launch))) + 1], t % Half(launch)>>

RopeLoad(t) == /\ Runs(t, "rope") /\ held[t] = Nothing
               /\ held' = [held EXCEPT ![t] = <<mem[RopeCell(t)], mem[RopeCell(t) + Half(launch)]>>]
               /\ UNCHANGED <<launch, mem, ran>>

RopeStore(t) == /\ Runs(t, "rope") /\ held[t] # Nothing
                /\ mem' = [mem EXCEPT
                     ![RopeCell(t)] = <<"first", held[t], RopeAngle(t)>>,
                     ![RopeCell(t) + Half(launch)] = <<"second", held[t], RopeAngle(t)>>]
                /\ Returns(t)

\* Element e of row r of a sequence, through its block table.
PagedCell(l, r, e) ==
    (l.block_table[(r \div l.block_size) + 1] * l.block_size + (r % l.block_size)) * l.kv_dim + e

ScatterThread(t) ==
    LET l == launch
    IN /\ Runs(t, "paged_scatter")
       /\ mem' = [mem EXCEPT ![PagedCell(l, l.start + (t \div l.kv_dim), t % l.kv_dim)] =
                    <<"src", (t \div l.kv_dim) * l.kv_dim + (t % l.kv_dim)>>]
       /\ Returns(t)

GatherThread(t) ==
    LET l == launch
    IN /\ Runs(t, "paged_gather")
       /\ mem' = [mem EXCEPT ![t] = <<"pool", PagedCell(l, t \div l.kv_dim, t % l.kv_dim)>>]
       /\ Returns(t)

\* exp(a - b), b being the greater, in units of 2^-Span.
Exp(a, b) == 2^(Span + a - b)

\* Mutant of Shrink: what was summed under the old maximum is kept as it is.
ShrinkNot(v, a, b) == v

\* v * exp(a - b).
Shrink(v, a, b) == v \div 2^(b - a)

Score(l, i, h, j, kvh) ==
    MapThenSumSet(LAMBDA d : l.q[i * l.n_heads * l.head_dim + h * l.head_dim + d]
                             * l.k[j * l.n_kv_heads * l.head_dim + kvh * l.head_dim + d],
                  0..(l.head_dim - 1))
Value(l, j, kvh, d) == l.v[j * l.n_kv_heads * l.head_dim + kvh * l.head_dim + d]

\* Integers at the first n offsets.
Data(f, n) == \A c \in 0..(n - 1) : c \in DOMAIN f /\ f[c] \in Int

\* What a launch is to bring along: dimensions that are not empty, buffers as long as
\* they say, a block table as long as the rows, of blocks of the pool that are all
\* different, scores that differ by no more than Span, and
\*   - token ids inside the vocabulary, which nothing on the device side checks: for
\*     another id the kernel reads outside the weight, where the CPU twin throws;
\*   - heads no larger than MaxHeadDim: the wrapper of attention throws for others.
Fits(l) ==
    LET Dim == Nat \ {0}
        Tabled(rows) == /\ l.num_blocks \in Dim /\ l.block_size \in Dim /\ l.kv_dim \in Dim
                        /\ l.block_table \in Seq(0..(l.num_blocks - 1))
                        /\ \A a, b \in DOMAIN l.block_table :
                             l.block_table[a] = l.block_table[b] => a = b
                        /\ rows <= Len(l.block_table) * l.block_size
    IN \/ /\ l.kernel = "embedding" /\ l.vocab \in Dim /\ l.hidden \in Dim
          /\ l.ids \in Seq(0..(l.vocab - 1))
       \/ l.kernel = "add_bias" /\ l.rows \in Nat /\ l.out_dim \in Dim
       \/ l.kernel = "add_inplace" /\ l.n \in Nat
       \/ /\ l.kernel = "rope" /\ l.rows \in Nat /\ l.n_heads \in Dim /\ l.head_dim \in Dim
          /\ l.positions \in [1..l.rows -> Nat]
       \/ /\ l.kernel = "paged_scatter" /\ l.start \in Nat /\ l.n \in Nat
          /\ Tabled(l.start + l.n)
       \/ l.kernel = "paged_gather" /\ l.rows \in Nat /\ Tabled(l.rows)
       \/ /\ l.kernel = "attention" /\ l.query_offset \in Nat
          /\ l.q_len \in Dim /\ l.n_heads \in Dim /\ l.n_kv_heads \in Dim /\ l.head_dim \in Dim
          /\ l.head_dim <= MaxHeadDim /\ l.n_heads % l.n_kv_heads = 0
          /\ Data(l.q, l.q_len * l.n_heads * l.head_dim)
          /\ Data(l.k, (l.query_offset + l.q_len) * l.n_kv_heads * l.head_dim)
          /\ Data(l.v, (l.query_offset + l.q_len) * l.n_kv_heads * l.head_dim)
          /\ \A h \in 0..(l.n_heads - 1), i \in 0..(l.q_len - 1) :
               LET kvh == h \div (l.n_heads \div l.n_kv_heads)
               IN \A a, b \in 0..(l.query_offset + i) :
                    Score(l, i, h, a, kvh) - Score(l, i, h, b, kvh) <= Span

LaunchesAssumption == /\ BlockDim \in Nat \ {0} /\ Span \in Nat
                      /\ \A l \in Launches : Fits(l)

\* The online softmax of query i and head h after the keys up to last: every new
\* maximum rescales the sum and the accumulator; before the first key there is none.
Online(l, i, h, last) ==
    LET kvh == h \div (l.n_heads \div l.n_kv_heads)
        Dims == 0..(l.head_dim - 1)
        after[j \in 0..last] ==
            LET dot == Score(l, i, h, j, kvh)
                was == after[j - 1]
                max == IF dot > was.max THEN dot ELSE was.max
                weight == Exp(dot, max)
            IN IF j = 0 THEN [max |-> dot, sum |-> Exp(0, 0),
                              acc |-> [d \in Dims |-> Exp(0, 0) * Value(l, 0, kvh, d)]]
               ELSE [max |-> max, sum |-> Shrink(was.sum, was.max, max) + weight,
                     acc |-> [d \in Dims |-> Shrink(was.acc[d], was.max, max)
                                             + weight * Value(l, j, kvh, d)]]
    IN after[last]

\* One query and head: causal, over the keys up to its own position.
AttentionThread(t) ==
    LET l == launch
        h == t \div l.q_len
        i == t % l.q_len
        result == Online(l, i, h, l.query_offset + i)
        base == i * l.n_heads * l.head_dim + h * l.head_dim
    IN /\ Runs(t, "attention")
       /\ mem' = [c \in DOMAIN mem |-> IF c \in base..(base + l.head_dim - 1)
                                       THEN <<"head", result.acc[c - base], result.sum>>
                                       ELSE mem[c]]
       /\ Returns(t)

AllRan == ran = Started
Finished == AllRan /\ UNCHANGED vars

Next == \/ \E t \in Started : \/ EmbeddingThread(t) \/ AddBiasThread(t) \/ AddThread(t)
                              \/ RopeLoad(t) \/ RopeStore(t)
                              \/ ScatterThread(t) \/ GatherThread(t) \/ AttentionThread(t)
        \/ Finished

Spec == Init /\ [][Next]_vars

-----------------------------------------------------------------------------
(* The CPU twins, over rows, heads and blocks *)

\* nn.cpp embedding(): it returns, which it does when each id is in the vocabulary, and
\* row i is the row of the embedding that ids[i] names.
EmbeddingTwin(l) ==
    /\ \A i \in 1..Len(l.ids) : l.ids[i] >= 0 /\ l.ids[i] < l.vocab
    /\ \A i \in 1..Len(l.ids), e \in 0..(l.hidden - 1) :
         mem[(i - 1) * l.hidden + e] = <<"weight", l.ids[i] * l.hidden + e>>

\* nn.cpp linear(): the bias is added to every row.
AddBiasTwin(l) == \A i \in 0..(l.rows - 1), o \in 0..(l.out_dim - 1) :
    mem[i * l.out_dim + o] = <<"+", Was(i * l.out_dim + o), <<"bias", o>>>>

\* nn.cpp rope_inplace(): every head of a row is turned by the row's position, and
\* the last element of an odd head stays.
RopeTwin(l) == \A i \in 1..l.rows, hh \in 0..(l.n_heads - 1) :
    LET head == (i - 1) * l.n_heads * l.head_dim + hh * l.head_dim
        pair(d) == <<Was(head + d), Was(head + d + Half(l))>>
        angle(d) == <<l.positions[i], d>>
    IN /\ \A d \in 0..(Half(l) - 1) : /\ mem[head + d] = <<"first", pair(d), angle(d)>>
                                      /\ mem[head + d + Half(l)] = <<"second", pair(d), angle(d)>>
       /\ l.head_dim % 2 = 1 => mem[head + l.head_dim - 1] = Was(head + l.head_dim - 1)

\* block_manager.cpp write_one() and gather_one() move whole rows; what scatter does
\* not address keeps its value.
ScatterTwin(l) ==
    LET Row(r) == [e \in 0..(l.kv_dim - 1) |-> PagedCell(l, l.start + r, e)]
        Moved == UNION {{Row(r)[e] : e \in 0..(l.kv_dim - 1)} : r \in 0..(l.n - 1)}
    IN /\ \A r \in 0..(l.n - 1), e \in 0..(l.kv_dim - 1) :
            mem[Row(r)[e]] = <<"src", r * l.kv_dim + e>>
       /\ \A c \in DOMAIN mem \ Moved : mem[c] = Was(c)
GatherTwin(l) == \A r \in 0..(l.rows - 1), e \in 0..(l.kv_dim - 1) :
    mem[r * l.kv_dim + e] = <<"pool", PagedCell(l, r, e)>>

\* nn.cpp attention(): the scores of all keys first, then their greatest, then the
\* weighted sum.
AttentionTwin(l) == \A h \in 0..(l.n_heads - 1), i \in 0..(l.q_len - 1) :
    LET group == l.n_heads \div l.n_kv_heads
        kvh == h \div group
        keys == 0..(l.query_offset + i)
        scores == [j \in keys |-> Score(l, i, h, j, kvh)]
        greatest == Max({scores[j] : j \in keys})
        sum == MapThenSumSet(LAMBDA j : Exp(scores[j], greatest), keys)
        acc(d) == MapThenSumSet(LAMBDA j : Exp(scores[j], greatest) * Value(l, j, kvh, d), keys)
    IN \A d \in 0..(l.head_dim - 1) :
         mem[i * l.n_heads * l.head_dim + h * l.head_dim + d] = <<"head", acc(d), sum>>

-----------------------------------------------------------------------------
(* Property *)

\* When a launch that fits is over its buffer is what the CPU twin computes, in whatever
\* order the threads ran: "each thread owns the distinct indices i and i+half within its
\* head", and the online softmax is "algebraically identical to the CPU two-pass".
MatchesTwin == AllRan =>
    /\ launch.kernel = "embedding" => EmbeddingTwin(launch)
    /\ launch.kernel = "add_bias" => AddBiasTwin(launch)
    /\ launch.kernel = "add_inplace" =>
         \A i \in 0..(launch.n - 1) : mem[i] = <<"+", Was(i), <<"y", i>>>>
    /\ launch.kernel = "rope" => RopeTwin(launch)
    /\ launch.kernel = "attention" => AttentionTwin(launch)
    /\ launch.kernel = "paged_scatter" => ScatterTwin(launch)
    /\ launch.kernel = "paged_gather" => GatherTwin(launch)
=============================================================================
