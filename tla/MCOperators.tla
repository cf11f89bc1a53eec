----------------------------- MODULE MCOperators -----------------------------
(* What the engines compute with and on, checked in one run: a behaviour     *)
(* picks a subject and runs it on one of its inputs.  The subjects share no  *)
(* state; Unused fills the variables of those that do not run.               *)
EXTENDS Integers, Sequences

CONSTANTS SamplerWidths, SamplerLogits, TopKs, Underflow, Parts, Draws,
          RowWidths, RowValues, NumThreads,
          BlockDim, MaxHeadDim, Launches, Span,
          TensorRows, In, Out, ShardCounts,
          Files, Word, MantBits, Widening,
          Names, Other, Rows, Cols, Matrices, Inputs, Levels,
          Variables, NumLayers, Addresses, Faults,
          Texts, TextLayers,
          Unused

VARIABLES subject,
          logits, params, order, keep, nucleus, token, sampler_pc,
          kernel, cols, r, sval, sidx, scale, stride, thread_pc, other, row_out,
          launch, mem, held, ran,
          x, w, shards, mode, weights, inputs, partials, out, pc,
          file, spans, tensors, at, loader_pc,
          int8_weights, quant, quantized, int8_at, call,
          heap, object, lost, faults,
          store, length, kv, items, every, layer, item, rows, q, new_kv, attn, tmp,
          next_logits, forward_pc

samplerVars == <<logits, params, order, keep, nucleus, token, sampler_pc>>
rowVars == <<kernel, cols, r, sval, sidx, scale, stride, thread_pc, other, row_out>>
gridVars == <<launch, mem, held, ran>>
tensorVars == <<x, w, shards, mode, weights, inputs, partials, out, pc>>
loaderVars == <<file, spans, tensors, at, loader_pc>>
int8Vars == <<int8_weights, quant, quantized, int8_at, call>>
memoryVars == <<heap, object, lost, faults>>
forwardVars == <<store, length, kv, items, every, layer, item, rows, q, new_kv, attn, tmp,
                 next_logits, forward_pc>>

Sampling == INSTANCE Sampler WITH
                Widths <- SamplerWidths, Logits <- SamplerLogits, pc <- sampler_pc
RowKernel == INSTANCE RowKernels WITH
                 Widths <- RowWidths, Values <- RowValues, pc <- thread_pc, out <- row_out
GridKernel == INSTANCE GridKernels
Sharding == INSTANCE TensorParallel WITH Rows <- TensorRows
Loader == INSTANCE SafeTensors WITH pc <- loader_pc
Int8 == INSTANCE Quantization WITH weights <- int8_weights, at <- int8_at
Memory == INSTANCE DeviceMemory
Forwards == INSTANCE Transformer WITH
                NumLayers <- TextLayers, x <- rows, logits <- next_logits, pc <- forward_pc

ASSUME OperatorsAssumption ==
    /\ Sampling!SamplerAssumption /\ RowKernel!RowKernelsAssumption
    /\ GridKernel!LaunchesAssumption
    /\ Sharding!TensorParallelAssumption
    /\ Loader!WordAssumption /\ Loader!HalfAssumption /\ Loader!FilesAssumption
    /\ Int8!NamesAssumption /\ Int8!LevelsAssumption /\ Int8!ShapeAssumption
    /\ Memory!NumLayersAssumption /\ Memory!AddressesAssumption
    /\ Forwards!TextsAssumption

SamplerUnused == /\ logits = Unused /\ params = Unused /\ order = Unused
                 /\ keep = Unused /\ nucleus = Unused /\ token = Unused
                 /\ sampler_pc = Unused
RowUnused == /\ kernel = Unused /\ cols = Unused /\ r = Unused /\ sval = Unused
             /\ sidx = Unused /\ scale = Unused /\ stride = Unused
             /\ thread_pc = Unused /\ other = Unused /\ row_out = Unused
GridUnused == /\ launch = Unused /\ mem = Unused /\ held = Unused /\ ran = Unused
TensorUnused == /\ x = Unused /\ w = Unused /\ shards = Unused /\ mode = Unused
                /\ weights = Unused /\ inputs = Unused /\ partials = Unused
                /\ out = Unused /\ pc = Unused
LoaderUnused == /\ file = Unused /\ spans = Unused /\ tensors = Unused
                /\ at = Unused /\ loader_pc = Unused
Int8Unused == /\ int8_weights = Unused /\ quant = Unused /\ quantized = Unused
              /\ int8_at = Unused /\ call = Unused
MemoryUnused == /\ heap = Unused /\ object = Unused /\ lost = Unused
                /\ faults = Unused
ForwardUnused == /\ store = Unused /\ length = Unused /\ kv = Unused /\ items = Unused
                 /\ every = Unused /\ layer = Unused /\ item = Unused /\ rows = Unused
                 /\ q = Unused /\ new_kv = Unused /\ attn = Unused /\ tmp = Unused
                 /\ next_logits = Unused /\ forward_pc = Unused

Others(s) == /\ s # "sampler" => SamplerUnused
             /\ s # "row kernel" => RowUnused
             /\ s # "grid kernel" => GridUnused
             /\ s # "tensor" => TensorUnused
             /\ s # "loader" => LoaderUnused
             /\ s # "int8" => Int8Unused
             /\ s # "memory" => MemoryUnused
             /\ s # "forward" => ForwardUnused

Init == \/ subject = "sampler" /\ Sampling!Init /\ Others("sampler")
        \/ subject = "row kernel" /\ RowKernel!Init /\ Others("row kernel")
        \/ subject = "grid kernel" /\ GridKernel!Init /\ Others("grid kernel")
        \/ subject = "tensor" /\ Sharding!Init /\ Others("tensor")
        \/ subject = "loader" /\ Loader!Init /\ Others("loader")
        \/ subject = "int8" /\ Int8!Init /\ Others("int8")
        \/ subject = "memory" /\ Memory!Init /\ Others("memory")
        \/ subject = "forward" /\ Forwards!Init /\ Others("forward")

Next ==
    /\ UNCHANGED subject
    /\ \/ /\ subject = "sampler" /\ Sampling!Next
          /\ UNCHANGED <<rowVars, gridVars, tensorVars, loaderVars, int8Vars,
                         memoryVars, forwardVars>>
       \/ /\ subject = "row kernel" /\ RowKernel!Next
          /\ UNCHANGED <<samplerVars, gridVars, tensorVars, loaderVars, int8Vars,
                         memoryVars, forwardVars>>
       \/ /\ subject = "grid kernel" /\ GridKernel!Next
          /\ UNCHANGED <<samplerVars, rowVars, tensorVars, loaderVars, int8Vars,
                         memoryVars, forwardVars>>
       \/ /\ subject = "tensor" /\ Sharding!Next
          /\ UNCHANGED <<samplerVars, rowVars, gridVars, loaderVars, int8Vars,
                         memoryVars, forwardVars>>
       \/ /\ subject = "loader" /\ Loader!Next
          /\ UNCHANGED <<samplerVars, rowVars, gridVars, tensorVars, int8Vars,
                         memoryVars, forwardVars>>
       \/ /\ subject = "int8" /\ Int8!Next
          /\ UNCHANGED <<samplerVars, rowVars, gridVars, tensorVars, loaderVars,
                         memoryVars, forwardVars>>
       \/ /\ subject = "memory" /\ Memory!Next
          /\ UNCHANGED <<samplerVars, rowVars, gridVars, tensorVars, loaderVars,
                         int8Vars, forwardVars>>
       \/ /\ subject = "forward" /\ Forwards!Next
          /\ UNCHANGED <<samplerVars, rowVars, gridVars, tensorVars, loaderVars,
                         int8Vars, memoryVars>>

allVars == <<subject, samplerVars, rowVars, gridVars, tensorVars, loaderVars, int8Vars,
             memoryVars, forwardVars>>
Spec == Init /\ [][Next]_allVars

-----------------------------------------------------------------------------
(* Inputs *)

\* Launches whose work is and is not a whole number of blocks of threads.
Embeddings == {[kernel |-> "embedding", vocab |-> 3, hidden |-> 2, ids |-> ids] :
                 ids \in {<<2>>, <<1, 0, 1>>}}
Additions == {[kernel |-> "add_inplace", n |-> 3],
              [kernel |-> "add_bias", rows |-> 2, out_dim |-> 3]}
Rotations == {[kernel |-> "rope", rows |-> 2, n_heads |-> n, head_dim |-> d, positions |-> <<4, 7>>] :
                n \in {1, 2}, d \in {2, 3}}
             \cup {[kernel |-> "rope", rows |-> 1, n_heads |-> 2, head_dim |-> 4, positions |-> <<0>>]}
Scatters == {[kernel |-> "paged_scatter", num_blocks |-> 3, block_size |-> 2, kv_dim |-> 2,
              block_table |-> <<2, 0>>, start |-> start, n |-> n] : start \in {0, 1}, n \in {1, 3}}
Gathers == {[kernel |-> "paged_gather", num_blocks |-> 3, block_size |-> 2, kv_dim |-> 2,
             block_table |-> <<2, 0>>, rows |-> n] : n \in {1, 3}}

\* Every choice of keys, so that the greatest score comes first, last and in between;
\* heads that share a key head, and heads that do not; rows behind the queries.
Attentions ==
    {[kernel |-> "attention", q_len |-> 2, n_heads |-> 2, n_kv_heads |-> n, head_dim |-> 1,
      query_offset |-> 1, q |-> [c \in 0..3 |-> 1 + (c % 2)], k |-> k, v |-> [c \in 0..7 |-> c]] :
        n \in {1, 2}, k \in [0..5 -> {0, 2}]}
    \cup
    {[kernel |-> "attention", q_len |-> 1, n_heads |-> 4, n_kv_heads |-> 2, head_dim |-> 2,
      query_offset |-> 1, q |-> [c \in 0..7 |-> c % 3], k |-> k, v |-> [c \in 0..7 |-> 3 * c]] :
        k \in [0..7 -> {0, 1}]}

SomeLaunches == Embeddings \cup Additions \cup Rotations \cup Scatters \cup Gathers \cup Attentions

\* Files: headers that do and do not fit; single tensors of every span and of right,
\* wrong, empty, negative and overflowing shapes; every three spans of halves;
\* every word of sign 0, and of sign 1 where the conversion has a case of its own, read
\* as a half and as a bfloat16.
Half(s, e, m) == [sign |-> s, exp |-> e, mant |-> m]
One == Half(0, 15, 0)
FileOf(entries, word) == [size |-> 16, header_len |-> 2, parses |-> TRUE,
                          entries |-> entries, word |-> word]
Tensor(dtype, shape, b, e) == [dtype |-> dtype, shape |-> shape, begin |-> b, end |-> e]
Spans == {s \in (0..6) \X (0..6) : s[1] <= s[2] /\ (s[2] - s[1]) % 2 = 0}
SomeFiles ==
    {[size |-> n, header_len |-> h, parses |-> p, entries |-> <<>>, word |-> One] :
        n \in {0, 7, 8, 10}, h \in 0..3, p \in BOOLEAN}
    \cup {FileOf(<<Tensor(t, shape, b, e)>>, One) : t \in {"F32", "F16", "BF16"}, b \in 0..7, e \in 0..7,
            shape \in {<<>>, <<0>>, <<1>>, <<3>>, <<1, 2>>, <<2, 0>>, <<-1>>, <<-1, -1>>, <<4, 8>>}}
    \cup {FileOf(<<Tensor("F16", <<(s[2] - s[1]) \div 2>>, s[1], s[2]),
                   Tensor("F16", <<(t[2] - t[1]) \div 2>>, t[1], t[2]),
                   Tensor("F16", <<(u[2] - u[1]) \div 2>>, u[1], u[2])>>, One) :
            s \in Spans, t \in Spans, u \in Spans}
    \cup {FileOf(<<Tensor("F16", <<1>>, 0, 2), Tensor("BF16", <<1>>, 2, 4)>>,
                 Half(se[1], se[2], m)) :
            se \in ({0} \X (0..31)) \cup ({1} \X {0, 1, 31}), m \in 0..(2^MantBits - 1)}

\* Rows of one magnitude and of several, of one sign and of both, and of zeros.
SomeMatrices == {[c \in 0..3 |-> <<a, b, 0 - b, c0>>[c + 1]] : a \in {0, 5}, b \in {1, 3}, c0 \in {0, -4}}
SomeInputs == {[c \in 0..1 |-> <<1, a>>[c + 1]] : a \in {0, 2, -1}}
SomeNames == <<"q_proj", "up_proj">>

\* Three texts, so that batches have a first, a middle and a last item.
SomeTexts == << <<1, 2, 3>>, <<2, 1, 2>>, <<3>> >>

-----------------------------------------------------------------------------
(* The properties of each subject, while it runs. *)

\* The sampler draws from the nucleus of the top-k tokens, however ties sort.
DrawnFromNucleus == subject = "sampler" => Sampling!DrawnFromNucleus

\* The draw is proportional to the weights; what has none is never drawn.
Multinomial == subject = "sampler" => Sampling!Multinomial

\* No thread of a block reads what another may still write.
RaceFree == subject = "row kernel" => RowKernel!RaceFree

\* Device kernels yield what their CPU twins do, in whatever order threads run.
MatchesTwin == /\ subject = "row kernel" => RowKernel!MatchesTwin
               /\ subject = "grid kernel" => GridKernel!MatchesTwin

\* A sharded linear layer computes what the whole one does.
MatchesUnsharded == subject = "tensor" => Sharding!MatchesUnsharded

\* The loader accepts exactly the valid weight files.
AcceptsExactly == subject = "loader" => Loader!AcceptsExactly

\* A half or bfloat16 is widened to the float of the same value.
WidensExactly == subject = "loader" => Loader!WidensExactly

\* A quantized model is off by half a scale at most, an unquantized one by nothing.
TracksFp32 == subject = "int8" => Int8!TracksFp32

\* A batched forward yields the logits of one over the whole context.
MatchesSingle == subject = "forward" => Forwards!MatchesSingle

\* Every device allocation has one owner, or was lost by a failure.
OneOwner == subject = "memory" => Memory!OneOwner
=============================================================================
