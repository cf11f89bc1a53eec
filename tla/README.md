# Verification of the inference engine

TLA+ specifications of this repository's inference engine, the TLC configurations that check them on
small instances, and TLAPS proofs of the central invariants for every instance. Paths are relative to
the repository root (`src/cuda/engine.cu` is the file of that name in the repository's own `src/`).

## 1. The system

The program serves a decoder-only language model. A **model** turns token ids into logits and keeps the
keys and values of past tokens in a **KV cache**; an **engine** serves many requests, one `step()` at a
time; a **sampler** draws the tokens; an **HTTP server** feeds the engine and fans its tokens out.
There is a CPU stack and a CUDA stack with the same roles.

| Component | State | Operations | Hard behaviour | What makes it correct |
|---|---|---|---|---|
| `BlockAllocator` (`include/engine/block_allocator.hpp`) | LIFO `free_list_`, `ref_count_` | `allocate`, `incref`, `free` | two views of one fact over long call sequences | a block is free iff nobody refers to it; never listed twice |
| `BlockManager` (`include/engine/block_manager.hpp`, `src/kvcache/block_manager.cpp`) | pool rows, prefix cache with LRU clock; each sequence's table and length | `reserve`, `write`, `commit`, `gather`, `free`, `acquire_shared_prefix`, `register_prefix`, `clear_prefix_cache` | sharing, eviction, a `reserve` that throws half way, hash chains | counts equal the references; each sequence reads its own rows |
| `Engine` (`src/engine/engine.cpp`) | `waiting_`, `running_`, sequences | `add_request`, `step` (admit, assemble, preempt, forward, sample, retire), `generate` | block budget, preemption and recompute, exceptions out of `step` | outputs are those of requests served alone; everyone finishes |
| `Model` (`src/model/model.cpp`) | `weights_`, `quant_` | `forward`, `forward_cached`, `forward_batch`, `quantize` | sequences packed into one matrix; throws after side effects on the cache | logits belong to the full context, however it was fed |
| `KVCache`, `PagedKVCache` | rows per layer, lengths, a private allocator | `append`, `advance`, `key_tensor`, `value_tensor` | per-layer fill positions, running out of blocks | incremental = full forward; paged = contiguous |
| Speculative decoding (`src/engine/speculative.cpp`) | local | `speculative_greedy` | row indices, budget ending inside a round | equals plain greedy decoding |
| CUDA engine (`src/cuda/engine.cu`, `kv_cache.cu`) | the queues, one device cache per sequence | as `Engine`, without a pool | device calls that fail anywhere | as `Engine`; no cache overflows, whatever failed before takes no room |
| CUDA block pool (`src/cuda/block_manager.cu`) | tables, device pools, one scratch table | `reserve`, `write`, `gather`, `commit`, `free` | scratch shared by all sequences; failing uploads | each item attends over its own rows |
| CUDA model (`src/cuda/model.cu`) | weights on the device | the same forwards, `forward_batch_paged`, `generate` | one scratch buffer for all items; one cache sized once | as `Model`; an answer is complete |
| CUDA kernels (`src/cuda/device.cu`) | device memory | `argmax`, `rms_norm`, `rope`, `attention`, `paged_scatter`, `paged_gather`, element-wise | threads and barriers, work that is no whole number of blocks | no race; each computes what its CPU twin in `src/model/nn.cpp` does |
| Owners of device memory (`DeviceArray`, `GpuKVCache`, `GpuBlockManager`) | raw pointers | construct, move, destroy, grow a table | moves, constructors that throw | one owner for every allocation |
| Sampler (`src/sampler/sampler.cpp`) | generator | `sample` | edges of top-k and top-p, ties, rounding | draws from the nucleus, in proportion |
| Tensor parallelism (`src/engine/tensor_parallel.cpp`) | none | split, concatenate, sum | strides | a sharded linear is the linear |
| Server (`python/engine/server.py`) | `_queues`, `_emitted`, `_wakeup`, the task | `submit`, `stream_tokens`, `_run`, `start`, `stop` | handlers, disconnects and the task interleave at awaits | every client reads its own tokens, once, in order; a stream says what the plain answer does |
| Weight loader (`src/model/safetensors.cpp`, `include/engine/dtype.hpp`) | the tensors | `parse`, conversion of halves and bfloat16 | offsets and products that wrap, overlapping spans, subnormals, two 16-bit formats | accepts exactly the files whose tensors lie apart and in the data; values widen exactly |
| Quantization (`src/quant/quant.cpp`) | int8 rows and scales | `quantize_rowwise_int8`, `linear_int8` | zero rows, rounding, a half finished `quantize` | stays within half a step per weight of fp32 |
| Tokenizer, chat templates, bindings, configuration | none that outlives a call | | | I/O and wrappers |

Interaction: the server calls `add_request` and `step`; `Engine` calls the pool directly (acquire,
register, free) and through `Model::forward_batch` (reserve, write, gather, commit); the pool calls the
allocator. Only the server is concurrent (one asyncio loop), and the GPU kernels; the engine and caches
are sequential objects whose hard cases are orders of calls, exhausted pools and exceptions.

## 2. The modules

Four abstract specifications say what the components promise:

* `BlockPool`: reference-counted blocks handed out only when nobody holds them. Implemented by
  `BlockAllocator`.
* `KVStore`: each sequence has a private list of rows, which only appends and resets. Implemented by
  `BlockManager` and by `GpuBlockManager`.
* `Serving`: a request gets tokens one by one, each among those the sampler may choose after prompt and
  output so far, until its budget or end-of-sequence token. Implemented by `Engine`, by `CudaEngine`, and by
  what the clients of `Service` read.
* `GreedyDecoding`: the same for one prompt and the token of highest logit. Implemented by `Speculative` and by
  `CudaGenerate`.

| Module | Models | Correspondence |
|---|---|---|
| `BlockAllocator` | the allocator | one action per method |
| `BlockManager` | the CPU pool | one action per method. `ctx[s]` stands for `SequenceBlocks::length` and the tokens of the rows; `kv` holds, per slot, the token context its row was computed from; `older` is the LRU clock as an order; `ChainHash` is `hash_block` folded over a prefix |
| `Engine` | `Engine::step` with `Model::forward_batch` over `BlockManager` (`INSTANCE`) | `pc` is the phase of `step()`, `scan` the loop index; one action per turn of each loop |
| `KVCache`, `PagedKVCache` | the caches under `forward_cached` | `layer` is the loop of the forward; `PagedKVCache` extends `BlockAllocator`, its private pool, and implements `KVCache` |
| `Transformer` | the layers of `forward_cached`, `forward_batch` and `forward_batch_paged`, on either device | one action per row-wise stage of a layer and per item of its attention loop; `tmp` is the gather buffer of the paged forward; a row is the term that computes it |
| `Speculative` | `speculative_greedy` | one action per proposed token, per target forward, per judged row |
| `CudaGenerate` | `CudaModel::generate` | one action per forward; `capacity`, `rows` are the cache |
| `CudaEngine` | `CudaEngine::Impl::step`, `GpuKVCache`, `forward_batch(_argmax)` | as `Engine`; `leaked` counts rows no object owns |
| `GpuBlockManager` | the device pool under `forward_batch_paged` | `device_table`, `device_cap` are the scratch table and the capacity noted for it |
| `DeviceMemory` | constructors, moves and destructors of the three owners, and the wrappers of `device.cu` that allocate and free | one action per special member function; `heap` is what is allocated, `lost` what nobody will free |
| `RowKernels` | `argmax_kernel` and `rms_norm_kernel`, thread by thread | `pc[t]`, `stride[t]` per thread, barriers as a guard |
| `GridKernels` | the kernels with one element, pair or head per thread, and `nn.cpp`'s functions | one action per thread (two for `rope_kernel`, which loads a pair before it stores it); `launch` holds the arguments |
| `Sampler` | `Sampler::sample` | one action per stage, in exact integer arithmetic |
| `TensorParallel` | the four primitives and `linear` | row-major buffers with the code's offsets |
| `SafeTensors` | `SafeTensors::parse`, `f16_to_f32`, `bf16_to_f32` | one action per header entry, then the overlap test; machine integers modulo `Word` |
| `Quantization` | `quantize_rowwise_int8`, `linear_int8`, `Model::quantize`, `linear_w` | one action per projection, one per use of a weight; scales as numerators over `Levels` |
| `Service` | `EngineService` and the handlers | what runs between two awaits is one action |
| `StreamedText` | `_collect_text` and `_sse_stream` over one answer | one action per token; `Decode` is the tokenizer's byte-level decoding, which is external |
| `MC*` | values of the constants for TLC; several put subjects that share no state into one run: `MCPagedKVCache` a cache and a pool driven call by call, `MCPools` the two pools, `MCDecoding` the two decoders, `MCOperators` eight subjects | |
| `*Proofs` | theorems | |

**Rows and logits.** In pools, caches, engines and forwards, keys, values and logits are never numbers. A row is represented by the token
context it was computed from, and attention over rows that are not exactly the rows of one context yields
`Junk`, after which anything may be sampled. So a wrong block, a stale slot, a skipped or doubled token
reaches the output and shows as a step `Serving` does not allow. One layer stands for all in the pools
(every layer is written and gathered at the same rows); `KVCache` and `PagedKVCache` keep two layers,
because there the layers have fill positions of their own, and `Transformer` keeps two as well: there a row
is the whole term of named operators that computes it, so that a row normalised by the wrong weight, rotated
by the wrong position or attended over one key too many differs from the right one. A block that nobody holds is blanked to
`Junk`, so reading a leftover is always an error and the number of states stays small.

**Failures.** `Reserve` keeps the blocks it took before it throws; `Engine` has an abort path out of every
throwing call of the forward; in the CUDA modules any device call may fail (`Faults` bounds how often) and
the object is used again afterwards; in `Service` a step may throw, which kills the task.

**Arithmetic.** Where numbers matter they are small integers with the operations done exactly: `Sampler` weighs
logits by powers of two; the attention kernel's `exp` is a power of two in a fixed unit, so that rescaling by a
new maximum is exact; `Quantization` keeps a scale as the numerator it is divided from. What is shown is the
algorithm; the rounding of floats is left out. `SafeTensors` is the other way round: its integers wrap as
machine integers do, with a smaller word, and both 16-bit formats have the code's exponents and their mantissas bit for bit.

**Granularity.** `Service` has one action per stretch between awaits because the event loop runs nothing
else in between. `Engine` and `CudaEngine` split `step()` into small steps although nothing interleaves with
them, so that invariants are checked in the middle of a step, where exceptions leave it. A stream that is
closed between two tokens is finalised later (`Collect`): the fan-out may still write to its queue until then.

## 3. The runs

`pools` is checked up to symmetry in blocks, sequences and tokens, none of which its models order;
`engine_shared` up to symmetry in blocks only (token ids and request ids are numbers). Runs with a liveness
property use no symmetry.

| Run | Bounds | Shows |
|---|---|---|
| `paged_cache` | 3 blocks of 2 rows, 2 layers, contexts up to 7, counts up to 3 | a pool driven call by call keeps its free list exact and implements `BlockPool`; a cache over it that may exhaust it implements `KVCache`, takes no spare block, and yields the logits of the full context |
| `pools` | 3 blocks, 2 sequences; host: blocks of 2 rows, contexts up to 4; device: blocks of 1 row, contexts up to 2, 2 faults | sharing, eviction inside chains, failed reserves, clearing: counts exact, partly filled tails never shared; on the device, own rows through one scratch table; either pool implements `KVStore` |
| `engine_plain` | 4 requests that fit 3 two-row blocks alone but not together, cache off | queues and holders exact through preemption and recompute; `Serving` implemented; every request finishes |
| `engine_shared` | 4 requests with common prefixes, one with an unknown token id; 4 one-row blocks, cache on | the same with sharing, also of blocks of preempted sequences, and when the forward throws after its reserves again and again: rows, budget and counts do not drift |
| `decoding` | lookahead 0, 2, 3; budgets 0, 1, 4, 5; every draft; every end-of-sequence token | both decoders emit plain greedy decoding and end with all that was asked for |
| `cuda_engine` | 3 requests, memory for two short caches or one long one, 2 faults, budgets of 0 and -1 | queues, caches and outputs right after any failure; every request finishes unless one does not fit at its turn (below) |
| `service` | 3 requests, streams and plain answers, disconnects, a throwing step, shutdown | own tokens once and in order, no lost wakeup, dictionaries consistent; every reader gets what was produced for it, and the whole answer unless the engine starves it or the task died |
| `operators` | see below | eight subjects that compute for the engines or load for them |

The subjects of `operators`:

| Subject | Bounds | Shows |
|---|---|---|
| sampler | 3 logits of 3 levels, one of which underflows; top_k 0 to 4, top_p in quarters | `DrawnFromNucleus`, `Multinomial` |
| row kernels | 4 threads, rows of 1, 3 and 6 (fewer elements than threads, and more) | `RaceFree`, `MatchesTwin`: ties as in the sampler, one scale from all elements |
| grid kernels | blocks of 3 threads; work of one, a whole number and a broken number of blocks; grouped heads, a prompt behind cached rows, scrambled block tables | `MatchesTwin`: for launches that fit, the CPU function of the same name, in every order of the threads |
| sharding | 1-2 by 2-4 by 2-4, 1 to 4 shards, unit matrices (the operators are additive, so these decide all) | `MatchesUnsharded` |
| loader | up to three spans in every arrangement, broken headers, words of 32 values; all three dtypes, halves and bfloat16 of every exponent | `AcceptsExactly`, `WidensExactly` |
| int8 | 2 by 2 weights with zero, negative and half-step entries, 3 levels; files that lack a projection | `TracksFp32` |
| device memory | 2 places, 9 addresses, 2 failing operations | `OneOwner` |
| forward | texts of 3, 3 and 1 tokens, 2 layers; every cut and every batch, cached or paged | `MatchesSingle` |

`paged_cache`, `pools`, `decoding` and `operators` each check several subjects in one state graph: which one is
chosen in the initial state and the variables of the subjects that do not run stay as they are, so the graphs
add up and do not multiply. `MatchesTwin` is the one property two subjects share.

`engine_plain` and `engine_shared` divide the invariants of `Engine` between them: those about queues and
preemption are hardest when the pool is short and nothing is shared, those about rows, budget and counts when
blocks are shared.

Why these bounds are enough to be of use: preemption needs two sequences that together exceed the pool, and
recompute under sharing a third that holds the shared block; LRU order needs two evictable entries; a wrong row
needs two sequences whose contexts differ; a partly filled tail needs blocks of two rows; the fan-out needs one
client that leaves while another is served; an offset between items, two items in one batch of which the first
is not the shortest; a stale tail of the gather buffer, a long item before a short one. The device half of
`pools` keeps one-row blocks and two-row contexts because the next size does not finish in the time a run
gets: two tokens in two blocks is what it takes to read another's table. Every run is small enough that all of
these occur in it, and each property comes with a mutated definition (`Mutant of ...` in the modules) that
breaks it under the run's own bounds.

### Runs that are expected to fail

Each checks one thing the repository says of the program against what the code does.

* `engine_cache_starves` (`EveryRequestFinishes`): admission and budget count free blocks only, so blocks pinned
  by the prefix cache are never reclaimed through the engine. When they fill the pool, a request that would fit
  waits for ever, and `generate()` loops.
* `gpu_upload` (`UploadHasTarget`): a failed `cudaMalloc` in `upload_table` leaves the capacity of the freed table
  behind; later forwards copy to a null pointer, and fail.
* `cuda_leak` (`AllocationsOwned`): a `GpuKVCache` constructor that throws between two allocations loses the first.
  What each attempt loses adds up; by then the engine stands still anyway (see "Requests that do not fit").
* `stream_text` (`JoinMatchesPlain`): a stream decodes all its tokens after each and sends what the text has grown
  by. A character whose bytes come in two tokens is a replacement character at first; that is sent, and when the
  next token completes the character the text has not grown. The joined chunks differ from the plain answer,
  which a test asserts they equal (of one prompt in English). Characters have one or two bytes here, answers up
  to three tokens.

Reading the code for the models also showed comments that say more than the code does; no run is spent on
them:

* "correctness does not depend on the hash being collision-free" (`block_manager.cpp:134`): only the block's own
  tokens and the parent's hash are compared, not the parent's tokens. All runs use a hash without collisions.
* "an overflowed/negative numel cannot spuriously match" (`safetensors.cpp:75`): the element count is a product that
  has wrapped before it is compared. A shape of 2^32 by 2^32 counts no element and matches an empty span.
* "Registered blocks are kept live until clear_prefix_cache" (`block_manager.hpp:74`): eviction removes them earlier.
* "Free the youngest block-holding running sequence so others can proceed" (`engine.hpp:75`): the sequence
  preempted is the last of `running_`, which after a re-admission is not the youngest; and with the cache on it
  may hold only shared blocks, so that preempting it frees none.

Two places where the device checks less, or more, than the CPU; `MatchesTwin` is about launches on which both return
(`Fits`), so it does not catch them:

* `embedding_kernel` reads row `ids[row]` of the weight (`device.cu:41-50`) whatever the id is; nothing in `src/cuda/` compares it
  with the vocabulary. The CPU's `embedding` throws for such an id (`nn.cpp:100-102`). On the device an unknown token
  id in a prompt reads outside the weight.
* `attention` throws for heads of more than 256 elements (`device.cu:372-374`), because a thread keeps its accumulator in an array of
  that length. The CPU has no such limit.

### Requests that do not fit

Neither engine compares a request with the memory there is.

* CPU: the head of the queue is not admitted until enough blocks are free, and everything behind it waits
  (`engine.cpp:62-64`). `engine_plain` is about requests that fit the pool alone.
* CUDA: each step admits before it does anything else (`engine.cu:45-50`), and the allocation for a head that does not fit
  throws. The head stays where it is, so every later step throws at the same place, before it serves the sequences that are
  running; those never finish, hence never make room. This happens to a request too large for the device, but also to one that
  fits the device alone and not next to those running, with no memory lost and no device call at fault. The same holds for a
  request whose cache would have no rows (`HeadRefused`). A budget so negative that the cache is shorter than the prompt
  passes admission, and then every forward of the batch throws (`PromptRefused`).
  `EveryRequestFinishes` of `cuda_engine` says that these are the only ways for a request not to finish. Both are about what the
  requests of the moment ask for: memory still held by a finished sequence, left by an aborted step or lost by a constructor is not among
  the excuses. The run reaches refused heads that lose memory at every attempt and others that lose none, and the mutant that keeps retired requests in `running_` breaks the property.

### Fairness

Liveness is checked under weak fairness of what the code's own loops drive.

* `Engine`, `CudaEngine`: `WF(BeginStep \/ StepNext)`. `generate()` and the server's `_run` call `step()`
  while there is work, and a call runs to its end. Nothing says that requests keep coming. After an exception
  the model calls `step()` again; a caller that stops calling is out of scope.
* `Speculative`, `CudaGenerate`: the function, once called, runs.
* `Service`: the event loop runs every ready handler and the task. Nothing is assumed of whom a step serves: the `LLM` behind
  the server has the prefix cache on by default (`llm.py:53`) and does not compare a request with the pool, so a live request may be starved
  (`engine_cache_starves`, and the section above). `EveryClientServed` therefore has three parts. Whatever the engine does, a client that
  stays catches up with what was produced for it; and it is told the end of a finished answer, also when the task has died since. Only the third part, that
  the whole answer is produced and read, has the engine's service of this request as its hypothesis, and it excepts a task that
  a throwing step has ended for good (nothing restarts it; no text of the repository promises otherwise). `engine_plain` shows
  the hypothesis for requests that fit and a cache that is off. A client may stop reading only by disconnecting.

## 4. The proofs

| Theorem | Says |
|---|---|
| `BlockAllocatorProofs!AllocatorSafe` | `Spec => [](TypeOK /\ FreeListExact)` |
| `BlockAllocatorProofs!AllocatorImplementsPool` | `Spec => ImplementsPool` |
| `BlockAllocatorProofs!CacheTakesNoSpareBlocks`, `!LogitsAreOfContext` | `PagedSpec => []NoSpareBlocks`, `[]LogitsOfContext` |
| `BlockAllocatorProofs!PagedImplementsContiguous` | `PagedSpec => ImplementsKVCache` |
| `BlockManagerProofs!PoolTypes`, `!BlockManagerCounts`, `!TailsAreExclusive` | `Spec => []TypeOK`, `[]RefCountExact`, `[]TailExclusive` |
| `BlockManagerProofs!PoolImplementsStore` | `NoCollision => (Spec => ImplementsStore)` |
| `PoolsProofs!PoolsTypes`, `!SeenThroughScratch` | `PoolsSpec => []PoolsTypeOK`, `[]SeenIsOwnContext` |
| `PoolsProofs!PoolsAreStores` | `NoCollision => (PoolsSpec => PoolsImplementStore)` |
| `EngineProofs!EngineQueues`, `!OnlyRunningSequencesHold` | `Spec => []QueuesExact`, `[]OnlyRunningHold` |
| `EngineProofs!RowsMatchContexts`, `!ReservesFit` | `Spec => []RowsMatchContext`, `[]ReserveFits` |
| `EngineProofs!EngineServes` | `NoCollision => (Spec => ImplementsServing)` |
| `CudaEngineProofs!QueuesAreExact`, `!LengthsMatchContexts` | `SampleAssumption => (Spec => []QueuesExact)`, `[]LengthMatchesContext` |
| `CudaEngineProofs!CachesNeverFull` | the same: `[]CacheNeverFull`, which is about budgets that are not negative |
| `CudaEngineProofs!EngineServes` | `SampleAssumption => (Spec => ImplementsServing)` |
| `ServiceProofs!QueuesArePresent`, `!NoWakeupIsLost`, `!DoneMeansComplete` | `Spec => []QueuesPresent`, `[]NoLostWakeup`, `[]DoneIsComplete` |
| `ServiceProofs!ClientsReadServing` | `Spec => ImplementsServing` |
| `DecodingProofs!RowIsRight` | `Spec => [](TypeOK /\ RowOfNext)` of `Speculative` |
| `DecodingProofs!SpeculativeIsGreedy` | `Spec => ImplementsGreedy` of `Speculative` |
| `DecodingProofs!GenerateIsGreedy` | `GenerateArguments => (Generate!Spec => Generate!ImplementsGreedy)` |
| `DecodingProofs!GenerateCacheHolds` | the same for `[]CacheHolds`: no `append` of `generate` throws |
| `DecodingProofs!DecodersAreGreedy`, `!DecodingRowIsRight` | `GenerateArguments => (DecodingSpec => ImplementsGreedy)`, `[]RowOfNext` |
| `OperatorsProofs!ReductionsRaceFree` | `Spec => []RaceFree`, of `MCOperators` as all of this module |
| `OperatorsProofs!KernelsMatchTwins` | `Spec => []MatchesTwin` (`RowKernels`, `GridKernels`) |
| `OperatorsProofs!AllocationsHaveOneOwner` | `Spec => []OneOwner` (`DeviceMemory`) |
| `OperatorsProofs!QuantizedTracksFp32` | `Spec => []TracksFp32` (`Quantization`) |
| `OperatorsProofs!ParseAcceptsExactly`, `!HalvesWidenExactly` | `Spec => []AcceptsExactly`, `[]WidensExactly` (`SafeTensors`) |
| `OperatorsProofs!SampledFromNucleus`, `!SampledByWeight` | `Spec => []DrawnFromNucleus`, `[]Multinomial` (`Sampler`) |
| `OperatorsProofs!ShardedMatchesWhole` | `Spec => []MatchesUnsharded` (`TensorParallel`) |
| `OperatorsProofs!BatchesMatchSingle` | `Spec => []MatchesSingle` (`Transformer`) |

They hold for every value of the constants that satisfies the assumptions the modules name, which say no more than
the types of the program and the bounds of the model do:

* pools and caches: finitely many blocks (none, too) and sequences, a positive block size, at least one layer, and for
  the pool of the engine a `Junk` that is no context;
* engines and service: any number of requests with non-empty prompts of token ids (`add_request` refuses an empty
  one) and any integer budget, zero and negative ones included; in `Engine`, where contexts are bounded by `MaxLen`,
  requests whose prompt and budget fit it; the sampler draws token ids (`TokensAssumption`, and `SampleAssumption`
  in `CudaEngineProofs`);
* `Speculative`: prompts that are non-empty sequences of tokens, and a target that answers every context up to the
  length the arguments lead to. The assumptions of `CudaGenerate` (`GenerateArguments`: token ids are integers, and a
  model answers every context that is not empty with one) are in their theorems;
* the operators (`OperatorsAssumption`): device addresses are finitely many and not null; a quantized matrix has a column and holds
  integers; a half has at least three bits of mantissa (a bfloat16 has three fewer), and no more than its float's exponent can shift out; the entries of a
  file have any shape of integers, and a 16-bit word is a sign, an exponent and a mantissa of a half's widths; the bounds of vocabulary, grid and temperature
  of the sampler; a block of threads is a power of two up to 1024, as the wrappers launch it, of which `ReductionsRaceFree`
  only uses that there is a thread and `KernelsMatchTwins` that halving its strides meets every slot; a launch fits (`Fits`): no dimension is
  empty, token ids are in the vocabulary, heads no larger than `MaxHeadDim`, buffers are as long as their shape, heads are a multiple of key heads, a block table reaches as far as the rows and names no block twice
  (which is what the proofs about the pools say of a sequence), and two scores of a query and head differ by no more than `Span`, the precision in which `exp` is kept;
  finitely many texts, which are sequences, and a model with a layer. The theorems of `OperatorsProofs` have no hypothesis beyond them;
* the two pools together (`MCPools`): a device pool whose longest context is no longer than the host's, so that
  one abstract store covers both; the hypothesis orders the two bounds and restricts neither pool.

Some theorems have one hypothesis more, and are false without it: `NoCollision` (different contexts have different chain
hashes), for `PoolImplementsStore`, for the host's half of `PoolsAreStores` and for the engine's `EngineServes`. A hit in the prefix cache
compares the block's own tokens and the hash of the parent, not the parent's tokens, so with a colliding parent a sequence gets
another's rows (see the comment quoted in section 3). Everything else about the pool and the engine (counts, tails, queues,
holders, lengths, budget) is proved without it, for any hash.

`CacheNeverFull` itself leaves out requests with a negative budget: a cache is sized prompt plus budget, so a prompt of five and a budget of -2
gives a cache of three rows that the prefill overflows; `append` throws. The other theorems about that engine hold for
such requests, too.

*Allocator.* `TypeOK /\ FreeListExact` is inductive as it stands: `allocate` pops a block that is listed once,
so what is left does not list it; `free` pushes a block with count one, which is therefore not listed. The
refinement uses that the popped block is listed and so has no reference.

*Paged cache.* It extends the allocator, and so does its invariant `CacheInv`: the table holds what the pool gave out, once
(`Owned`); the layers behind the current one have the rows of the running forward, the others not yet (`Fills`), and
the table covers them (`Covered`) without growing further (`Tight`). Since two rows never share a place, a layer writes
behind what it has, so each row is the row of everything fed so far (`RowsOfWhole`) and attention leaves the hidden states
right (`HiddenOfWhole`). Only the first layer can find the table short: `append` throws before any layer has
written, or not at all, and that is the step `Throw` of the contiguous cache.

*Block manager.* `RefCountExact` says that the count of a block is the number of table entries plus the number
of cache entries that name it. The invariant is `CountInv`: it, and the shape of the state the counting needs
(tables are sequences of blocks, the cache has finitely many entries). Each operation changes the counted
sets by a set it adds, disjoint from them, or removes, contained in them, and the cardinality theorems turn
that into the arithmetic of the code. `reserve` does not add to a count, it sets it to one; that is right
because a free block has no holder and no entry (its count is zero), and an evictable one has exactly one
entry and no holder (its count is one, and the entry is one of them). `acquire_shared_prefix` may use one
entry for several positions of a table, so it counts positions and not blocks.

`TailExclusive` is inductive beside it (`StoreInv`): `reserve` adds blocks that nobody names, and sharing and
registering name full blocks only. From it follows that `write` changes no row that another sequence, the cache
or the committed part of the writer itself reads. `RowInv` then says what each place that is named holds: a
committed row, a pending one once it is written, or, for a cache entry, the rows of the context its key was made of.
With it the pool implements `KVStore`: a key that hits was made of the same tokens. The section "What a
caller sees of an operation" states, operation by operation, what the engine may rely on.

*Device pool.* No two places of the tables name one block (`Private`), because nothing is shared there and `reserve` takes
blocks of no table; so a write, whose rows lie behind the committed ones, changes no row of another sequence nor a
committed one of its own (`WriteRows`). What the scratch table holds between two accesses is left open: `Uploaded`
shows that each access puts the table of its item at the head of it, whatever was there, and `PlaceOfRow` that the
kernels read no further. A call that fails ends the forward and leaves tables, rows and contexts as they were; the
invariant (`DeviceInv`) allows for the longer tables, and the next forward over the sequence finds its blocks there.
`Progress` says which rows of an item are in place in each phase, up to the commit, which makes them the context. The
arithmetic of rows and blocks is that of the host pool, whose lemmas are instantiated with the device's block size.

*Engine.* Its pool is a `BlockManager`, so every action is shown to be an operation of it or to leave it
alone, and `StoreInv` (and `RowInv` under `NoCollision`) carries over. On top of it stands what `step()` is in the middle
of: which items the current phase has been through and which are still to go (`Past`, `Ahead`), and so whose
rows are reserved, written or committed (`Holdings`); that the batch takes a running sequence once, with the
tokens its rows lack (`Batch`); and that what the items still need adds up to no more than the free blocks (`Fit`). `Fit` is
why no `reserve` of a forward throws for lack of blocks: the assembly subtracts an item's blocks from a budget, and each
`reserve` takes what was subtracted for its item, since sequences share only full blocks. An exception on
the way (an unknown token id) leaves the blocks reserved so far in their tables; the invariant allows for them, and
the next attempt finds them there. For the refinement, `Seen` adds that the logits of an item past its gather are those of its context,
so the token drawn is one that `Serving` allows.

*CUDA engine.* The first `length` rows of a running sequence's cache are the rows of its own context (`Rows`). The
length is what the next forward expects (`Held`), because only `advance`, after a whole forward, moves it: a device
call that fails leaves rows behind the length, which the retry writes again. So the logits of an item are those of
its context (`Seen`), whatever failed.

*Service.* Between two turns of the event loop, what a client has read and what is on its queue are together the
output of its request, and the end comes last and only when it is the end (`Delivery`). The fan-out keeps it so
because `_emitted` counts what it sent (`Counts`), also when a stream is closed and collected later. A token
read is then the next one of the output, and that was drawn after the tokens before it (`Served`). The theorems about
the service need no hypothesis.

*Speculative decoding.* `RowOfNext` is the strengthening: while a round is judged, the context has grown only by
tokens equal to the proposals, so it is the prefix of length `base + j` of what the target was run on, and
row `base + j` is the target's choice after exactly this context. Then every `Accept` and `Bonus` is the
abstract `Emit` and every other step leaves prompt, budget and output alone.

*Generate.* Between two forwards the cache and what is fed next are together the whole context (`Extends`), so each
token is the choice after the context; the context of the last forward is one short of the capacity (`Room`).
Both decoders are then put together as they are checked: one of them runs, and leaves the other's state alone.

*Block reductions.* The barriers keep any two threads within one round of each other, and the one behind waits
(`InStep`). A thread that loads works in the lower half (`Working`), so the slot it reads belongs to a thread
that has nothing to do in this round (`Idle`) or still waits at the end of the last. A reader of the scale has
passed the barrier behind thread 0's write (`ScaleFirst`). That there is a thread is all the argument uses: the
number of threads need not be a power of two for the absence of races, only for the result.

*What a reduction finds.* After the round of stride `d`, a slot `t` below `d` holds the fold of the columns that are `t` modulo `d`
(`SlotHolds`): adding slot `t + d` of the round before makes the columns modulo `2d` those modulo `d`, for powers of two. The round of stride one leaves slot 0 with the whole
row, a sum of squares for `rms_norm`; for `argmax` the fold is the greatest value and, among equals, the smallest index, which is why `scan`, that
starts from nothing, and every comparison must break ties alike. A slot that its owner has not reached yet is as the last round left it, so the invariant needs `InStep`, too.

*Grid kernels.* A task writes offsets that are its own: rows, heads and elements are digits of an offset (`IsPlace`, `OnePlace`), the two elements of a
pair lie in different halves of a head, and a scatter goes through a table that names no block twice (`PlacesApart`). So in any order of the threads
what has run is written and the rest is as it was (`GridInv`), which is also why `rope`, that works in place, loads an untouched pair. The twins, which
loop over rows, heads and elements, are then read off element by element.

*Online softmax.* By induction over the keys, the recursion is the greatest score so far, the sum of the weights and the weighted sum of the values (`AfterKeyIs`).
A greatest score larger by `d` divides every weight by `2^d`, exactly as long as the scores lie within `Span` (`WeightShrinks`); division by a common factor commutes with
the sum (`SoftmaxNext`).

*Sums.* `OperatorsProofs` is about definitions that add or multiply over a set or a sequence with a fold of the community
modules. A fold is the `CHOOSE` of what satisfies its equation, so the equation is shown to have one solution over a finite set
(`SumExists`, `SumUnique`); sums are then linear, monotone and may be cut into pieces. `Induct` is induction as a
fact about sets of numbers, which replaces the induction theorems of the library. While one subject of `MCOperators` runs, the run is one of that
subject's module (`RowRuns`, `MemoryRuns` and so on), so each subject has an invariant of its own.

*Device memory.* The invariant is `OneOwner` itself with the shape of the objects: `heap` is what objects hold and what was lost, and no
two of these meet. A constructor takes addresses outside `heap`; one that fails half way, or a copy-in that does, adds what it took to `lost`; a move
gives the source's buffers away and leaves it empty, also when the target is the source; `ensure_table` frees the old table before
it takes a new one.

*Quantization.* A level differs from its weight, in units of the row's scale, by a half at most (`Rounded`: nothing is
clamped, since no weight exceeds the scale), so the products of a row do by a half per unit of the input, and sums keep that. The invariant says of
every quantized projection that its levels and scales are those of its weights (`Int8Inv`), and that `linear_w` uses
them only once `quantize` is through.

*Loader.* The invariant of `parse` records which of its checks each entry has passed, in the order the code makes them. Every list of
spans has a permutation that sorts it (`SortExists`), and in a sorted one, where no span overlaps the next, no two overlap; so
comparing neighbours is enough. The product of a shape wraps, which the property leaves out (`Representable`), and the
multiplication by the element size is compared in a way that does not. For halves, `SubnormalWidens` shows that the exponent counts the shifts that
bring the leading one of the mantissa in front; for bfloat16, `BrainWidens` that
exponent and mantissa cut the same number as in the file.

*Sampler.* The weight of the first `n` ranks, `Cum(n)`, grows by one weight per rank, so the set of ranks that weigh enough has a
first one, and the nucleus is the prefix up to it. That this is a smallest set of most likely tokens that weighs enough, written without ranks, needs
that any other such set, with ties cut elsewhere, weighs as much as the prefix of its size (`RanksTop`). A draw `u` takes the first rank whose cumulated share exceeds
it, so the draws of a token are an interval, whose length is the token's share rounded to the grid.

*Tensor parallelism.* The output of a layer at row `o` and column `j` is a sum of products over the input's columns. Column-parallel, the weight's rows of a shard
are the whole's, so each column of the concatenation is one shard's (`ConcatIs`). Row-parallel, a shard has a piece of each sum, and the pieces cover it:
`n` sums of `per` terms are the sum of `n * per` terms (`TotalPieces`). Index arithmetic (`Place`) and the number of shards that divides the columns do the rest.

*The forward pass.* A row is the term that computes it, so two forwards agree when they build the same term. The invariant (`ForwardInv`) says of
each row of the batch that it is the row of its own text, at its own position, after the layers that are through (`HoldRows`), and the
same of queries, keys and attention while a layer runs; a cache holds the keys of what its sequence was fed, and of the item
that has just stored its own (`KeysStored`). Packing is a concatenation, so it needs where the tokens of an item lie in it and that no two
items share a row (`JointAt`, `PartsApart`). The scratch buffer of the paged forward may keep rows of an earlier item behind those it was gathered for, but a query sees
only a prefix no longer than the latter. `Causal` closes the argument: a row depends on the tokens up to its own, so the rows of a
context are the first rows of the whole text.

*How.* A helper that is recursive over data (`Without`, which takes the retired requests out of `running`) is written as a
recursive function, and a claim about all its values is proved from a least counterexample
(`NatLessThanWellFounded`), since the induction theorems of the library take an operator.

**Only model-checked:**

* liveness (`EveryRequestFinishes`, `EveryClientServed`, `AnswersComplete`): under fairness, out of the prover's reach;
* the absence of deadlock, and what the expected violations show.

## 5. What is not modelled

* Floating-point rounding, and the matrix product: on the CPU Eigen's, on the device cuBLAS.
  A linear layer is one operator in the models, except in `TensorParallel` and `Quantization`. A scale of a
  quantized row whose greatest magnitude is so small that its inverse is infinite is rounding, too.
* Reading files, JSON itself (a header parses or does not), configuration parsing, the upload of weights by
  name, tokenizer, chat templates, bindings, benchmarks, scripts and the build.
* The copies of the wrappers in `device.cu` that a test calls with host vectors: only the memory they own and may
  lose is modelled (`HostCallThrows`); the kernels they launch are.
* What a kernel does in a launch that does not fit (section 3): a read outside the weight has no value to compare.
* The shape of HTTP answers.
* The LIFO order of free blocks above the allocator (any free block may be taken), and the 64-bit clock and
  hash, which are an order and an operator.
* Overflow of 32-bit reference counts: bounded by the references that exist (`RefCountExact`).

## 6. Plan

Every safety invariant and action property of the runs has its theorem. What would come next is modelling: the upload of
the weights by name, and the Python front end over the bindings.

## 7. Running

    tlc -workers 2 -config EnginePlain.cfg MCEngine
    tlapm BlockManagerProofs.tla

`PROJECT.json` lists the runs with their modules and configurations, the source lines behind every definition, and the
hazards each property is for.
