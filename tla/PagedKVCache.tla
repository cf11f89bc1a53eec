---------------------------- MODULE PagedKVCache ----------------------------
(***************************************************************************)
(* The paged KV cache of one sequence, include/engine/paged_kv_cache.hpp   *)
(* and src/kvcache/paged_kv_cache.cpp, under the same cached forward as    *)
(* KVCache.  Rows live in fixed-size blocks taken from a BlockAllocator;   *)
(* one block table serves all layers, each with its own fill position.     *)
(***************************************************************************)
EXTENDS BlockAllocator

CONSTANTS NumLayers, Tokens, MaxLen, Junk,  \* of KVCache
          BlockSize                         \* rows per block

ASSUME NumLayersAssumption == NumLayers \in Nat \ {0}
ASSUME BlockSizeAssumption == BlockSize \in Nat \ {0}

VARIABLES block_table,                 \* logical block -> physical block, all layers
          store,                       \* store[l][b][i]: slot i of block b, layer l
          filled,                      \* filled[l]: rows written to layer l
          length, ctx, ids, hidden, layer  \* as in KVCache

cacheVars == <<block_table, store, filled, length, ctx, ids, hidden, layer>>
forwardVars == <<length, ctx, ids, hidden, layer>>

-----------------------------------------------------------------------------

BlockOf(r) == ((r - 1) \div BlockSize) + 1
SlotOf(r) == ((r - 1) % BlockSize) + 1

\* Mutant of Needed: one block too many at a block boundary.
NeededEager(n) == n \div BlockSize + 1

\* Blocks that n rows need.
Needed(n) == (n + BlockSize - 1) \div BlockSize

\* key_tensor(), value_tensor(): n rows in logical order, out of the blocks st of
\* a layer.
Gather(st, n) == [r \in 1..n |-> st[block_table[BlockOf(r)]][SlotOf(r)]]

Cache == INSTANCE KVCache WITH rows <- [l \in 1..NumLayers |-> Gather(store[l], filled[l])]

Short == Len(block_table) < Needed(filled[layer] + Len(ids))

-----------------------------------------------------------------------------

PagedInit ==
        /\ Init
        /\ block_table = <<>>
        /\ store = [l \in 1..NumLayers |-> [b \in Blocks |-> [i \in 1..BlockSize |-> Junk]]]
        /\ filled = [l \in 1..NumLayers |-> 0]
        /\ length = 0 /\ ctx = <<>>
        /\ ids = <<>> /\ hidden = <<>> /\ layer = 0

Begin(toks) == /\ UNCHANGED <<vars, block_table, store, filled>>
               /\ Cache!Begin(toks)

\* Mutant of EnsureBlock: the block is recorded but not taken from the pool.
EnsureBlockUntaken ==
    /\ layer \in 1..NumLayers /\ Short /\ free_list # <<>>
    /\ block_table' = Append(block_table, free_list[Len(free_list)])
    /\ UNCHANGED <<vars, store, filled, forwardVars>>

\* ensure_blocks(), one turn of its loop.
EnsureBlock ==
    /\ layer \in 1..NumLayers /\ Short
    /\ Allocate
    /\ block_table' = Append(block_table, free_list[Len(free_list)])
    /\ UNCHANGED <<store, filled, forwardVars>>

\* The pool is empty: append() throws out of the forward, and the blocks taken
\* so far stay in the table.
OutOfBlocks ==
    /\ layer \in 1..NumLayers /\ Short /\ free_list = <<>>
    /\ ids' = <<>> /\ hidden' = <<>> /\ layer' = 0
    /\ UNCHANGED <<vars, block_table, store, filled, length, ctx>>

\* write_rows() once the table is long enough, then attention over the layer.
LayerForward ==
    /\ layer \in 1..NumLayers /\ ~ Short
    /\ LET start == filled[layer]
           At(b, i) == {r \in DOMAIN hidden : block_table[BlockOf(start + r)] = b
                                              /\ SlotOf(start + r) = i}
       IN store' = [store EXCEPT ![layer] = [b \in Blocks |-> [i \in 1..BlockSize |->
                      IF At(b, i) = {} THEN store[layer][b][i]
                      ELSE hidden[CHOOSE r \in At(b, i) : TRUE]]]]
    /\ filled' = [filled EXCEPT ![layer] = @ + Len(ids)]
    /\ hidden' = Cache!Attended(Gather(store'[layer], filled'[layer]))
    /\ layer' = layer + 1
    /\ UNCHANGED <<vars, block_table, length, ctx, ids>>

\* Mutant of Advance: the length grows by one, as in a decode step.
AdvanceByOne == /\ layer = NumLayers + 1
                /\ length' = length + 1
                /\ ctx' = ctx \o ids
                /\ ids' = <<>> /\ hidden' = <<>> /\ layer' = 0
                /\ UNCHANGED <<vars, block_table, store, filled>>

\* advance(): the rows of all layers become the past of the next forward.
Advance == /\ layer = NumLayers + 1
           /\ length' = length + Len(ids)
           /\ ctx' = ctx \o ids
           /\ ids' = <<>> /\ hidden' = <<>> /\ layer' = 0
           /\ UNCHANGED <<vars, block_table, store, filled>>

\* The caller needs no further forward.
Idle == layer = 0 /\ UNCHANGED <<vars, cacheVars>>

PagedNext == \/ \E toks \in Cache!Contexts : Begin(toks)
             \/ EnsureBlock \/ OutOfBlocks \/ LayerForward \/ Advance \/ Idle

PagedSpec == PagedInit /\ [][PagedNext]_<<vars, cacheVars>>

-----------------------------------------------------------------------------
(* Properties *)

\* "Storage grows one block at a time": between forwards the table holds every
\* block the pool gave out, once, and these are just the blocks its rows need,
\* except after an append that exhausted the pool.  (A pool that is used without
\* a cache has an empty table.)
NoSpareBlocks == layer = 0 /\ block_table # <<>> =>
    /\ {block_table[k] : k \in DOMAIN block_table} = {b \in Blocks : ref_count[b] = 1}
    /\ Len(block_table) + Len(free_list) = NumBlocks
    /\ free_list # <<>> => Len(block_table) * BlockSize \in length..(length + BlockSize - 1)

\* Incremental decoding is the full forward, over blocks too: the logits that a
\* forward returns are those of everything fed so far, however it was cut.
LogitsOfContext == Cache!LogitsOfContext

\* "The interface matches KVCache, so the same cached forward runs over either":
\* every layer reads back the rows a contiguous cache would hold, also after an
\* append that ran out of blocks, which only the first layer can meet.
ImplementsKVCache == Cache!Spec
=============================================================================
