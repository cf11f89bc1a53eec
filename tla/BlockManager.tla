---------------------------- MODULE BlockManager ----------------------------
(***************************************************************************)
(* The pooled KV cache of include/engine/block_manager.hpp and             *)
(* src/kvcache/block_manager.cpp: many sequences draw blocks from one      *)
(* reference-counted pool, full blocks of a prompt are cached and shared   *)
(* between sequences, and cached blocks nobody else holds are reclaimed in *)
(* LRU order when the free list is empty.                                  *)
(*                                                                         *)
(* Abstractions.  The free list is the set of blocks with no reference     *)
(* (BlockAllocator proves the two equal); which free block is taken is a   *)
(* free choice.  A row of K and V is represented by the token context it   *)
(* was computed from, one layer standing for all of them, since every      *)
(* layer is written and gathered at the same rows; what a block is left    *)
(* with when its last reference goes, or when it is handed out, is Junk, so*)
(* that reading a leftover row is always an error.  The LRU clock only     *)
(* orders the cache entries, so it is kept as that order.  The 64-bit hash *)
(* of a chain of blocks is the constant operator ChainHash.                *)
(***************************************************************************)
EXTENDS Integers, Sequences, FiniteSets

CONSTANTS Blocks,        \* physical blocks of the pool
          Seqs,          \* sequences that draw from it
          Tokens,        \* token ids
          BlockSize,     \* rows per block
          MaxLen,        \* bound: the longest context of a sequence
          ChainHash(_),  \* hash_block folded over the blocks of a prefix
          Junk           \* a row computed from no context: never written, or mixed up

\* The token contexts within the bound.
Contexts == UNION {[1..n -> Tokens] : n \in 0..MaxLen}

ASSUME BlocksAssumption == IsFiniteSet(Blocks)
ASSUME SeqsAssumption == IsFiniteSet(Seqs)
ASSUME BlockSizeAssumption == BlockSize \in Nat \ {0}
ASSUME MaxLenAssumption == MaxLen \in Nat
ASSUME JunkAssumption == Junk \notin Contexts

VARIABLES
    ref_count,    \* ref_count[b]: references to block b (0: in the free list)
    block_table,  \* block_table[s]: the physical blocks of s, in logical order
    ctx,          \* ctx[s]: the tokens of the committed rows of s; their number is seq.length
    pend,         \* pend[s]: tokens the current forward appends to s, rows reserved
    written,      \* written[s]: the rows of pend[s] have been written
    kv,           \* kv[b][i]: the context that slot i of block b was computed from
    prefix,       \* the prefix cache: key of a block -> physical block
    older         \* <<k, l>>: entry k was last used before entry l

vars == <<ref_count, block_table, ctx, pend, written, kv, prefix, older>>

-----------------------------------------------------------------------------
(* Helpers *)

Least(m, n) == IF m < n THEN m ELSE n
Rest(f, S) == [x \in DOMAIN f \ S |-> f[x]]
Entries(q) == {q[i] : i \in DOMAIN q}
Injective(q) == \A i, j \in DOMAIN q : q[i] = q[j] => i = j

BlocksFor(n) == (n + BlockSize - 1) \div BlockSize

\* Logical block and slot of row r (rows and blocks count from 1).
BlockOf(r) == ((r - 1) \div BlockSize) + 1
SlotOf(r) == ((r - 1) % BlockSize) + 1

Free == {b \in Blocks : ref_count[b] = 0}

Deficit(s, n) == BlocksFor(Len(ctx[s]) + n) - Len(block_table[s])

CanAppend(s, n) == Deficit(s, n) <= Cardinality(Free)

\* Mutant of Key: a block is looked up by its own tokens only.
KeyUnchained(c, i) == << ChainHash(<<>>), SubSeq(c, (i - 1) * BlockSize + 1, i * BlockSize) >>

\* The cache key of the i-th full block of a context: the hash of the blocks
\* before it, and its own tokens.
Key(c, i) == << ChainHash(SubSeq(c, 1, (i - 1) * BlockSize)),
                SubSeq(c, (i - 1) * BlockSize + 1, i * BlockSize) >>

\* The blocks of a context whose every slot is used.
FullBlocks(c) == Len(c) \div BlockSize

\* The rows of a block nobody has written, or nobody holds.
Blank == [i \in 1..BlockSize |-> Junk]

\* Rows [1, n] of s, as attention gathers them.
Gather(s, n) == [r \in 1..n |-> kv[block_table[s][BlockOf(r)]][SlotOf(r)]]

\* The context that gathered rows g are the rows of: attention over anything
\* else yields values that belong to no context.
ContextOf(g) ==
    IF g = <<>> THEN <<>>
    ELSE IF g[Len(g)] # Junk /\ \A r \in DOMAIN g : g[r] = SubSeq(g[Len(g)], 1, r)
         THEN g[Len(g)] ELSE Junk

\* The row a forward computes for the last of the new tokens toks over rows g.
Attend(g, toks) == IF ContextOf(g) = Junk THEN Junk ELSE ContextOf(g) \o toks

\* Mutant of Evictable: the reference count of the block is not looked at.
EvictableAny == DOMAIN prefix

\* Cache entries whose block only the cache holds.
Evictable == {k \in DOMAIN prefix : ref_count[prefix[k]] = 1}

\* The references to block b in the table q of s, as <<s, logical block>> pairs;
\* those s holds; those all sequences hold; the cache entries on b.
Refs(s, q, b) == {h \in {s} \X DOMAIN q : q[h[2]] = b}
Held(s, b) == Refs(s, block_table[s], b)
Holders(b) == UNION {Held(s, b) : s \in Seqs}
Cached(b) == {k \in DOMAIN prefix : prefix[k] = b}

-----------------------------------------------------------------------------
(* Operations *)

Init == /\ ref_count = [b \in Blocks |-> 0]
        /\ block_table = [s \in Seqs |-> <<>>]
        /\ ctx = [s \in Seqs |-> <<>>]
        /\ pend = [s \in Seqs |-> <<>>]
        /\ written = [s \in Seqs |-> FALSE]
        /\ kv = [b \in Blocks |-> Blank]
        /\ prefix = <<>>
        /\ older = {}

\* reserve(): blocks are pushed on the table until it covers the new rows; with
\* the free list empty, allocate_block() first evicts the least recently used
\* evictable entry.  With nothing left to evict the call throws and the blocks
\* taken so far stay in the table.
Reserve(s, toks) ==
    LET want  == IF Deficit(s, Len(toks)) > 0 THEN Deficit(s, Len(toks)) ELSE 0
        take  == Least(want, Cardinality(Free) + Cardinality(Evictable))
        short == IF take > Cardinality(Free) THEN take - Cardinality(Free) ELSE 0
    IN \E E \in SUBSET Evictable :
       \E new \in [1..take -> Free \cup {prefix[k] : k \in E}] :
          /\ Cardinality(E) = short
          /\ \A k \in E, l \in Evictable \ E : <<k, l>> \in older
          /\ Injective(new) /\ {prefix[k] : k \in E} \subseteq Entries(new)
          /\ block_table' = [block_table EXCEPT ![s] = @ \o new]
          /\ ref_count' = [b \in Blocks |-> IF b \in Entries(new) THEN 1 ELSE ref_count[b]]
          /\ prefix' = Rest(prefix, E)
          /\ older' = {p \in older : p[1] \notin E /\ p[2] \notin E}
          /\ pend' = IF take < want THEN pend ELSE [pend EXCEPT ![s] = toks]
          /\ kv' = [b \in Blocks |-> IF b \in Entries(new) THEN Blank ELSE kv[b]]
          /\ UNCHANGED <<ctx, written>>

\* write(): the rows of the pending tokens, each computed over the rows before.
Write(s) ==
    LET past == Len(ctx[s])
        rows == (past + 1)..(past + Len(pend[s]))
        At(b, i) == {r \in rows : block_table[s][BlockOf(r)] = b /\ SlotOf(r) = i}
    IN /\ pend[s] # <<>>
       /\ kv' = [b \in Blocks |-> [i \in 1..BlockSize |->
                   IF At(b, i) = {} THEN kv[b][i]
                   ELSE LET r == CHOOSE r \in At(b, i) : TRUE
                        IN Attend(Gather(s, past), SubSeq(pend[s], 1, r - past))]]
       /\ written' = [written EXCEPT ![s] = TRUE]
       /\ UNCHANGED <<ref_count, block_table, ctx, pend, prefix, older>>

\* commit(): the written rows become part of the sequence.
Commit(s) ==
    /\ written[s]
    /\ ctx' = [ctx EXCEPT ![s] = @ \o pend[s]]
    /\ pend' = [pend EXCEPT ![s] = <<>>]
    /\ written' = [written EXCEPT ![s] = FALSE]
    /\ UNCHANGED <<ref_count, block_table, kv, prefix, older>>

\* Mutant of FreeSeq: the table keeps the block ids it gave back.
FreeSeqKeepsTable(s) ==
    /\ ref_count' = [b \in Blocks |-> ref_count[b] - Cardinality(Held(s, b))]
    /\ ctx' = [ctx EXCEPT ![s] = <<>>]
    /\ pend' = [pend EXCEPT ![s] = <<>>]
    /\ written' = [written EXCEPT ![s] = FALSE]
    /\ UNCHANGED <<block_table, kv, prefix, older>>

\* free(): every block of the table loses one reference, the table empties.
FreeSeq(s) ==
    /\ ref_count' = [b \in Blocks |-> ref_count[b] - Cardinality(Held(s, b))]
    /\ block_table' = [block_table EXCEPT ![s] = <<>>]
    /\ ctx' = [ctx EXCEPT ![s] = <<>>]
    /\ pend' = [pend EXCEPT ![s] = <<>>]
    /\ written' = [written EXCEPT ![s] = FALSE]
    /\ kv' = [b \in Blocks |-> IF ref_count'[b] = 0 THEN Blank ELSE kv[b]]
    /\ UNCHANGED <<prefix, older>>

\* acquire_shared_prefix(): a fresh sequence takes the cached blocks of toks up
\* to the first miss; each entry used becomes the most recently used.
AcquireSharedPrefix(s, toks) ==
    /\ block_table[s] = <<>> /\ ctx[s] = <<>>
    /\ \E m \in 0..FullBlocks(toks) :
        LET shared(n) == [i \in 1..n |-> prefix[Key(toks, i)]]
            hit(i) == Key(toks, i) \in DOMAIN prefix
            used(k) == {i \in 1..m : Key(toks, i) = k}
        IN /\ \A i \in 1..m : hit(i)
           /\ m < FullBlocks(toks) => ~ hit(m + 1)
           /\ block_table' = [block_table EXCEPT ![s] = shared(m)]
           /\ ref_count' = [b \in Blocks |-> ref_count[b] + Cardinality(Refs(s, shared(m), b))]
           /\ ctx' = [ctx EXCEPT ![s] = SubSeq(toks, 1, m * BlockSize)]
           /\ older' = {p \in (DOMAIN prefix) \X (DOMAIN prefix) :
                          IF used(p[2]) = {} THEN used(p[1]) = {} /\ p \in older
                          ELSE \E j \in used(p[2]) : \A i \in used(p[1]) : i < j}
           /\ UNCHANGED <<pend, written, kv, prefix>>

\* register_prefix(): the full blocks of s enter the cache, under keys that are
\* not there yet, as the most recently used; the cache holds one reference each.
RegisterPrefix(s, toks) ==
    LET full == Least(Len(block_table[s]), FullBlocks(toks))
        fresh == {Key(toks, i) : i \in 1..full} \ DOMAIN prefix
    IN \E first \in [fresh -> 1..full] :
        /\ \A k \in fresh : /\ Key(toks, first[k]) = k
                            /\ \A j \in 1..(first[k] - 1) : Key(toks, j) # k
        /\ prefix' = [k \in DOMAIN prefix \cup fresh |->
                        IF k \in fresh THEN block_table[s][first[k]] ELSE prefix[k]]
        /\ ref_count' = [b \in Blocks |-> ref_count[b] +
                           Cardinality({k \in fresh : block_table[s][first[k]] = b})]
        /\ older' = older \cup ((DOMAIN prefix) \X fresh)
                          \cup {p \in fresh \X fresh : first[p[1]] < first[p[2]]}
        /\ UNCHANGED <<block_table, ctx, pend, written, kv>>

\* clear_prefix_cache(): every entry gives its reference back.
ClearPrefixCache ==
    /\ ref_count' = [b \in Blocks |-> ref_count[b] - Cardinality(Cached(b))]
    /\ prefix' = <<>>
    /\ older' = {}
    /\ kv' = [b \in Blocks |-> IF ref_count'[b] = 0 THEN Blank ELSE kv[b]]
    /\ UNCHANGED <<block_table, ctx, pend, written>>

-----------------------------------------------------------------------------
(* The callers: Engine::step through Model::forward_batch, and the unit     *)
(* tests, use a sequence in this order.                                     *)

\* One forward reserves rows for new tokens of a sequence with none pending.
BeginForward(s) ==
    /\ pend[s] = <<>>
    /\ \E toks \in Contexts :
         /\ toks # <<>> /\ ctx[s] \o toks \in Contexts
         /\ Reserve(s, toks)

\* A fresh sequence looks its context up, capped to whole blocks by the engine.
BeginShared(s) ==
    /\ pend[s] = <<>>
    /\ \E toks \in Contexts : toks # <<>> /\ AcquireSharedPrefix(s, toks)

\* A sequence registers the context it has committed.
Register(s) == /\ ctx[s] # <<>> /\ pend[s] = <<>>
               /\ RegisterPrefix(s, ctx[s])

\* The forward throws (a token id outside the vocabulary) after its reserves:
\* the reserved blocks stay in the table, nothing is written.
AbortForward(s) == /\ pend[s] # <<>> /\ ~ written[s]
                   /\ pend' = [pend EXCEPT ![s] = <<>>]
                   /\ UNCHANGED <<ref_count, block_table, ctx, written, kv, prefix, older>>

Release(s) == block_table[s] # <<>> /\ FreeSeq(s)

Clear == DOMAIN prefix # {} /\ ClearPrefixCache

Next == \/ \E s \in Seqs : \/ BeginForward(s) \/ Write(s) \/ Commit(s)
                           \/ AbortForward(s)
                           \/ BeginShared(s) \/ Register(s) \/ Release(s)
        \/ Clear

Spec == Init /\ [][Next]_vars

-----------------------------------------------------------------------------
(* Properties *)

\* Type invariant.
TypeOK ==
    /\ ref_count \in [Blocks -> Nat]
    /\ block_table \in [Seqs -> Seq(Blocks)]
    /\ ctx \in [Seqs -> Contexts]
    /\ pend \in [Seqs -> Contexts]
    /\ written \in [Seqs -> BOOLEAN]
    /\ kv \in [Blocks -> [1..BlockSize -> Contexts \cup {Junk}]]
    /\ \A k \in DOMAIN prefix : prefix[k] \in Blocks
    /\ older \subseteq (DOMAIN prefix) \X (DOMAIN prefix)

\* The count of a block is exactly the number of places that name it: entries
\* of block tables, of live and of half-reserved sequences, and cache entries.
\* Sharing, registering, evicting, clearing and a reserve that threw halfway
\* neither leak a block nor free one that somebody still names, in any order.
RefCountExact ==
    \A b \in Blocks : ref_count[b] = Cardinality(Holders(b)) + Cardinality(Cached(b))

\* Rows are written into blocks nobody else reads: a block of s at or behind its
\* committed length is named by no other place of any table and by no cache
\* entry, so no write needs a copy first.
TailExclusive ==
    \A s \in Seqs : \A i \in DOMAIN block_table[s] :
        i * BlockSize > Len(ctx[s]) =>
            /\ Holders(block_table[s][i]) = {<<s, i>>}
            /\ Cached(block_table[s][i]) = {}

\* Paging, sharing and eviction implement a private store of rows per sequence:
\* what attention gathers for s is at every moment the rows of its own context,
\* and no operation on one sequence, nor on the cache, changes another's rows.
Store == INSTANCE KVStore WITH rows <- [s \in Seqs |-> Gather(s, Len(ctx[s]))]
ImplementsStore == Store!Spec
=============================================================================
