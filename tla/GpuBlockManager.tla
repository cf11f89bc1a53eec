-------------------------- MODULE GpuBlockManager --------------------------
(***************************************************************************)
(* The device KV pool of src/cuda/block_manager.cu under                   *)
(* CudaModel::forward_batch_paged.  All sequences of a batch are written   *)
(* and gathered by kernels that read one scratch copy of a block table on  *)
(* the device, uploaded anew before every access.  Device calls may fail   *)
(* (Faults bounds how often); the exception leaves the forward wherever it *)
(* is thrown.                                                              *)
(*                                                                         *)
(* Rows are represented as in BlockManager, one layer standing for all; the*)
(* free list is the set of blocks no table names, since nothing is shared  *)
(* here, and a block is Blank when nobody holds it.                        *)
(***************************************************************************)
EXTENDS Integers, Sequences, FiniteSets

CONSTANTS Blocks, Seqs, Tokens, BlockSize, MaxLen, Junk,  \* as in BlockManager
          Null,     \* device_table_ when nothing is allocated
          Faults    \* bound: failing device calls in a behaviour

Contexts == UNION {[1..n -> Tokens] : n \in 0..MaxLen}

BlockSizeAssumption == BlockSize \in Nat \ {0}
NullAssumption == Null \notin Seq(Blocks)
JunkAssumption == Junk \notin Contexts

VARIABLES
    block_table, ctx,  \* SequenceBlocks of each sequence; ctx[s]: tokens of its rows
    kv,                \* kv[b][i]: the context that slot i of block b was computed from
    device_table,      \* the block ids in device_table_
    device_cap,        \* device_table_cap_
    pc, scan,          \* of the running forward: phase, item it is at
    items,             \* the batch: [seq, tokens, seen]
    faults             \* device calls that failed so far

vars == <<block_table, ctx, kv, device_table, device_cap, pc, scan, items, faults>>

-----------------------------------------------------------------------------
(* Helpers *)

BlocksFor(n) == (n + BlockSize - 1) \div BlockSize
BlockOf(r) == ((r - 1) \div BlockSize) + 1
SlotOf(r) == ((r - 1) % BlockSize) + 1
Blank == [i \in 1..BlockSize |-> Junk]
Least(m, n) == IF m < n THEN m ELSE n

Entries(q) == {q[i] : i \in DOMAIN q}
Injective(q) == \A i, j \in DOMAIN q : q[i] = q[j] => i = j
Free == Blocks \ UNION {Entries(block_table[s]) : s \in Seqs}

\* Rows [1, n] through the table t, as the kernels address them.
Rows(t, n) == [r \in 1..n |-> kv[t[BlockOf(r)]][SlotOf(r)]]

\* The context that rows g are the rows of.
ContextOf(g) ==
    IF g = <<>> THEN <<>>
    ELSE IF g[Len(g)] # Junk /\ \A r \in DOMAIN g : g[r] = SubSeq(g[Len(g)], 1, r)
         THEN g[Len(g)] ELSE Junk

Attend(g, toks) == IF ContextOf(g) = Junk THEN Junk ELSE ContextOf(g) \o toks

Item == items[scan]
Need == Len(block_table[Item.seq])
Past == Len(ctx[Item.seq])

\* The forward ends; when by an exception, the blocks reserved stay in the tables.
Leave == pc' = "idle" /\ scan' = 1 /\ items' = <<>>

-----------------------------------------------------------------------------

Init == /\ block_table = [s \in Seqs |-> <<>>]
        /\ ctx = [s \in Seqs |-> <<>>]
        /\ kv = [b \in Blocks |-> Blank]
        /\ device_table = Null /\ device_cap = 0
        /\ pc = "idle" /\ scan = 1 /\ items = <<>>
        /\ faults = 0

\* A forward over one or more sequences.
Begin(batch) ==
    /\ pc = "idle" /\ Injective([k \in DOMAIN batch |-> batch[k].seq])
    /\ \A k \in DOMAIN batch : /\ batch[k].tokens # <<>>
                               /\ ctx[batch[k].seq] \o batch[k].tokens \in Contexts
    /\ items' = [k \in DOMAIN batch |->
                   [seq |-> batch[k].seq, tokens |-> batch[k].tokens, seen |-> Junk]]
    /\ pc' = "reserve" /\ scan' = 1
    /\ UNCHANGED <<block_table, ctx, kv, device_table, device_cap, faults>>

\* reserve() of one item; an empty pool makes it throw, the blocks taken stay.
Reserve ==
    /\ pc = "reserve" /\ scan <= Len(items)
    /\ LET deficit == BlocksFor(Past + Len(Item.tokens)) - Need
           want == IF deficit > 0 THEN deficit ELSE 0
           take == Least(want, Cardinality(Free))
       IN /\ \E new \in [1..take -> Free] :
               Injective(new) /\ block_table' = [block_table EXCEPT ![Item.seq] = @ \o new]
          /\ IF take < want THEN Leave ELSE scan' = scan + 1 /\ UNCHANGED <<pc, items>>
    /\ UNCHANGED <<ctx, kv, device_table, device_cap, faults>>

ReservesDone == /\ pc = "reserve" /\ scan > Len(items)
                /\ pc' = "write" /\ scan' = 1
                /\ UNCHANGED <<block_table, ctx, kv, device_table, device_cap, items, faults>>

\* Mutant of Upload: the copy is refreshed only when it must grow.
UploadOnGrowth ==
    /\ Need > device_cap \/ device_table # Null
    /\ IF Need > device_cap
       THEN device_cap' = Need /\ device_table' = block_table[Item.seq]
       ELSE UNCHANGED <<device_cap, device_table>>

\* upload_table(): the scratch is reallocated when too small, then the block ids
\* are copied over its head.
Upload ==
    /\ Need > device_cap \/ device_table # Null
    /\ device_cap' = IF Need > device_cap THEN Need ELSE device_cap
    /\ device_table' = [i \in 1..device_cap' |->
          IF i <= Need THEN block_table[Item.seq][i]
          ELSE device_table[i]]

\* upload_table() throws: cudaMalloc fails, after the old scratch was freed and
\* with its capacity still noted; or there is no scratch to copy to.
UploadFails ==
    /\ pc \in {"write", "gather"} /\ scan <= Len(items)
    /\ IF Need > device_cap
       THEN /\ faults < Faults /\ faults' = faults + 1
            /\ device_table' = Null
       ELSE device_table = Null /\ UNCHANGED <<device_table, faults>>
    /\ Leave
    /\ UNCHANGED <<block_table, ctx, kv, device_cap>>

\* Any other device call of the forward fails.
DeviceFails ==
    /\ pc \in {"write", "gather"} /\ faults < Faults
    /\ faults' = faults + 1
    /\ Leave
    /\ UNCHANGED <<block_table, ctx, kv, device_table, device_cap>>

\* write(): upload, then paged_scatter of the rows of the item's tokens.
Write ==
    /\ pc = "write" /\ scan <= Len(items)
    /\ Upload
    /\ LET At(b, i) == {r \in (Past + 1)..(Past + Len(Item.tokens)) :
                          device_table'[BlockOf(r)] = b /\ SlotOf(r) = i}
           row(r) == Attend(Rows(device_table', Past), SubSeq(Item.tokens, 1, r - Past))
       IN kv' = [b \in Blocks |-> [i \in 1..BlockSize |->
                   IF At(b, i) = {} THEN kv[b][i] ELSE row(CHOOSE r \in At(b, i) : TRUE)]]
    /\ pc' = "gather"
    /\ UNCHANGED <<block_table, ctx, scan, items, faults>>

\* gather(): upload, then paged_gather into the shared buffer and attention.
Gather ==
    /\ pc = "gather"
    /\ Upload
    /\ items' = [items EXCEPT ![scan].seen =
                   ContextOf(Rows(device_table', Past + Len(Item.tokens)))]
    /\ pc' = "write" /\ scan' = scan + 1
    /\ UNCHANGED <<block_table, ctx, kv, faults>>

\* The logits are on the host.
WritesDone == /\ pc = "write" /\ scan > Len(items)
              /\ pc' = "commit" /\ scan' = 1
              /\ UNCHANGED <<block_table, ctx, kv, device_table, device_cap, items, faults>>

\* commit() of one item, and the return of the forward after the last.
Commit == /\ pc = "commit"
          /\ ctx' = [ctx EXCEPT ![Item.seq] = @ \o Item.tokens]
          /\ IF scan = Len(items) THEN Leave ELSE scan' = scan + 1 /\ UNCHANGED <<pc, items>>
          /\ UNCHANGED <<block_table, kv, device_table, device_cap, faults>>

\* free(): all blocks of a sequence go back.
FreeSeq(s) ==
    /\ pc = "idle" /\ block_table[s] # <<>>
    /\ block_table' = [block_table EXCEPT ![s] = <<>>]
    /\ ctx' = [ctx EXCEPT ![s] = <<>>]
    /\ kv' = [b \in Blocks |-> IF b \in Entries(block_table[s]) THEN Blank ELSE kv[b]]
    /\ UNCHANGED <<device_table, device_cap, pc, scan, items, faults>>

Batches == UNION {[1..n -> [seq : Seqs, tokens : Contexts]] : n \in 1..Cardinality(Seqs)}

Next == \/ \E batch \in Batches : Begin(batch)
        \/ Reserve \/ ReservesDone \/ Write \/ Gather \/ UploadFails \/ DeviceFails
        \/ WritesDone \/ Commit
        \/ \E s \in Seqs : FreeSeq(s)

Spec == Init /\ [][Next]_vars

-----------------------------------------------------------------------------
(* Properties *)

\* Type invariant; a table always covers its committed rows.
TypeOK ==
    /\ \A s \in Seqs : block_table[s] \in Seq(Blocks) /\ ctx[s] \in Contexts
                       /\ Len(ctx[s]) <= BlockSize * Len(block_table[s])
    /\ kv \in [Blocks -> [1..BlockSize -> Contexts \cup {Junk}]]
    /\ device_table = Null \/ device_table \in [1..device_cap -> Blocks]
    /\ device_cap \in 0..Cardinality(Blocks)
    /\ pc \in {"idle", "reserve", "write", "gather", "commit"}
    /\ scan \in 1..(Cardinality(Seqs) + 1) /\ faults \in 0..Faults

\* Through the one scratch table every item attends over the rows of its own
\* context, whatever the table held for the item before.
SeenIsOwnContext == \A k \in DOMAIN items :
    pc \in {"write", "gather"} /\ k < scan =>
        items[k].seen = ctx[items[k].seq] \o items[k].tokens

\* The device pool implements the private store of rows, also when forwards fail
\* half way and are tried again over the blocks they left reserved.
Store == INSTANCE KVStore WITH rows <- [s \in Seqs |-> Rows(block_table[s], Len(ctx[s]))]
ImplementsStore == Store!Spec

\* upload_table() can always "refresh device_table_ from seq.block_table": when
\* the capacity noted is enough, there is a table to copy to.
UploadHasTarget == pc \in {"write", "gather"} /\ scan <= Len(items) /\ Need <= device_cap =>
    device_table # Null
=============================================================================
