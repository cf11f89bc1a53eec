------------------------------ MODULE MCPools ------------------------------
(* The two pools of KV blocks, host and device, checked in one run: a        *)
(* behaviour picks one; the other stays empty.  They differ in block size    *)
(* and in the longest context.                                               *)
EXTENDS BlockManager, TLC

CONSTANTS GpuBlockSize, GpuMaxLen, Null, Faults

VARIABLES pool,
          gpu_block_table, gpu_ctx, gpu_kv, device_table, device_cap, pc, scan, items, faults

gpuVars == <<gpu_block_table, gpu_ctx, gpu_kv, device_table, device_cap, pc, scan, items, faults>>

Gpu == INSTANCE GpuBlockManager WITH
           BlockSize <- GpuBlockSize, MaxLen <- GpuMaxLen,
           block_table <- gpu_block_table, ctx <- gpu_ctx, kv <- gpu_kv

ASSUME GpuAssumption == /\ Gpu!BlockSizeAssumption /\ Gpu!NullAssumption /\ Gpu!JunkAssumption
                        /\ GpuMaxLen \in 0..MaxLen /\ Faults \in Nat

\* A hash without collisions: the prefix itself.
IdealHash(p) == p

Symmetry == Permutations(Blocks) \cup Permutations(Seqs) \cup Permutations(Tokens)

PoolsInit == pool \in {"host", "device"} /\ Init /\ Gpu!Init

PoolsNext == /\ UNCHANGED pool
             /\ \/ pool = "host" /\ Next /\ UNCHANGED gpuVars
                \/ pool = "device" /\ Gpu!Next /\ UNCHANGED vars

PoolsSpec == PoolsInit /\ [][PoolsNext]_<<vars, gpuVars, pool>>

\* The type invariant of each pool.
PoolsTypeOK == TypeOK /\ Gpu!TypeOK

\* What kernels gather for an item through the scratch table is its own context.
SeenIsOwnContext == Gpu!SeenIsOwnContext

\* Each pool implements a private store of rows per sequence.
EachStore ==
    INSTANCE KVStore WITH
        rows <- [s \in Seqs |-> IF pool = "host" THEN Gather(s, Len(ctx[s]))
                                ELSE Gpu!Rows(gpu_block_table[s], Len(gpu_ctx[s]))]
PoolsImplementStore == EachStore!Spec
=============================================================================
