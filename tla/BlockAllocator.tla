--------------------------- MODULE BlockAllocator ---------------------------
(***************************************************************************)
(* The block allocator of include/engine/block_allocator.hpp: a fixed pool *)
(* of physical KV blocks, a LIFO free list of block ids and a reference    *)
(* count per block.  A call the code answers with an exception (allocate   *)
(* on an empty pool, incref or free of a free block) changes nothing, so   *)
(* it is the absence of a step.                                            *)
(***************************************************************************)
EXTENDS Integers, Sequences

CONSTANTS NumBlocks,  \* num_blocks of the constructor
          MaxRef      \* bound: references to one block never exceed it

ASSUME NumBlocksAssumption == NumBlocks \in Nat
ASSUME MaxRefAssumption == MaxRef \in Nat \ {0}

VARIABLES free_list,  \* std::vector<int64_t>: its back is the next block handed out
          ref_count   \* ref_count[b]: live references to block b

vars == <<free_list, ref_count>>

Blocks == 0..(NumBlocks - 1)

InFreeList(b) == \E i \in 1..Len(free_list) : free_list[i] = b

Init == /\ free_list = [i \in 1..NumBlocks |-> NumBlocks - i]
        /\ ref_count = [b \in Blocks |-> 0]

\* Mutant of Allocate: reads the back of the list and pops the front.
AllocateWrongEnd ==
    /\ free_list # <<>>
    /\ free_list' = SubSeq(free_list, 2, Len(free_list))
    /\ ref_count' = [ref_count EXCEPT ![free_list[Len(free_list)]] = 1]

\* allocate(): the block at the back of the free list, with one reference.
Allocate ==
    /\ free_list # <<>>
    /\ free_list' = SubSeq(free_list, 1, Len(free_list) - 1)
    /\ ref_count' = [ref_count EXCEPT ![free_list[Len(free_list)]] = 1]

\* incref(): one more reference to a live block.
Incref(b) ==
    /\ ref_count[b] \in 1..(MaxRef - 1)
    /\ ref_count' = [ref_count EXCEPT ![b] = @ + 1]
    /\ UNCHANGED free_list

\* Mutant of Free: returns the block while one reference is left.
FreeEarly(b) ==
    /\ ref_count[b] > 0
    /\ ref_count' = [ref_count EXCEPT ![b] = @ - 1]
    /\ free_list' = IF ref_count[b] = 2 THEN Append(free_list, b) ELSE free_list

\* free(): one reference less; the last one pushes the block on the free list.
Free(b) ==
    /\ ref_count[b] > 0
    /\ ref_count' = [ref_count EXCEPT ![b] = @ - 1]
    /\ free_list' = IF ref_count[b] = 1 THEN Append(free_list, b) ELSE free_list

Next == Allocate \/ \E b \in Blocks : Incref(b) \/ Free(b)

Spec == Init /\ [][Next]_vars

-----------------------------------------------------------------------------
(* Properties *)

\* Type invariant: the free list holds block ids, the counts stay in range.
TypeOK == /\ free_list \in Seq(Blocks)
          /\ ref_count \in [Blocks -> 0..MaxRef]

\* The free list names every block without a reference exactly once, and no
\* other block: a block is neither leaked (count zero, in no list) nor in the
\* list while somebody still reads it, nor handed out twice.
FreeListExact ==
    /\ \A b \in Blocks : InFreeList(b) <=> ref_count[b] = 0
    /\ \A i, j \in 1..Len(free_list) : free_list[i] = free_list[j] => i = j

\* The allocator keeps the promise of a reference-counted pool: allocate never
\* returns a block that somebody holds.
Pool == INSTANCE BlockPool WITH holders <- ref_count
ImplementsPool == Pool!Spec
=============================================================================
