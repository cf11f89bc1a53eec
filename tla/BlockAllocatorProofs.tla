------------------------ MODULE BlockAllocatorProofs ------------------------
(***************************************************************************)
(* Proofs about BlockAllocator, and about PagedKVCache, the cache of one   *)
(* sequence that takes its blocks from it; for every pool, reference bound,*)
(* number of layers and block size.                                        *)
(*                                                                         *)
(* The allocator: TypeOK /\ FreeListExact is inductive as it stands: the   *)
(* guard of each operation says which half of the pool its block is in, and*)
(* FreeListExact is what makes pushing it (it was in no list) or popping it*)
(* (it was there once) keep the two halves apart.                          *)
(*                                                                         *)
(* The cache: every row of a layer is the row of everything fed so far     *)
(* (RowsOfWhole), because no two rows share a place (Owned) and the table  *)
(* covers them (Covered); so attention changes no hidden state             *)
(* (HiddenOfWhole).  Only the first layer of a forward can find the table  *)
(* short, so an append that runs out of blocks leaves all layers alike.    *)
(***************************************************************************)
EXTENDS PagedKVCache, SequenceTheorems, TLAPS

Inv == TypeOK /\ FreeListExact

\* The constructor's free list names every block once: n - 1 down to 0.
LEMMA InitInv == Init => Inv
  <1> SUFFICES ASSUME Init PROVE Inv
    OBVIOUS
  <1> USE NumBlocksAssumption, MaxRefAssumption
  <1>1. TypeOK
    BY DEF Init, TypeOK, Blocks
  <1>2. Len(free_list) = NumBlocks /\ \A i \in 1..NumBlocks : free_list[i] = NumBlocks - i
    BY DEF Init
  <1>3. ASSUME NEW b \in Blocks PROVE InFreeList(b) /\ ref_count[b] = 0
    <2>1. NumBlocks - b \in 1..NumBlocks /\ free_list[NumBlocks - b] = b
      BY <1>2 DEF Blocks
    <2>2. QED
      BY <2>1, <1>2 DEF InFreeList, Init
  <1>4. \A i, j \in 1..Len(free_list) : free_list[i] = free_list[j] => i = j
    BY <1>2
  <1>5. QED
    BY <1>1, <1>3, <1>4 DEF Inv, FreeListExact

\* allocate() moves the block at the back of the list to the referenced half.
LEMMA AllocateInv == Inv /\ Allocate => Inv'
  <1> SUFFICES ASSUME Inv, Allocate PROVE Inv'
    OBVIOUS
  <1> USE NumBlocksAssumption, MaxRefAssumption
  <1> DEFINE n == Len(free_list)
             top == free_list[n]
  <1>1. n \in Nat /\ n > 0 /\ top \in Blocks /\ free_list \in Seq(Blocks)
    BY DEF Inv, TypeOK, Allocate
  <1>2. /\ Len(free_list') = n - 1
        /\ \A i \in 1..(n - 1) : free_list'[i] = free_list[i]
        /\ free_list' \in Seq(Blocks)
    <2> HIDE DEF n, top
    <2>1. n = Len(free_list)
      BY DEF n
    <2>2. free_list' = SubSeq(free_list, 1, n - 1)
      BY <2>1 DEF Allocate
    <2>3. free_list' = [i \in 1..(n - 1) |-> free_list[i]]
      BY <1>1, <2>1, <2>2
    <2>4. \A i \in 1..(n - 1) : free_list[i] \in Blocks
      BY <1>1, <2>1
    <2>5. QED
      BY <1>1, <2>3, <2>4
  <1>3. \A b \in Blocks : ref_count'[b] = IF b = top THEN 1 ELSE ref_count[b]
    BY DEF Inv, TypeOK, Allocate
  <1>4. TypeOK'
    <2>1. ref_count' \in [Blocks -> 0..MaxRef]
      BY <1>1 DEF Inv, TypeOK, Allocate
    <2>2. QED
      BY <1>2, <2>1 DEF TypeOK
  <1>5. \A i, j \in 1..n : free_list[i] = free_list[j] => i = j
    BY DEF Inv, FreeListExact
  <1>6. \A i, j \in 1..Len(free_list') : free_list'[i] = free_list'[j] => i = j
    BY <1>1, <1>2, <1>5
  <1>7. ASSUME NEW b \in Blocks PROVE InFreeList(b)' <=> ref_count'[b] = 0
    <2>1. InFreeList(b)' <=> \E i \in 1..(n - 1) : free_list[i] = b
      BY <1>2 DEF InFreeList
    <2>2. CASE b = top
      <3>1. ~ InFreeList(b)'
        BY <2>1, <2>2, <1>1, <1>5
      <3>2. QED
        BY <3>1, <2>2, <1>3
    <2>3. CASE b # top
      <3>1. InFreeList(b)' <=> InFreeList(b)
        BY <2>1, <2>3, <1>1 DEF InFreeList
      <3>2. QED
        BY <3>1, <2>3, <1>3 DEF Inv, FreeListExact
    <2>4. QED
      BY <2>2, <2>3
  <1>8. QED
    BY <1>4, <1>6, <1>7 DEF Inv, FreeListExact, Blocks

\* incref() keeps a referenced block referenced, and the list alone.
LEMMA IncrefInv == ASSUME NEW b \in Blocks PROVE Inv /\ Incref(b) => Inv'
  BY MaxRefAssumption DEF Inv, TypeOK, FreeListExact, InFreeList, Incref, Blocks

\* free() pushes a block that is in no list exactly when its last reference goes.
LEMMA FreeInv == ASSUME NEW b \in Blocks PROVE Inv /\ Free(b) => Inv'
  <1> SUFFICES ASSUME Inv, Free(b) PROVE Inv'
    OBVIOUS
  <1> USE NumBlocksAssumption, MaxRefAssumption
  <1> DEFINE n == Len(free_list)
  <1>1. /\ n \in Nat /\ free_list \in Seq(Blocks)
        /\ ref_count \in [Blocks -> 0..MaxRef] /\ ref_count[b] > 0
        /\ ~ InFreeList(b)
        /\ \A i, j \in 1..n : free_list[i] = free_list[j] => i = j
    BY DEF Inv, TypeOK, FreeListExact, Free
  <1>2. /\ ref_count' \in [Blocks -> 0..MaxRef]
        /\ \A c \in Blocks : ref_count'[c] = IF c = b THEN ref_count[b] - 1 ELSE ref_count[c]
    BY <1>1 DEF Free
  <1>3. CASE ref_count[b] = 1
    <2>1. /\ free_list' = Append(free_list, b)
          /\ Len(free_list') = n + 1
          /\ \A i \in 1..n : free_list'[i] = free_list[i]
          /\ free_list'[n + 1] = b
          /\ free_list' \in Seq(Blocks)
      BY <1>1, <1>3 DEF Free
    <2>2. \A c \in Blocks : InFreeList(c)' <=> InFreeList(c) \/ c = b
      BY <1>1, <2>1 DEF InFreeList
    <2>3. \A i, j \in 1..Len(free_list') : free_list'[i] = free_list'[j] => i = j
      <3> SUFFICES ASSUME NEW i \in 1..(n + 1), NEW j \in 1..(n + 1),
                          free_list'[i] = free_list'[j]
                   PROVE  i = j
        BY <2>1
      <3>1. CASE i = n + 1 /\ j = n + 1
        BY <3>1
      <3>2. CASE i \in 1..n /\ j \in 1..n
        BY <3>2, <1>1, <2>1
      <3>3. CASE i = n + 1 /\ j \in 1..n
        BY <3>3, <1>1, <2>1 DEF InFreeList
      <3>4. CASE i \in 1..n /\ j = n + 1
        BY <3>4, <1>1, <2>1 DEF InFreeList
      <3>5. QED
        BY <1>1, <3>1, <3>2, <3>3, <3>4
    <2>4. \A c \in Blocks : InFreeList(c)' <=> ref_count'[c] = 0
      BY <1>1, <1>2, <1>3, <2>2 DEF Inv, FreeListExact
    <2>5. QED
      BY <1>2, <2>1, <2>3, <2>4 DEF Inv, TypeOK, FreeListExact, Blocks
  <1>4. CASE ref_count[b] # 1
    <2>1. free_list' = free_list
      BY <1>4 DEF Free
    <2>2. \A c \in Blocks : InFreeList(c)' <=> ref_count'[c] = 0
      BY <1>1, <1>2, <1>4, <2>1 DEF Inv, FreeListExact, InFreeList
    <2>3. QED
      BY <1>1, <1>2, <2>1, <2>2 DEF Inv, TypeOK, FreeListExact, Blocks
  <1>5. QED
    BY <1>3, <1>4

\* TypeOK holds in every reachable state of the allocator, and so does
\* FreeListExact: allocate, incref and free never leak a block, list it twice
\* or list one that is still referenced.
THEOREM AllocatorSafe == Spec => [](TypeOK /\ FreeListExact)
  <1>1. Inv /\ [Next]_vars => Inv'
    <2> SUFFICES ASSUME Inv, [Next]_vars PROVE Inv'
      OBVIOUS
    <2>1. CASE Allocate
      BY <2>1, AllocateInv
    <2>2. ASSUME NEW b \in Blocks, Incref(b) PROVE Inv'
      BY <2>2, IncrefInv
    <2>3. ASSUME NEW b \in Blocks, Free(b) PROVE Inv'
      BY <2>3, FreeInv
    <2>4. CASE UNCHANGED vars
      BY <2>4 DEF Inv, TypeOK, FreeListExact, InFreeList, Blocks, vars
    <2>5. QED
      BY <2>1, <2>2, <2>3, <2>4 DEF Next
  <1>2. Inv <=> TypeOK /\ FreeListExact
    BY DEF Inv
  <1>3. QED
    BY InitInv, <1>1, <1>2, PTL DEF Spec

\* The LIFO allocator implements the abstract pool: a block is handed out only
\* when nobody holds it, so no two callers of allocate() ever own one block.
THEOREM AllocatorImplementsPool == Spec => ImplementsPool
  <1> USE NumBlocksAssumption, MaxRefAssumption
  <1>1. Init => Pool!Init
    BY DEF Init, Pool!Init
  <1>2. ASSUME Inv, [Next]_vars PROVE [Pool!Next]_ref_count
    <2>1. CASE Allocate
      <3> DEFINE top == free_list[Len(free_list)]
      <3>1. top \in Blocks /\ InFreeList(top)
        BY <1>2, <2>1 DEF Inv, TypeOK, InFreeList, Allocate
      <3>2. Pool!HandOut(top)
        BY <1>2, <2>1, <3>1 DEF Inv, FreeListExact, Allocate, Pool!HandOut
      <3>3. QED
        BY <3>1, <3>2 DEF Pool!Next
    <2>2. ASSUME NEW b \in Blocks, Incref(b) PROVE Pool!Next
      BY <2>2 DEF Incref, Pool!Next, Pool!Share
    <2>3. ASSUME NEW b \in Blocks, Free(b) PROVE Pool!Next
      BY <2>3 DEF Free, Pool!Next, Pool!Drop
    <2>4. CASE UNCHANGED vars
      BY <2>4 DEF vars
    <2>5. QED
      BY <1>2, <2>1, <2>2, <2>3, <2>4 DEF Next
  <1>3. Spec => []Inv
    BY AllocatorSafe, PTL DEF Inv
  <1>4. QED
    BY <1>1, <1>2, <1>3, PTL DEF Spec, ImplementsPool, Pool!Spec

-----------------------------------------------------------------------------
(* The paged cache: rows, blocks and tables. *)

\* Products with the block size are ordered as their factors.
LEMMA Scale ==
  ASSUME NEW a \in Int, NEW b \in Int
  PROVE  /\ a * BlockSize \in Int
         /\ a <= b <=> a * BlockSize <= b * BlockSize
         /\ a < b <=> a * BlockSize + BlockSize <= b * BlockSize
         /\ (a + 1) * BlockSize = a * BlockSize + BlockSize
         /\ (a - 1) * BlockSize = a * BlockSize - BlockSize
  <1>1. BlockSize \in Int /\ BlockSize > 0
    BY BlockSizeAssumption
  <1>2. /\ (a + 1) * BlockSize = a * BlockSize + BlockSize
        /\ (a - 1) * BlockSize = a * BlockSize - BlockSize /\ a * BlockSize \in Int
    BY <1>1
  <1>3. ASSUME NEW x \in Int, NEW y \in Int, x <= y PROVE x * BlockSize <= y * BlockSize
    BY <1>1, <1>3
  <1>4. ASSUME a < b PROVE a * BlockSize + BlockSize <= b * BlockSize
    <2>1. a + 1 \in Int /\ a + 1 <= b
      BY <1>4
    <2>2. (a + 1) * BlockSize <= b * BlockSize
      BY <1>3, <2>1
    <2>3. QED
      BY <1>2, <2>2
  <1>5. ASSUME ~ (a < b) PROVE b * BlockSize <= a * BlockSize
    <2>1. b <= a
      BY <1>5
    <2>2. QED
      BY <1>3, <2>1
  <1>6. ASSUME ~ (a <= b) PROVE b * BlockSize + BlockSize <= a * BlockSize
    <2>1. b + 1 \in Int /\ b + 1 <= a
      BY <1>6
    <2>2. (b + 1) * BlockSize <= a * BlockSize
      BY <1>3, <2>1
    <2>3. (b + 1) * BlockSize = b * BlockSize + BlockSize
      BY <1>1
    <2>4. QED
      BY <2>2, <2>3
  <1>7. a * BlockSize \in Int /\ b * BlockSize \in Int
    BY <1>1
  <1>8. a <= b <=> a * BlockSize <= b * BlockSize
    BY <1>1, <1>3, <1>6, <1>7
  <1>9. a < b <=> a * BlockSize + BlockSize <= b * BlockSize
    BY <1>1, <1>4, <1>5, <1>7
  <1>10. QED
    BY <1>2, <1>8, <1>9

\* A row is in the block and at the slot it is looked up at.
LEMMA Position ==
  ASSUME NEW r \in Nat \ {0}
  PROVE  /\ BlockOf(r) \in Nat \ {0} /\ SlotOf(r) \in 1..BlockSize
         /\ r = (BlockOf(r) - 1) * BlockSize + SlotOf(r)
  <1>1. BlockSize \in Nat /\ BlockSize > 0 /\ r - 1 \in Nat
    BY BlockSizeAssumption
  <1> DEFINE d == (r - 1) \div BlockSize
             m == (r - 1) % BlockSize
  <1>2. d \in Nat /\ m \in 0..(BlockSize - 1) /\ r - 1 = BlockSize * d + m
    BY <1>1
  <1>3. BlockOf(r) = d + 1 /\ SlotOf(r) = m + 1
    BY DEF BlockOf, SlotOf
  <1> HIDE DEF d, m
  <1>4. BlockSize * d = d * BlockSize /\ BlockSize * d \in Nat
    BY <1>1, <1>2
  <1>5. QED
    BY <1>1, <1>2, <1>3, <1>4

\* A table of k blocks covers n rows when their blocks are at most k.
LEMMA Covers ==
  ASSUME NEW n \in Nat, NEW k \in Nat
  PROVE  Needed(n) \in Nat /\ (Needed(n) <= k <=> n <= k * BlockSize)
  <1>1. BlockSize \in Nat /\ BlockSize > 0 /\ n + BlockSize - 1 \in Nat
    BY BlockSizeAssumption
  <1>2. PICK d, m : /\ d = (n + BlockSize - 1) \div BlockSize /\ m = (n + BlockSize - 1) % BlockSize
    OBVIOUS
  <1>3. d \in Nat /\ m \in 0..(BlockSize - 1) /\ n + BlockSize - 1 = BlockSize * d + m
    BY <1>1, <1>2
  <1>4. BlockSize * d = d * BlockSize /\ d * BlockSize \in Nat /\ k * BlockSize \in Nat
    BY <1>1, <1>3
  <1>5. d <= k <=> d * BlockSize <= k * BlockSize
    BY <1>3, Scale
  <1>6. k < d <=> k * BlockSize + BlockSize <= d * BlockSize
    <2>1. k \in Int /\ d \in Int
      BY <1>3
    <2>2. QED
      BY <2>1, Scale, Zenon
  <1>7. d <= k <=> n <= k * BlockSize
    BY <1>1, <1>3, <1>4, <1>5, <1>6
  <1>8. QED
    BY <1>2, <1>3, <1>7 DEF Needed

\* The block of row r is among those a prefix of rows needs exactly if r is.
LEMMA RowInTable ==
  ASSUME NEW r \in Nat \ {0}, NEW k \in Nat
  PROVE  r <= k * BlockSize <=> BlockOf(r) <= k
  <1>1. PICK b, t : b = BlockOf(r) /\ t = SlotOf(r)
    OBVIOUS
  <1>2. /\ b \in Nat \ {0} /\ t \in 1..BlockSize /\ r = (b - 1) * BlockSize + t
        /\ BlockSize \in Nat /\ BlockSize > 0
    BY <1>1, Position, BlockSizeAssumption
  <1>3. /\ b <= k <=> b * BlockSize <= k * BlockSize
        /\ k < b <=> k * BlockSize + BlockSize <= b * BlockSize
        /\ (b - 1) * BlockSize = b * BlockSize - BlockSize
        /\ b * BlockSize \in Int /\ k * BlockSize \in Int
    BY <1>2, Scale
  <1>4. QED
    BY <1>1, <1>2, <1>3

\* No two rows share a place.
LEMMA OnePlace ==
  ASSUME NEW r \in Nat \ {0}, NEW t \in Nat \ {0}, BlockOf(r) = BlockOf(t), SlotOf(r) = SlotOf(t)
  PROVE  r = t
  <1>1. PICK b, i : b = BlockOf(r) /\ i = SlotOf(r)
    OBVIOUS
  <1>2. r = (b - 1) * BlockSize + i /\ t = (b - 1) * BlockSize + i
    BY <1>1, Position, Zenon
  <1>3. QED
    BY <1>2

\* More rows need no fewer blocks, and the last of the blocks is needed.
LEMMA NeededGrows ==
  ASSUME NEW m \in Nat, NEW n \in Nat, m <= n
  PROVE  Needed(m) <= Needed(n)
  <1>1. PICK k, q : k = Needed(n) /\ q = Needed(m)
    OBVIOUS
  <1>2. k \in Nat /\ q \in Nat
    BY <1>1, Covers
  <1>3. n <= k * BlockSize
    BY <1>1, <1>2, Covers
  <1>4. k * BlockSize \in Int
    BY <1>2, Scale
  <1>5. m <= k * BlockSize
    BY <1>3, <1>4
  <1>6. Needed(m) <= k
    BY <1>2, <1>5, Covers
  <1>7. QED
    BY <1>1, <1>6

LEMMA NeededIsTight ==
  ASSUME NEW n \in Nat
  PROVE  Needed(n) * BlockSize \in n..(n + BlockSize - 1)
  <1>1. PICK k : k = Needed(n)
    OBVIOUS
  <1>2. k \in Nat /\ n <= k * BlockSize
    BY <1>1, Covers
  <1>3. BlockSize \in Nat /\ BlockSize > 0 /\ k * BlockSize \in Int
    BY <1>2, BlockSizeAssumption, Scale
  <1>4. k * BlockSize < n + BlockSize
    <2>1. CASE k = 0
      BY <2>1, <1>3
    <2>2. CASE k # 0
      <3>1. k - 1 \in Nat /\ ~ (Needed(n) <= k - 1)
        BY <1>1, <1>2, <2>2
      <3>2. ~ (n <= (k - 1) * BlockSize)
        BY <3>1, Covers
      <3>3. (k - 1) * BlockSize = k * BlockSize - BlockSize
        BY <1>2, Scale
      <3>4. QED
        BY <1>3, <3>2, <3>3
    <2>3. QED
      BY <2>1, <2>2
  <1>5. QED
    BY <1>1, <1>2, <1>3, <1>4

\* The first tokens of the first tokens, and of a context that was appended to.
LEMMA PrefixTwice ==
  ASSUME NEW T, NEW c \in Seq(T), NEW n \in 0..Len(c), NEW m \in 0..n
  PROVE  SubSeq(SubSeq(c, 1, n), 1, m) = SubSeq(c, 1, m)
  <1>1. Len(c) \in Nat
    OBVIOUS
  <1>2. /\ SubSeq(c, 1, n) \in Seq(T) /\ Len(SubSeq(c, 1, n)) = n
        /\ \A i \in 1..n : SubSeq(c, 1, n)[i] = c[i]
    BY <1>1
  <1>3. /\ SubSeq(c, 1, m) \in Seq(T) /\ Len(SubSeq(c, 1, m)) = m
        /\ \A i \in 1..m : SubSeq(c, 1, m)[i] = c[i]
    BY <1>1
  <1>4. PICK d : d = SubSeq(c, 1, n)
    OBVIOUS
  <1>5. /\ SubSeq(d, 1, m) \in Seq(T) /\ Len(SubSeq(d, 1, m)) = m
        /\ \A i \in 1..m : SubSeq(d, 1, m)[i] = d[i]
    BY <1>1, <1>2, <1>4
  <1>6. \A i \in 1..m : SubSeq(d, 1, m)[i] = SubSeq(c, 1, m)[i]
    BY <1>2, <1>3, <1>4, <1>5
  <1>7. QED
    BY <1>3, <1>4, <1>5, <1>6, SeqEqual

LEMMA PrefixWithin ==
  ASSUME NEW T, NEW p \in Seq(T), NEW t \in Seq(T), NEW i \in 0..Len(p)
  PROVE  SubSeq(p \o t, 1, i) = SubSeq(p, 1, i)
  <1>1. Len(p) \in Nat /\ Len(t) \in Nat
    OBVIOUS
  <1>2. PICK c : c = p \o t
    OBVIOUS
  <1>3. c \in Seq(T) /\ Len(c) = Len(p) + Len(t) /\ \A k \in 1..Len(p) : c[k] = p[k]
    BY <1>1, <1>2
  <1>4. /\ SubSeq(p, 1, i) \in Seq(T) /\ Len(SubSeq(p, 1, i)) = i
        /\ \A k \in 1..i : SubSeq(p, 1, i)[k] = p[k]
    BY <1>1
  <1>5. /\ SubSeq(c, 1, i) \in Seq(T) /\ Len(SubSeq(c, 1, i)) = i
        /\ \A k \in 1..i : SubSeq(c, 1, i)[k] = c[k]
    BY <1>1, <1>3
  <1>6. \A k \in 1..i : SubSeq(c, 1, i)[k] = SubSeq(p, 1, i)[k]
    BY <1>1, <1>3, <1>4, <1>5
  <1>7. QED
    BY <1>2, <1>4, <1>5, <1>6, SeqEqual

LEMMA PrefixBeyond ==
  ASSUME NEW T, NEW p \in Seq(T), NEW t \in Seq(T), NEW i \in 0..Len(t)
  PROVE  SubSeq(p \o t, 1, Len(p) + i) = p \o SubSeq(t, 1, i)
  <1>1. Len(p) \in Nat /\ Len(t) \in Nat
    OBVIOUS
  <1>2. PICK c : c = p \o t
    OBVIOUS
  <1>3. /\ c \in Seq(T) /\ Len(c) = Len(p) + Len(t)
        /\ \A k \in 1..Len(p) : c[k] = p[k]
        /\ \A k \in 1..Len(t) : c[Len(p) + k] = t[k]
    BY <1>1, <1>2
  <1>4. PICK a, b : a = SubSeq(c, 1, Len(p) + i) /\ b = p \o SubSeq(t, 1, i)
    OBVIOUS
  <1>5. /\ a \in Seq(T) /\ Len(a) = Len(p) + i
        /\ \A k \in 1..(Len(p) + i) : a[k] = c[k]
    BY <1>1, <1>3, <1>4
  <1>6. /\ SubSeq(t, 1, i) \in Seq(T) /\ Len(SubSeq(t, 1, i)) = i
        /\ \A k \in 1..i : SubSeq(t, 1, i)[k] = t[k]
    BY <1>1
  <1>7. /\ b \in Seq(T) /\ Len(b) = Len(p) + i
        /\ \A k \in 1..Len(p) : b[k] = p[k]
        /\ \A k \in 1..i : b[Len(p) + k] = t[k]
    BY <1>1, <1>4, <1>6
  <1>8. ASSUME NEW k \in 1..(Len(p) + i) PROVE a[k] = b[k]
    <2>1. CASE k <= Len(p)
      BY <1>1, <1>3, <1>5, <1>7, <2>1
    <2>2. CASE ~ (k <= Len(p))
      <3>1. PICK l \in 1..i : k = Len(p) + l
        <4>1. k - Len(p) \in 1..i /\ k = Len(p) + (k - Len(p))
          BY <1>1, <2>2
        <4>2. QED
          BY <4>1
      <3>2. l \in 1..Len(t)
        BY <1>1
      <3>3. QED
        BY <1>3, <1>5, <1>7, <3>1, <3>2
    <2>3. QED
      BY <2>1, <2>2
  <1>9. a = b
    BY <1>5, <1>7, <1>8, SeqEqual
  <1>10. QED
    BY <1>2, <1>4, <1>9

-----------------------------------------------------------------------------
(* What the cache keeps. *)

\* Everything fed to the cache, the running forward included.
Whole == ctx \o ids

\* What layer l keeps as its row r.
Row(l, r) == store[l][block_table[BlockOf(r)]][SlotOf(r)]

CacheShape ==
    /\ block_table \in Seq(Blocks) /\ layer \in 0..(NumLayers + 1)
    /\ ctx \in Seq(Tokens) /\ ids \in Seq(Tokens) /\ length = Len(ctx)
    /\ DOMAIN store = 1..NumLayers /\ DOMAIN filled = 1..NumLayers
    /\ layer = 0 => ids = <<>>

\* The table holds what the pool gave out, once.
Owned ==
    /\ \A i, j \in DOMAIN block_table : block_table[i] = block_table[j] => i = j
    /\ \A b \in Blocks : ref_count[b] = IF \E k \in DOMAIN block_table : block_table[k] = b
                                        THEN 1 ELSE 0
    /\ Len(block_table) + Len(free_list) = NumBlocks

\* The layers behind the current one have the rows of the running forward, too,
\* and the table has room for them.
Fills == \A l \in 1..NumLayers : filled[l] = IF l < layer THEN length + Len(ids) ELSE length
Covered == Needed(IF layer > 1 THEN length + Len(ids) ELSE length) <= Len(block_table)

\* The table grows no further than the running forward needs; only a pool that ran
\* out leaves more in it than the rows that were kept.
Tight == free_list # <<>> => Len(block_table) <= Needed(length + Len(ids))

RowsOfWhole == \A l \in 1..NumLayers : \A r \in 1..filled[l] : Row(l, r) = SubSeq(Whole, 1, r)

HiddenOfWhole ==
    layer # 0 => hidden = [i \in 1..Len(ids) |-> SubSeq(Whole, 1, length + i)]

Growing == Owned /\ Fills /\ Covered /\ Tight

CacheInv == Inv /\ CacheShape /\ Growing /\ RowsOfWhole /\ HiddenOfWhole

\* A row that the table covers has a place in it.
LEMMA RowPlace ==
  ASSUME CacheShape, NEW n \in Nat, Needed(n) <= Len(block_table), NEW r \in 1..n
  PROVE  /\ BlockOf(r) \in DOMAIN block_table /\ block_table[BlockOf(r)] \in Blocks
         /\ SlotOf(r) \in 1..BlockSize
  <1>1. block_table \in Seq(Blocks) /\ DOMAIN block_table = 1..Len(block_table)
        /\ Len(block_table) \in Nat
    BY DEF CacheShape
  <1>2. PICK k : k = Len(block_table)
    OBVIOUS
  <1>3. k \in Nat /\ Needed(n) <= k
    BY <1>1, <1>2, Zenon
  <1>4. n <= k * BlockSize /\ k * BlockSize \in Int
    BY <1>3, Covers, Scale
  <1>5. r \in Nat \ {0} /\ r <= k * BlockSize
    BY <1>4
  <1>6. BlockOf(r) <= k /\ BlockOf(r) \in Nat \ {0} /\ SlotOf(r) \in 1..BlockSize
    BY <1>3, <1>5, RowInTable, Position
  <1>7. BlockOf(r) \in 1..k
    BY <1>3, <1>6
  <1>8. BlockOf(r) \in DOMAIN block_table
    BY <1>1, <1>2, <1>7, Zenon
  <1>9. QED
    BY <1>1, <1>6, <1>8

\* The rows of a layer, all of which have a place.
LEMMA FilledRows ==
  ASSUME CacheShape, Fills, Covered, NEW l \in 1..NumLayers
  PROVE  /\ filled[l] \in Nat /\ Needed(filled[l]) <= Len(block_table)
         /\ Len(ids) \in Nat /\ length \in Nat /\ length <= filled[l]
         /\ filled[l] <= length + Len(ids)
  <1>1. ctx \in Seq(Tokens) /\ ids \in Seq(Tokens) /\ length = Len(ctx) /\ layer \in Int
    BY NumLayersAssumption DEF CacheShape
  <1>2. Len(ids) \in Nat /\ length \in Nat
    BY <1>1, LenProperties
  <1>3. PICK n, m, k : n = Len(ids) /\ m = length /\ k = Len(block_table)
    OBVIOUS
  <1>4. n \in Nat /\ m \in Nat /\ k \in Nat
    <2>1. block_table \in Seq(Blocks)
      BY DEF CacheShape
    <2>2. QED
      BY <1>2, <1>3, <2>1, LenProperties
  <1>5. filled[l] = IF l < layer THEN m + n ELSE m
    BY <1>3 DEF Fills
  <1>6. Needed(IF layer > 1 THEN m + n ELSE m) <= k
    BY <1>3, Zenon DEF Covered
  <1>7. Needed(m) <= Needed(m + n) /\ Needed(m) \in Int /\ Needed(m + n) \in Int
    <2>1. m + n \in Nat /\ m <= m + n
      BY <1>4
    <2>2. QED
      BY <1>4, <2>1, NeededGrows, Covers
  <1>8. l \in Int /\ l > 0
    BY NumLayersAssumption
  <1>9. filled[l] \in Nat /\ m <= filled[l] /\ filled[l] <= m + n
    BY <1>4, <1>5
  <1>10. Needed(filled[l]) <= k
    <2>1. CASE l < layer
      <3>1. layer > 1
        BY <1>1, <1>8, <2>1
      <3>2. QED
        BY <1>5, <1>6, <2>1, <3>1
    <2>2. CASE ~ (l < layer)
      <3>1. filled[l] = m
        BY <1>5, <2>2
      <3>2. CASE layer > 1
        <4>1. Needed(m + n) <= k
          BY <1>6, <3>2
        <4>2. QED
          BY <1>4, <1>7, <3>1, <4>1
      <3>3. CASE ~ (layer > 1)
        BY <1>6, <3>1, <3>3
      <3>4. QED
        BY <3>2, <3>3
    <2>3. QED
      BY <2>1, <2>2
  <1>11. QED
    BY <1>2, <1>3, <1>9, <1>10, Zenon

LEMMA CacheInit == PagedInit => CacheInv
  <1> SUFFICES ASSUME PagedInit PROVE CacheInv
    OBVIOUS
  <1>1. Inv
    BY InitInv DEF PagedInit
  <1>2. CacheShape
    BY NumLayersAssumption DEF PagedInit, CacheShape
  <1>3. Len(free_list) = NumBlocks /\ ref_count = [b \in Blocks |-> 0] /\ block_table = <<>>
    BY NumBlocksAssumption DEF PagedInit, Init
  <1>4. Owned
    <2>1. DOMAIN block_table = {} /\ Len(block_table) = 0
      BY <1>3
    <2>2. QED
      BY <1>3, <2>1, NumBlocksAssumption DEF Owned
  <1>5. length = 0 /\ Len(ids) = 0 /\ layer = 0 /\ Len(block_table) = 0
    BY DEF PagedInit
  <1>6. Needed(0) = 0
    <2>1. Needed(0) <= 0 /\ Needed(0) \in Nat
      <3>1. 0 \in Nat /\ 0 <= 0 * BlockSize
        BY BlockSizeAssumption
      <3>2. QED
        BY <3>1, Covers
    <2>2. QED
      BY <2>1
  <1>7. Fills /\ Covered /\ Tight
    <2>1. Fills
      BY <1>5, NumLayersAssumption DEF Fills, PagedInit
    <2>2. Covered
      BY <1>5, <1>6 DEF Covered
    <2>3. Tight
      BY <1>5, <1>6 DEF Tight
    <2>4. QED
      BY <2>1, <2>2, <2>3
  <1>8. RowsOfWhole
    BY DEF PagedInit, RowsOfWhole
  <1>9. QED
    BY <1>1, <1>2, <1>4, <1>5, <1>7, <1>8 DEF CacheInv, Growing, HiddenOfWhole

-----------------------------------------------------------------------------
(* The steps of a cached forward. *)

LEMMA SamePool == Inv /\ UNCHANGED vars => Inv'
  BY DEF Inv, TypeOK, FreeListExact, InFreeList, Blocks, vars

LEMMA ContextIsSeq == ASSUME NEW c \in Cache!Contexts PROVE c \in Seq(Tokens)
  BY DEF Cache!Contexts

\* A forward starts with the rows that are there, and embeds what follows them.
LEMMA BeginInv == ASSUME CacheInv, NEW toks \in Cache!Contexts, Begin(toks) PROVE CacheInv'
  <1>1. /\ UNCHANGED vars /\ block_table' = block_table /\ store' = store /\ filled' = filled
        /\ ids' = toks /\ layer' = 1 /\ length' = length /\ ctx' = ctx
        /\ layer = 0 /\ hidden' = Cache!Embedded(toks)
    BY DEF Begin, Cache!Begin
  <1>2. /\ ctx \in Seq(Tokens) /\ toks \in Seq(Tokens) /\ length = Len(ctx) /\ ids = <<>>
        /\ Len(ctx) \in Nat /\ Len(toks) \in Nat /\ Len(ids) = 0
    <2>1. ctx \in Seq(Tokens) /\ toks \in Seq(Tokens) /\ length = Len(ctx) /\ ids = <<>>
      BY <1>1, ContextIsSeq DEF CacheInv, CacheShape
    <2>2. QED
      BY <2>1, LenProperties
  <1>3. Inv'
    BY <1>1, SamePool DEF CacheInv
  <1>4. CacheShape'
    BY <1>1, <1>2, NumLayersAssumption DEF CacheInv, CacheShape, Blocks
  <1>5. Owned'
    BY <1>1 DEF CacheInv, Growing, Owned, vars, Blocks
  <1>6. \A l \in 1..NumLayers : filled[l] = length
    BY <1>1, NumLayersAssumption DEF CacheInv, Growing, Fills
  <1>7. Fills'
    BY <1>1, <1>6, NumLayersAssumption DEF Fills
  <1>8. Covered'
    BY <1>1 DEF CacheInv, Growing, Covered, Needed
  <1>9. Tight'
    <2>1. PICK n, m, k : n = Len(toks) /\ m = length /\ k = Len(block_table)
      OBVIOUS
    <2>2. n \in Nat /\ m \in Nat /\ m + n \in Nat /\ m <= m + n
      BY <1>2, <2>1
    <2>3. Needed(m) <= Needed(m + n) /\ Needed(m) \in Int /\ Needed(m + n) \in Int
      BY <2>2, NeededGrows, Covers
    <2>4. k \in Int
      <3>1. block_table \in Seq(Blocks)
        BY DEF CacheInv, CacheShape
      <3>2. QED
        BY <2>1, <3>1, LenProperties
    <2>5. free_list # <<>> => k <= Needed(m)
      BY <1>2, <2>1 DEF CacheInv, Growing, Tight
    <2>6. free_list # <<>> => k <= Needed(m + n)
      BY <2>3, <2>4, <2>5
    <2>7. QED
      BY <1>1, <2>1, <2>6 DEF Tight, vars, Needed
  <1>10. RowsOfWhole'
    <2>1. Whole = ctx /\ Whole' = ctx \o toks
      BY <1>1, <1>2, ConcatProperties DEF Whole
    <2>2. ASSUME NEW l \in 1..NumLayers, NEW r \in 1..length
          PROVE  Row(l, r) = SubSeq(ctx \o toks, 1, r)
      <3>1. Row(l, r) = SubSeq(ctx, 1, r)
        BY <1>6, <2>1 DEF CacheInv, RowsOfWhole
      <3>2. r \in 0..Len(ctx)
        BY <1>2
      <3>3. QED
        BY <1>2, <3>1, <3>2, PrefixWithin
    <2>3. QED
      BY <1>1, <1>6, <2>1, <2>2 DEF RowsOfWhole, Row, BlockOf, SlotOf
  <1>11. HiddenOfWhole'
    <2>1. ASSUME NEW i \in 1..Len(toks)
          PROVE  ctx \o SubSeq(toks, 1, i) = SubSeq(ctx \o toks, 1, length + i)
      <3>1. i \in 0..Len(toks)
        BY <1>2
      <3>2. QED
        BY <1>2, <3>1, PrefixBeyond
    <2>2. hidden' = [i \in 1..Len(toks) |-> ctx \o SubSeq(toks, 1, i)]
      BY <1>1, <1>2 DEF Cache!Embedded
    <2>3. QED
      BY <1>1, <2>1, <2>2 DEF HiddenOfWhole, Whole
  <1>12. QED
    BY <1>3, <1>4, <1>5, <1>7, <1>8, <1>9, <1>10, <1>11 DEF CacheInv, Growing

\* What allocate() hands out was free, and one block less is.
LEMMA HandedOut ==
  ASSUME Inv, Allocate, NEW top, top = free_list[Len(free_list)]
  PROVE  /\ top \in Blocks /\ ref_count[top] = 0 /\ free_list # <<>>
         /\ \A b \in Blocks : ref_count'[b] = IF b = top THEN 1 ELSE ref_count[b]
         /\ Len(free_list) \in Nat /\ Len(free_list') = Len(free_list) - 1
  <1>1. free_list \in Seq(Blocks) /\ free_list # <<>>
    BY DEF Inv, TypeOK, Allocate
  <1>2. PICK n : n = Len(free_list) /\ n \in Nat \ {0}
    BY <1>1
  <1>3. top \in Blocks /\ InFreeList(top)
    BY <1>1, <1>2 DEF InFreeList
  <1>4. free_list' = SubSeq(free_list, 1, n - 1) /\ n - 1 \in 0..n
    BY <1>2 DEF Allocate
  <1>5. Len(free_list') = n - 1
    BY <1>1, <1>2, <1>4
  <1>6. QED
    BY <1>1, <1>2, <1>3, <1>5 DEF Inv, TypeOK, FreeListExact, Allocate

\* A block is taken only while the layer is short of one; no row moves.
LEMMA EnsureBlockInv == CacheInv /\ EnsureBlock => CacheInv'
  <1> SUFFICES ASSUME CacheInv, EnsureBlock PROVE CacheInv'
    OBVIOUS
  <1>1. PICK top, k, n, m, f : /\ top = free_list[Len(free_list)] /\ k = Len(block_table)
                               /\ n = Len(ids) /\ m = length /\ f = Len(free_list)
    OBVIOUS
  <1>2. /\ layer \in 1..NumLayers /\ Short /\ Allocate /\ block_table' = Append(block_table, top)
        /\ store' = store /\ filled' = filled
        /\ length' = length /\ ctx' = ctx /\ ids' = ids /\ hidden' = hidden /\ layer' = layer
    BY <1>1 DEF EnsureBlock, forwardVars
  <1>3. Inv /\ Inv'
    BY <1>2, AllocateInv DEF CacheInv
  <1>4. /\ top \in Blocks /\ ref_count[top] = 0 /\ free_list # <<>>
        /\ \A b \in Blocks : ref_count'[b] = IF b = top THEN 1 ELSE ref_count[b]
        /\ Len(free_list) \in Nat /\ Len(free_list') = Len(free_list) - 1
    BY <1>1, <1>2, <1>3, HandedOut
  <1>5. /\ block_table \in Seq(Blocks) /\ k \in Nat /\ DOMAIN block_table = 1..k
        /\ block_table' \in Seq(Blocks) /\ DOMAIN block_table' = 1..(k + 1)
        /\ block_table'[k + 1] = top /\ \A i \in 1..k : block_table'[i] = block_table[i]
        /\ Len(block_table') = k + 1
    <2>1. block_table \in Seq(Blocks)
      BY DEF CacheInv, CacheShape
    <2>2. QED
      BY <1>1, <1>2, <1>4, <2>1, AppendProperties, LenProperties
  <1>6. \A i \in 1..k : block_table[i] # top
    BY <1>4, <1>5 DEF CacheInv, Growing, Owned
  <1>7. CacheShape'
    BY <1>2, <1>5 DEF CacheInv, CacheShape, Blocks
  <1>8. Owned'
    <2>1. \A i, j \in 1..k : block_table[i] = block_table[j] => i = j
      BY <1>5 DEF CacheInv, Growing, Owned
    <2>2. ASSUME NEW i \in 1..(k + 1), NEW j \in 1..(k + 1), block_table'[i] = block_table'[j]
          PROVE  i = j
      <3>1. CASE i \in 1..k /\ j \in 1..k
        BY <1>5, <2>1, <2>2, <3>1
      <3>2. CASE i = k + 1 /\ j \in 1..k
        BY <1>5, <1>6, <2>2, <3>2
      <3>3. CASE i \in 1..k /\ j = k + 1
        BY <1>5, <1>6, <2>2, <3>3
      <3>4. QED
        BY <1>5, <3>1, <3>2, <3>3
    <2>3. ASSUME NEW b \in Blocks
          PROVE  ref_count'[b] = IF \E i \in 1..(k + 1) : block_table'[i] = b THEN 1 ELSE 0
      <3>1. ref_count[b] = IF \E i \in 1..k : block_table[i] = b THEN 1 ELSE 0
        BY <1>5 DEF CacheInv, Growing, Owned
      <3>2. CASE b = top
        <4>1. k + 1 \in 1..(k + 1)
          BY <1>5
        <4>2. QED
          BY <1>4, <1>5, <3>2, <4>1
      <3>3. CASE b # top
        <4>1. (\E i \in 1..(k + 1) : block_table'[i] = b) <=> \E i \in 1..k : block_table[i] = b
          <5>1. \A i \in 1..(k + 1) : i \in 1..k \/ i = k + 1
            BY <1>5
          <5>2. \A i \in 1..k : i \in 1..(k + 1)
            BY <1>5
          <5>3. QED
            BY <1>5, <3>3, <5>1, <5>2, Zenon
        <4>2. QED
          BY <1>4, <3>1, <3>3, <4>1
      <3>4. QED
        BY <3>2, <3>3
    <2>4. k + f = NumBlocks
      BY <1>1 DEF CacheInv, Growing, Owned
    <2>5. k + 1 + (f - 1) = NumBlocks
      BY <1>1, <1>4, <1>5, <2>4
    <2>6. Len(block_table') + Len(free_list') = NumBlocks
      BY <1>1, <1>4, <1>5, <2>5
    <2>7. QED
      BY <1>5, <2>2, <2>3, <2>6 DEF Owned, Blocks
  <1>9. Fills'
    BY <1>2 DEF CacheInv, Growing, Fills
  <1>10. Covered /\ Fills /\ CacheShape
    BY DEF CacheInv, Growing
  <1>11. Needed(IF layer > 1 THEN m + n ELSE m) <= k
    BY <1>1, <1>10, Zenon DEF Covered
  <1>12. /\ n \in Nat /\ m \in Nat /\ m + n \in Nat
         /\ Needed(m) \in Nat /\ Needed(m + n) \in Nat
    <2>1. n \in Nat /\ m \in Nat
      BY <1>1, <1>2, <1>10, FilledRows
    <2>2. m + n \in Nat
      BY <2>1
    <2>3. \A q \in Nat : Needed(q) \in Nat
      BY Covers, <2>1
    <2>4. QED
      BY <2>1, <2>2, <2>3
  <1>13. Covered'
    <2>1. Needed(IF layer > 1 THEN m + n ELSE m) <= k + 1
      <3>1. Needed(IF layer > 1 THEN m + n ELSE m) \in Nat
        BY <1>12
      <3>2. QED
        BY <1>5, <1>11, <3>1
    <2>2. QED
      BY <1>1, <1>2, <1>5, <2>1, Zenon DEF Covered, Needed
  <1>14. Tight'
    <2>1. filled[layer] = m
      BY <1>1, <1>2, <1>10, NumLayersAssumption DEF Fills
    <2>2. k < Needed(m + n)
      BY <1>1, <1>2, <2>1, Zenon DEF Short
    <2>3. k + 1 <= Needed(m + n)
      BY <1>5, <1>12, <2>2
    <2>4. QED
      BY <1>1, <1>2, <1>5, <2>3, Zenon DEF Tight, Needed
  <1>15. ASSUME NEW l \in 1..NumLayers, NEW r \in 1..filled[l]
         PROVE  block_table'[BlockOf(r)] = block_table[BlockOf(r)]
    <2>1. filled[l] \in Nat /\ Needed(filled[l]) <= Len(block_table)
      BY <1>10, FilledRows
    <2>2. BlockOf(r) \in 1..k
      BY <1>5, <1>10, <2>1, RowPlace
    <2>3. QED
      BY <1>5, <2>2
  <1>16. RowsOfWhole'
    <2>1. Whole' = Whole
      BY <1>2 DEF Whole
    <2>2. QED
      BY <1>2, <1>15, <2>1 DEF CacheInv, RowsOfWhole, Row, BlockOf, SlotOf
  <1>17. HiddenOfWhole'
    BY <1>2 DEF CacheInv, HiddenOfWhole, Whole
  <1>18. QED
    BY <1>3, <1>7, <1>8, <1>9, <1>13, <1>14, <1>16, <1>17 DEF CacheInv, Growing

\* Only the first layer can find the table short, so an append that runs out of
\* blocks leaves every layer as it was.
LEMMA ShortInFirst ==
  ASSUME CacheShape, Fills, Covered, layer \in 1..NumLayers
  PROVE  filled[layer] = length /\ (Short => layer = 1)
  <1>1. filled[layer] = length
    BY NumLayersAssumption DEF Fills
  <1>2. PICK k, m, n : k = Len(block_table) /\ m = length /\ n = Len(ids)
    OBVIOUS
  <1>3. k \in Nat /\ Needed(m + n) \in Nat
    <2>1. block_table \in Seq(Blocks)
      BY DEF CacheShape
    <2>2. n \in Nat /\ m \in Nat
      BY <1>2, FilledRows
    <2>3. QED
      BY <1>2, <2>1, <2>2, LenProperties, Covers
  <1>4. layer > 1 => Needed(m + n) <= k
    BY <1>2 DEF Covered
  <1>5. Short => k < Needed(m + n)
    BY <1>1, <1>2, Zenon DEF Short
  <1>6. Short => ~ (layer > 1)
    BY <1>3, <1>4, <1>5
  <1>7. QED
    BY <1>1, <1>6, NumLayersAssumption

LEMMA OutOfBlocksInv == CacheInv /\ OutOfBlocks => CacheInv'
  <1> SUFFICES ASSUME CacheInv, OutOfBlocks PROVE CacheInv'
    OBVIOUS
  <1>1. /\ layer \in 1..NumLayers /\ Short /\ free_list = <<>>
        /\ ids' = <<>> /\ layer' = 0 /\ UNCHANGED vars
        /\ block_table' = block_table /\ store' = store /\ filled' = filled
        /\ length' = length /\ ctx' = ctx
    BY DEF OutOfBlocks
  <1>2. CacheShape /\ Fills /\ Covered
    BY DEF CacheInv, Growing
  <1>3. layer = 1
    BY <1>1, <1>2, ShortInFirst
  <1>4. /\ ctx \in Seq(Tokens) /\ ids \in Seq(Tokens) /\ length = Len(ctx) /\ Len(ctx) \in Nat
    BY <1>2, LenProperties DEF CacheShape
  <1>5. Inv'
    BY <1>1, SamePool DEF CacheInv
  <1>6. CacheShape'
    BY <1>1, <1>2, NumLayersAssumption DEF CacheShape, Blocks
  <1>7. Owned'
    BY <1>1 DEF CacheInv, Growing, Owned, vars, Blocks
  <1>8. \A l \in 1..NumLayers : filled[l] = length
    BY <1>2, <1>3, NumLayersAssumption DEF Fills
  <1>9. Fills'
    BY <1>1, <1>8, NumLayersAssumption DEF Fills
  <1>10. Covered'
    BY <1>1, <1>2, <1>3 DEF Covered, Needed
  <1>11. Tight'
    BY <1>1 DEF Tight, vars
  <1>12. RowsOfWhole'
    <2>1. Whole' = ctx
      BY <1>1, <1>4, ConcatProperties DEF Whole
    <2>2. ASSUME NEW l \in 1..NumLayers, NEW r \in 1..length
          PROVE  Row(l, r) = SubSeq(ctx, 1, r)
      <3>1. Row(l, r) = SubSeq(ctx \o ids, 1, r)
        BY <1>8 DEF CacheInv, RowsOfWhole, Whole
      <3>2. r \in 0..Len(ctx)
        BY <1>4
      <3>3. QED
        BY <1>4, <3>1, <3>2, PrefixWithin
    <2>3. QED
      BY <1>1, <1>8, <2>1, <2>2 DEF RowsOfWhole, Row, BlockOf, SlotOf
  <1>13. HiddenOfWhole'
    BY <1>1 DEF HiddenOfWhole
  <1>14. QED
    BY <1>5, <1>6, <1>7, <1>9, <1>10, <1>11, <1>12, <1>13 DEF CacheInv, Growing

\* A layer writes its rows behind those it has, and nowhere else.
LEMMA LayerWrites ==
  ASSUME CacheInv, LayerForward
  PROVE  /\ Needed(length + Len(ids)) <= Len(block_table)
         /\ \A l \in 1..NumLayers : l # layer => store'[l] = store[l]
         /\ \A q \in 1..(length + Len(ids)) :
               store'[layer][block_table[BlockOf(q)]][SlotOf(q)] = SubSeq(Whole, 1, q)
  <1>1. CacheShape /\ Fills /\ Covered /\ layer \in 1..NumLayers /\ ~ Short
    BY DEF CacheInv, Growing, LayerForward
  <1>2. PICK k, m, n, bt : /\ k = Len(block_table) /\ m = length /\ n = Len(ids)
                           /\ bt = block_table
    OBVIOUS
  <1>3. filled[layer] = m
    BY <1>1, <1>2, ShortInFirst
  <1>4. k \in Nat /\ m \in Nat /\ n \in Nat /\ m + n \in Nat /\ Needed(m + n) \in Nat
    <2>1. block_table \in Seq(Blocks)
      BY <1>1 DEF CacheShape
    <2>2. n \in Nat /\ m \in Nat
      BY <1>1, <1>2, FilledRows
    <2>3. m + n \in Nat
      BY <2>2
    <2>4. QED
      BY <1>2, <2>1, <2>2, <2>3, LenProperties, Covers
  <1>5. Needed(m + n) <= k
    <2>1. ~ (k < Needed(m + n))
      BY <1>1, <1>2, <1>3, Zenon DEF Short
    <2>2. QED
      BY <1>4, <2>1
  <1>6. DOMAIN hidden = 1..n /\ \A i \in 1..n : hidden[i] = SubSeq(Whole, 1, m + i)
    <2>1. layer # 0
      BY <1>1, NumLayersAssumption
    <2>2. hidden = [i \in 1..n |-> SubSeq(Whole, 1, m + i)]
      BY <1>2, <2>1, Zenon DEF CacheInv, HiddenOfWhole
    <2>3. QED
      BY <2>2
  <1> DEFINE At(b, i) == {r \in 1..n : bt[BlockOf(m + r)] = b /\ SlotOf(m + r) = i}
  <1>7. store' = [store EXCEPT ![layer] = [b \in Blocks |-> [i \in 1..BlockSize |->
                    IF At(b, i) = {} THEN store[layer][b][i]
                    ELSE hidden[CHOOSE r \in At(b, i) : TRUE]]]]
    BY <1>2, <1>3, <1>6 DEF LayerForward
  <1>8. DOMAIN store = 1..NumLayers
    BY <1>1 DEF CacheShape
  <1>9. ASSUME NEW q \in 1..(m + n)
        PROVE  store'[layer][bt[BlockOf(q)]][SlotOf(q)] = SubSeq(Whole, 1, q)
    <2>1. /\ BlockOf(q) \in DOMAIN bt /\ bt[BlockOf(q)] \in Blocks
          /\ SlotOf(q) \in 1..BlockSize
      BY <1>1, <1>2, <1>4, <1>5, RowPlace
    <2>2. PICK b, i : b = bt[BlockOf(q)] /\ i = SlotOf(q)
      OBVIOUS
    <2>3. ASSUME NEW r \in At(b, i) PROVE m + r = q
      <3>1. r \in 1..n /\ bt[BlockOf(m + r)] = bt[BlockOf(q)] /\ SlotOf(m + r) = SlotOf(q)
        BY <2>2
      <3>2. m + r \in 1..(m + n)
        BY <1>4, <3>1
      <3>3. BlockOf(m + r) \in DOMAIN bt
        BY <1>1, <1>2, <1>4, <1>5, <3>2, RowPlace
      <3>4. BlockOf(m + r) = BlockOf(q)
        BY <1>2, <2>1, <3>1, <3>3 DEF CacheInv, Growing, Owned
      <3>5. m + r \in Nat \ {0} /\ q \in Nat \ {0}
        BY <1>4, <3>2
      <3>6. QED
        BY <3>1, <3>4, <3>5, OnePlace
    <2>4. store'[layer][b][i] = IF At(b, i) = {} THEN store[layer][b][i]
                                ELSE hidden[CHOOSE r \in At(b, i) : TRUE]
      BY <1>1, <1>7, <1>8, <2>1, <2>2
    <2>5. CASE q <= m
      <3>1. At(b, i) = {}
        <4>1. ASSUME NEW r \in At(b, i) PROVE FALSE
          <5>1. m + r = q /\ r \in 1..n
            BY <2>3
          <5>2. QED
            BY <1>4, <2>5, <5>1
        <4>2. QED
          BY <4>1
      <3>2. q \in 1..filled[layer]
        BY <1>3, <1>4, <2>5
      <3>3. Row(layer, q) = SubSeq(Whole, 1, q)
        BY <1>1, <3>2 DEF CacheInv, RowsOfWhole
      <3>4. QED
        BY <1>2, <2>2, <2>4, <3>1, <3>3 DEF Row
    <2>6. CASE ~ (q <= m)
      <3>1. PICK r : r = q - m
        OBVIOUS
      <3>2. r \in 1..n /\ m + r = q
        BY <1>4, <2>6, <3>1
      <3>3. r \in At(b, i)
        BY <2>2, <3>2
      <3>4. \A t \in At(b, i) : t = r
        <4>1. ASSUME NEW t \in At(b, i) PROVE t = r
          <5>1. m + t = q /\ t \in 1..n
            BY <2>3
          <5>2. QED
            BY <1>4, <3>2, <5>1
        <4>2. QED
          BY <4>1
      <3>5. (CHOOSE t \in At(b, i) : TRUE) = r
        BY <3>3, <3>4
      <3>6. store'[layer][b][i] = hidden[r]
        BY <2>4, <3>3, <3>5
      <3>7. QED
        BY <1>6, <2>2, <3>2, <3>6
    <2>7. QED
      BY <2>5, <2>6
  <1>10. \A l \in 1..NumLayers : l # layer => store'[l] = store[l]
    BY <1>7, <1>8
  <1>11. QED
    BY <1>2, <1>5, <1>9, <1>10, Zenon

\* Attention over the rows of everything fed so far leaves hidden states as they are.
LEMMA AttendsToWhole ==
  ASSUME NEW T, NEW w \in Seq(T), length \in Nat, NEW n \in Nat, Len(w) = length + n,
         NEW i \in 1..n
  PROVE  Cache!Attend([r \in 1..(length + n) |-> SubSeq(w, 1, r)], i, SubSeq(w, 1, length + i))
           = SubSeq(w, 1, length + i)
  <1>1. PICK g, h, m : /\ g = [r \in 1..(length + n) |-> SubSeq(w, 1, r)]
                       /\ h = SubSeq(w, 1, length + i) /\ m = length
    OBVIOUS
  <1>2. g = [r \in 1..(m + n) |-> SubSeq(w, 1, r)] /\ m \in Nat /\ h = SubSeq(w, 1, m + i)
    BY <1>1, Zenon
  <1>3. Len(g) = m + n /\ m + i <= Len(g)
    BY <1>2
  <1>4. ASSUME NEW r \in 1..(m + i) PROVE g[r] = SubSeq(h, 1, r)
    <2>1. r \in 1..(m + n) /\ m + i \in 0..Len(w) /\ r \in 0..(m + i)
      BY <1>1, <1>2
    <2>2. SubSeq(SubSeq(w, 1, m + i), 1, r) = SubSeq(w, 1, r)
      BY <2>1, PrefixTwice
    <2>3. QED
      BY <1>2, <2>1, <2>2
  <1>5. Cache!Attend(g, i, h) = h
    BY <1>1, <1>3, <1>4 DEF Cache!Attend
  <1>6. QED
    BY <1>1, <1>5, Zenon

\* After a layer its rows are those of everything fed so far, and so are the hidden
\* states that go on to the next.
LEMMA LayerRows ==
  ASSUME CacheInv, LayerForward
  PROVE  /\ layer \in 1..NumLayers /\ layer' = layer + 1
         /\ filled' = [filled EXCEPT ![layer] = length + Len(ids)] /\ filled[layer] = length
         /\ UNCHANGED <<vars, block_table, length, ctx, ids>>
         /\ Gather(store'[layer], filled'[layer])
               = [r \in 1..(length + Len(ids)) |-> SubSeq(Whole, 1, r)]
         /\ hidden = [i \in 1..Len(ids) |-> SubSeq(Whole, 1, length + i)]
         /\ hidden' = hidden
         /\ hidden' = Cache!Attended(Gather(store'[layer], filled'[layer]))
         /\ length \in Nat /\ Len(ids) \in Nat /\ Whole \in Seq(Tokens)
         /\ Len(Whole) = length + Len(ids)
  <1>1. CacheShape /\ Fills /\ Covered /\ layer \in 1..NumLayers /\ layer # 0
    BY NumLayersAssumption DEF CacheInv, Growing, LayerForward
  <1>2. filled[layer] = length /\ length \in Nat /\ Len(ids) \in Nat
    BY <1>1, ShortInFirst, FilledRows
  <1>3. layer' = layer + 1 /\ UNCHANGED <<vars, block_table, length, ctx, ids>>
    BY DEF LayerForward
  <1>4. filled' = [filled EXCEPT ![layer] = length + Len(ids)]
    BY <1>2 DEF LayerForward
  <1>5. filled'[layer] = length + Len(ids)
    BY <1>1, <1>4 DEF CacheShape
  <1>6. PICK m, n, w : m = length /\ n = Len(ids) /\ w = Whole
    OBVIOUS
  <1>7. \A q \in 1..(m + n) :
            store'[layer][block_table[BlockOf(q)]][SlotOf(q)] = SubSeq(w, 1, q)
    BY <1>6, LayerWrites
  <1>8. Gather(store'[layer], m + n) = [r \in 1..(m + n) |-> SubSeq(w, 1, r)]
    BY <1>7 DEF Gather
  <1>9. w \in Seq(Tokens) /\ Len(w) = m + n
    <2>1. ctx \in Seq(Tokens) /\ ids \in Seq(Tokens) /\ length = Len(ctx)
      BY <1>1 DEF CacheShape
    <2>2. QED
      BY <1>6, <2>1, ConcatProperties DEF Whole
  <1>10. hidden = [i \in 1..n |-> SubSeq(w, 1, m + i)]
    BY <1>1, <1>6 DEF CacheInv, HiddenOfWhole
  <1>11. hidden' = Cache!Attended(Gather(store'[layer], filled'[layer]))
    BY DEF LayerForward
  <1>12. hidden' = hidden
    <2>1. PICK g : g = [r \in 1..(length + n) |-> SubSeq(w, 1, r)]
      OBVIOUS
    <2>2. ASSUME NEW i \in 1..n PROVE Cache!Attend(g, i, hidden[i]) = hidden[i]
      <3>1. hidden[i] = SubSeq(w, 1, length + i)
        BY <1>6, <1>10
      <3>2. Len(w) = length + n /\ n \in Nat
        BY <1>2, <1>6, <1>9
      <3>3. Cache!Attend(g, i, SubSeq(w, 1, length + i)) = SubSeq(w, 1, length + i)
        BY <1>2, <1>9, <2>1, <3>2, AttendsToWhole
      <3>4. QED
        BY <3>1, <3>3
    <2>3. hidden' = Cache!Attended(g)
      BY <1>5, <1>6, <1>8, <1>11, <2>1
    <2>4. DOMAIN hidden = 1..n /\ hidden = [i \in 1..n |-> hidden[i]]
      BY <1>10
    <2>5. QED
      BY <2>2, <2>3, <2>4 DEF Cache!Attended
  <1>13. QED
    BY <1>1, <1>2, <1>3, <1>4, <1>5, <1>6, <1>8, <1>9, <1>10, <1>11, <1>12

LEMMA LayerForwardInv == CacheInv /\ LayerForward => CacheInv'
  <1> SUFFICES ASSUME CacheInv, LayerForward PROVE CacheInv'
    OBVIOUS
  <1>1. /\ layer \in 1..NumLayers /\ layer' = layer + 1
        /\ filled' = [filled EXCEPT ![layer] = length + Len(ids)]
        /\ UNCHANGED vars /\ block_table' = block_table /\ length' = length
        /\ ctx' = ctx /\ ids' = ids /\ hidden' = hidden /\ Whole' = Whole
        /\ hidden = [i \in 1..Len(ids) |-> SubSeq(Whole, 1, length + i)]
        /\ length \in Nat /\ Len(ids) \in Nat
    BY LayerRows DEF Whole
  <1>2. CacheShape /\ Fills
    BY DEF CacheInv, Growing
  <1>3. Inv'
    BY <1>1, SamePool DEF CacheInv
  <1>4. DOMAIN store' = 1..NumLayers /\ DOMAIN filled' = 1..NumLayers
    BY <1>1, <1>2 DEF CacheShape, LayerForward
  <1>5. CacheShape'
    BY <1>1, <1>2, <1>4, NumLayersAssumption DEF CacheShape, Blocks
  <1>6. Owned'
    BY <1>1 DEF CacheInv, Growing, Owned, vars, Blocks
  <1>7. Fills'
    <2>1. ASSUME NEW l \in 1..NumLayers
          PROVE  filled'[l] = IF l < layer + 1 THEN length + Len(ids) ELSE length
      <3>1. filled'[l] = IF l = layer THEN length + Len(ids) ELSE filled[l]
        BY <1>1, <1>2 DEF CacheShape
      <3>2. filled[l] = IF l < layer THEN length + Len(ids) ELSE length
        BY <1>2 DEF Fills
      <3>3. l < layer + 1 <=> l < layer \/ l = layer
        BY <1>1, NumLayersAssumption
      <3>4. QED
        BY <1>1, <3>1, <3>2, <3>3, Zenon
    <2>2. QED
      BY <1>1, <2>1 DEF Fills
  <1>8. Covered'
    <2>1. layer + 1 > 1
      BY <1>1, NumLayersAssumption
    <2>2. Needed(length + Len(ids)) <= Len(block_table)
      BY LayerWrites
    <2>3. QED
      BY <1>1, <2>1, <2>2, Zenon DEF Covered, Needed
  <1>9. Tight'
    BY <1>1 DEF CacheInv, Growing, Tight, vars, Needed
  <1>10. RowsOfWhole'
    <2>1. ASSUME NEW l \in 1..NumLayers, NEW r \in 1..filled'[l]
          PROVE  store'[l][block_table[BlockOf(r)]][SlotOf(r)] = SubSeq(Whole, 1, r)
      <3>1. CASE l = layer
        <4>1. filled'[l] = length + Len(ids)
          BY <1>1, <1>2, <3>1 DEF CacheShape
        <4>2. r \in 1..(length + Len(ids))
          BY <4>1
        <4>3. QED
          BY <3>1, <4>2, LayerWrites
      <3>2. CASE l # layer
        <4>1. store'[l] = store[l] /\ filled'[l] = filled[l]
          BY <1>1, <1>2, <3>2, LayerWrites DEF CacheShape
        <4>2. QED
          BY <4>1 DEF CacheInv, RowsOfWhole, Row
      <3>3. QED
        BY <3>1, <3>2
    <2>2. QED
      BY <1>1, <2>1 DEF RowsOfWhole, Row, BlockOf, SlotOf
  <1>11. HiddenOfWhole'
    BY <1>1 DEF HiddenOfWhole
  <1>12. QED
    BY <1>3, <1>5, <1>6, <1>7, <1>8, <1>9, <1>10, <1>11 DEF CacheInv, Growing

LEMMA AdvanceInv == CacheInv /\ Advance => CacheInv'
  <1> SUFFICES ASSUME CacheInv, Advance PROVE CacheInv'
    OBVIOUS
  <1>1. /\ layer = NumLayers + 1 /\ length' = length + Len(ids) /\ ctx' = ctx \o ids
        /\ ids' = <<>> /\ hidden' = <<>> /\ layer' = 0 /\ UNCHANGED vars
        /\ block_table' = block_table /\ store' = store /\ filled' = filled
    BY DEF Advance
  <1>2. CacheShape /\ Fills /\ Covered /\ Tight
    BY DEF CacheInv, Growing
  <1>3. /\ ctx \in Seq(Tokens) /\ ids \in Seq(Tokens) /\ length = Len(ctx)
        /\ Len(ids) \in Nat /\ length \in Nat
    BY <1>2, LenProperties DEF CacheShape
  <1>4. Whole \in Seq(Tokens) /\ Len(Whole) = length + Len(ids) /\ ctx' = Whole
    BY <1>1, <1>3, ConcatProperties DEF Whole
  <1>5. Whole' = Whole
    BY <1>1, <1>4, ConcatProperties DEF Whole
  <1>6. Inv'
    BY <1>1, SamePool DEF CacheInv
  <1>7. CacheShape'
    BY <1>1, <1>2, <1>4, NumLayersAssumption DEF CacheShape, Blocks
  <1>8. Owned'
    BY <1>1 DEF CacheInv, Growing, Owned, vars, Blocks
  <1>9. \A l \in 1..NumLayers : filled[l] = length + Len(ids)
    BY <1>1, <1>2, NumLayersAssumption DEF Fills
  <1>10. Fills'
    BY <1>1, <1>9, NumLayersAssumption DEF Fills
  <1>11. Covered'
    <2>1. layer > 1
      BY <1>1, NumLayersAssumption
    <2>2. QED
      BY <1>1, <1>2, <2>1 DEF Covered, Needed
  <1>12. Tight'
    <2>1. Len(ids') = 0 /\ length' + 0 = length + Len(ids)
      BY <1>1, <1>3
    <2>2. QED
      BY <1>1, <1>2, <2>1 DEF Tight, Needed, vars
  <1>13. RowsOfWhole'
    BY <1>1, <1>5 DEF CacheInv, RowsOfWhole, Row, BlockOf, SlotOf
  <1>14. QED
    BY <1>1, <1>6, <1>7, <1>8, <1>10, <1>11, <1>12, <1>13
    DEF CacheInv, Growing, HiddenOfWhole

LEMMA CacheStep == CacheInv /\ [PagedNext]_<<vars, cacheVars>> => CacheInv'
  <1> SUFFICES ASSUME CacheInv, [PagedNext]_<<vars, cacheVars>> PROVE CacheInv'
    OBVIOUS
  <1>1. ASSUME NEW toks \in Cache!Contexts, Begin(toks) PROVE CacheInv'
    BY <1>1, BeginInv
  <1>2. CASE EnsureBlock
    BY <1>2, EnsureBlockInv
  <1>3. CASE OutOfBlocks
    BY <1>3, OutOfBlocksInv
  <1>4. CASE LayerForward
    BY <1>4, LayerForwardInv
  <1>5. CASE Advance
    BY <1>5, AdvanceInv
  <1>6. CASE UNCHANGED <<vars, cacheVars>>
    <2>1. Inv'
      BY <1>6, SamePool DEF CacheInv
    <2>2. QED
      BY <1>6, <2>1 DEF cacheVars, vars, CacheInv, CacheShape, Growing, Owned, Fills, Covered,
                        Tight, RowsOfWhole, HiddenOfWhole, Whole, Row, Blocks, BlockOf, SlotOf,
                        Needed
  <1>7. QED
    BY <1>1, <1>2, <1>3, <1>4, <1>5, <1>6 DEF PagedNext, Idle

LEMMA CacheInvariant == PagedSpec => []CacheInv
  BY CacheInit, CacheStep, PTL DEF PagedSpec

-----------------------------------------------------------------------------
(* Theorems about the paged cache. *)

\* Between forwards the table of the cache is what the pool gave out, once, and no
\* more blocks than its rows need, unless an append exhausted the pool.
THEOREM CacheTakesNoSpareBlocks == PagedSpec => []NoSpareBlocks
  <1>1. ASSUME CacheInv PROVE NoSpareBlocks
    <2> SUFFICES ASSUME layer = 0
                 PROVE  /\ {block_table[k] : k \in DOMAIN block_table}
                               = {b \in Blocks : ref_count[b] = 1}
                        /\ Len(block_table) + Len(free_list) = NumBlocks
                        /\ free_list # <<>> => Len(block_table) * BlockSize
                                                 \in length..(length + BlockSize - 1)
      BY DEF NoSpareBlocks
    <2>1. CacheShape /\ Owned /\ Covered /\ Tight
      BY <1>1 DEF CacheInv, Growing
    <2>2. {block_table[k] : k \in DOMAIN block_table} = {b \in Blocks : ref_count[b] = 1}
      <3>1. \A k \in DOMAIN block_table : block_table[k] \in Blocks
        BY <2>1 DEF CacheShape
      <3>2. QED
        BY <2>1, <3>1 DEF Owned
    <2>3. free_list # <<>> => Len(block_table) * BlockSize \in length..(length + BlockSize - 1)
      <3>1. length \in Nat /\ Len(ids) = 0 /\ Len(block_table) \in Nat
        BY <2>1, LenProperties DEF CacheShape
      <3>2. PICK k, m : k = Len(block_table) /\ m = length
        OBVIOUS
      <3>3. Needed(m) \in Nat /\ Needed(m) * BlockSize \in m..(m + BlockSize - 1)
        BY <3>1, <3>2, Covers, NeededIsTight
      <3>4. Needed(m) <= k
        BY <2>1, <3>2 DEF Covered
      <3>5. free_list # <<>> => k <= Needed(m)
        BY <2>1, <3>1, <3>2 DEF Tight
      <3>6. free_list # <<>> => k = Needed(m)
        BY <3>1, <3>2, <3>3, <3>4, <3>5
      <3>7. QED
        BY <3>2, <3>3, <3>6
    <2>4. QED
      BY <2>1, <2>2, <2>3 DEF Owned
  <1>2. QED
    BY <1>1, CacheInvariant, PTL

\* The logits of a forward are those of everything fed so far, however it was cut into
\* forwards and whichever of them ran out of blocks.
THEOREM LogitsAreOfContext == PagedSpec => []LogitsOfContext
  <1>1. ASSUME CacheInv PROVE LogitsOfContext
    <2> SUFFICES ASSUME layer = NumLayers + 1
                 PROVE  hidden = [i \in 1..Len(ids) |-> ctx \o SubSeq(ids, 1, i)]
      BY DEF LogitsOfContext, Cache!LogitsOfContext
    <2>1. layer # 0
      BY NumLayersAssumption
    <2>2. hidden = [i \in 1..Len(ids) |-> SubSeq(ctx \o ids, 1, length + i)]
      BY <1>1, <2>1 DEF CacheInv, HiddenOfWhole, Whole
    <2>3. ctx \in Seq(Tokens) /\ ids \in Seq(Tokens) /\ length = Len(ctx)
      BY <1>1 DEF CacheInv, CacheShape
    <2>4. ASSUME NEW i \in 1..Len(ids)
          PROVE  SubSeq(ctx \o ids, 1, length + i) = ctx \o SubSeq(ids, 1, i)
      <3>1. i \in 0..Len(ids)
        BY <2>3, LenProperties
      <3>2. QED
        BY <2>3, <3>1, PrefixBeyond
    <2>5. QED
      BY <2>2, <2>4
  <1>2. QED
    BY <1>1, CacheInvariant, PTL

\* What the contiguous cache would hold.
RowsOfLayers == [l \in 1..NumLayers |-> Gather(store[l], filled[l])]

LEMMA RowsOfLayersAre ==
  CacheInv => RowsOfLayers = [l \in 1..NumLayers |-> [r \in 1..filled[l] |-> SubSeq(Whole, 1, r)]]
  BY DEF CacheInv, RowsOfWhole, Row, RowsOfLayers, Gather

\* The rows of a layer that has m, with those of n more tokens behind them.
LEMMA RowsConcat ==
  ASSUME NEW T, NEW w \in Seq(T), NEW m \in Nat, NEW n \in Nat, Len(w) = m + n
  PROVE  [r \in 1..m |-> SubSeq(w, 1, r)] \o [i \in 1..n |-> SubSeq(w, 1, m + i)]
           = [r \in 1..(m + n) |-> SubSeq(w, 1, r)]
  <1>1. PICK a, b, c : /\ a = [r \in 1..m |-> SubSeq(w, 1, r)]
                       /\ b = [i \in 1..n |-> SubSeq(w, 1, m + i)]
                       /\ c = [r \in 1..(m + n) |-> SubSeq(w, 1, r)]
    OBVIOUS
  <1>2. \A r \in 1..(m + n) : SubSeq(w, 1, r) \in Seq(T)
    BY SubSeqProperties
  <1>3. /\ a \in Seq(Seq(T)) /\ b \in Seq(Seq(T)) /\ c \in Seq(Seq(T))
        /\ Len(a) = m /\ Len(b) = n /\ Len(c) = m + n
    <2>1. \A i \in 1..n : m + i \in 1..(m + n)
      OBVIOUS
    <2>2. \A r \in 1..m : r \in 1..(m + n)
      OBVIOUS
    <2>3. QED
      BY <1>1, <1>2, <2>1, <2>2
  <1>4. a \o b \in Seq(Seq(T)) /\ Len(a \o b) = m + n
        /\ \A r \in 1..(m + n) : (a \o b)[r] = IF r <= m THEN a[r] ELSE b[r - m]
    BY <1>3, ConcatProperties
  <1>5. ASSUME NEW r \in 1..(m + n) PROVE (a \o b)[r] = c[r]
    <2>1. CASE r <= m
      BY <1>1, <1>4, <2>1
    <2>2. CASE ~ (r <= m)
      <3>1. r - m \in 1..n /\ m + (r - m) = r
        BY <2>2
      <3>2. b[r - m] = SubSeq(w, 1, m + (r - m))
        BY <1>1, <3>1
      <3>3. QED
        BY <1>1, <1>4, <2>2, <3>1, <3>2
    <2>3. QED
      BY <2>1, <2>2
  <1>6. a \o b = c
    BY <1>3, <1>4, <1>5, SeqEqual
  <1>7. QED
    BY <1>1, <1>6

\* Every step of the paged cache is one of the contiguous cache, or changes nothing there.
LEMMA CacheRefines ==
  CacheInv /\ CacheInv' /\ [PagedNext]_<<vars, cacheVars>> => [Cache!Next]_Cache!vars
  <1> SUFFICES ASSUME CacheInv, CacheInv', [PagedNext]_<<vars, cacheVars>>
               PROVE  [Cache!Next]_Cache!vars
    OBVIOUS
  <1>1. ASSUME NEW toks \in Cache!Contexts, Begin(toks) PROVE Cache!Next
    BY <1>1 DEF Begin, Cache!Next
  <1>2. RowsOfLayers = [l \in 1..NumLayers |-> [r \in 1..filled[l] |-> SubSeq(Whole, 1, r)]]
    BY RowsOfLayersAre
  <1>3. RowsOfLayers' = [l \in 1..NumLayers |-> [r \in 1..filled'[l] |-> SubSeq(Whole', 1, r)]]
    BY DEF CacheInv, RowsOfWhole, Row, RowsOfLayers, Gather
  <1>4. CASE EnsureBlock
    <2>1. /\ filled' = filled /\ length' = length /\ ctx' = ctx /\ ids' = ids
          /\ hidden' = hidden /\ layer' = layer
      BY <1>4 DEF EnsureBlock, forwardVars
    <2>2. Whole' = Whole
      BY <2>1 DEF Whole
    <2>3. RowsOfLayers' = RowsOfLayers
      BY <1>2, <1>3, <2>1, <2>2
    <2>4. QED
      BY <2>1, <2>3 DEF Cache!vars, RowsOfLayers
  <1>5. CASE OutOfBlocks
    <2>1. CacheShape /\ Fills /\ Covered
      BY DEF CacheInv, Growing
    <2>2. layer = 1
      BY <1>5, <2>1, ShortInFirst DEF OutOfBlocks
    <2>3. RowsOfLayers' = RowsOfLayers
      BY <1>5 DEF OutOfBlocks, RowsOfLayers, Gather, BlockOf, SlotOf
    <2>4. Cache!Throw
      BY <1>5, <2>2, <2>3 DEF OutOfBlocks, Cache!Throw, RowsOfLayers
    <2>5. QED
      BY <2>4 DEF Cache!Next
  <1>6. CASE LayerForward
    <2>1. PICK m, n, w : m = length /\ n = Len(ids) /\ w = Whole
      OBVIOUS
    <2>2. /\ layer \in 1..NumLayers /\ layer' = layer + 1
          /\ filled' = [filled EXCEPT ![layer] = m + n] /\ filled[layer] = m
          /\ block_table' = block_table /\ length' = length /\ ctx' = ctx /\ ids' = ids
          /\ hidden = [i \in 1..n |-> SubSeq(w, 1, m + i)]
          /\ hidden' = Cache!Attended(Gather(store'[layer], filled'[layer]))
          /\ m \in Nat /\ n \in Nat /\ w \in Seq(Tokens) /\ Len(w) = m + n
      BY <1>6, <2>1, LayerRows
    <2>3. Whole' = w /\ DOMAIN filled = 1..NumLayers
      BY <2>1, <2>2 DEF Whole, CacheInv, CacheShape
    <2>4. \A l \in 1..NumLayers : filled'[l] = IF l = layer THEN m + n ELSE filled[l]
      BY <2>2, <2>3
    <2>5. RowsOfLayers[layer] \o hidden = [r \in 1..(m + n) |-> SubSeq(w, 1, r)]
      <3>1. RowsOfLayers[layer] = [r \in 1..m |-> SubSeq(w, 1, r)]
        BY <1>2, <2>1, <2>2
      <3>2. [r \in 1..m |-> SubSeq(w, 1, r)] \o [i \in 1..n |-> SubSeq(w, 1, m + i)]
              = [r \in 1..(m + n) |-> SubSeq(w, 1, r)]
        BY <2>2, RowsConcat
      <3>3. QED
        BY <2>2, <3>1, <3>2, Zenon
    <2>6. RowsOfLayers' = [RowsOfLayers EXCEPT ![layer] = @ \o hidden]
      <3>1. DOMAIN RowsOfLayers = 1..NumLayers
        BY DEF RowsOfLayers
      <3>2. ASSUME NEW l \in 1..NumLayers
            PROVE  RowsOfLayers'[l] = IF l = layer THEN RowsOfLayers[layer] \o hidden
                                      ELSE RowsOfLayers[l]
        BY <1>2, <1>3, <2>1, <2>3, <2>4, <2>5
      <3>3. RowsOfLayers' = [l \in 1..NumLayers |-> IF l = layer THEN RowsOfLayers[layer] \o hidden
                                                    ELSE RowsOfLayers[l]]
        BY <1>3, <3>2
      <3>4. QED
        BY <2>2, <3>1, <3>3
    <2>7. RowsOfLayers'[layer] = Gather(store'[layer], filled'[layer])
      BY <2>2 DEF RowsOfLayers, Gather, BlockOf, SlotOf
    <2>8. Cache!LayerForward
      BY <2>2, <2>6, <2>7 DEF Cache!LayerForward, Cache!Layers, RowsOfLayers
    <2>9. QED
      BY <2>8 DEF Cache!Next
  <1>7. CASE Advance
    <2>1. RowsOfLayers' = RowsOfLayers
      BY <1>7 DEF Advance, RowsOfLayers, Gather, BlockOf, SlotOf
    <2>2. Cache!Advance
      BY <1>7, <2>1 DEF Advance, Cache!Advance, RowsOfLayers
    <2>3. QED
      BY <2>2 DEF Cache!Next
  <1>8. CASE UNCHANGED <<vars, cacheVars>>
    <2>1. RowsOfLayers' = RowsOfLayers
      BY <1>8 DEF cacheVars, RowsOfLayers, Gather, BlockOf, SlotOf
    <2>2. QED
      BY <1>8, <2>1 DEF cacheVars, Cache!vars, RowsOfLayers
  <1>9. QED
    BY <1>1, <1>4, <1>5, <1>6, <1>7, <1>8 DEF PagedNext, Idle

\* A cached forward over blocks is one over a contiguous cache: in every layer and
\* after every step, the rows read back are those the contiguous cache would hold.
THEOREM PagedImplementsContiguous == PagedSpec => ImplementsKVCache
  <1>1. PagedInit => Cache!Init
    <2> SUFFICES ASSUME PagedInit PROVE Cache!Init
      OBVIOUS
    <2>1. \A l \in 1..NumLayers : filled[l] = 0
      BY DEF PagedInit
    <2>2. \A l \in 1..NumLayers : Gather(store[l], filled[l]) = <<>>
      <3>1. 1..0 = {}
        OBVIOUS
      <3>2. QED
        BY <2>1, <3>1 DEF Gather
    <2>3. QED
      BY <2>2 DEF PagedInit, Cache!Init, Cache!Layers
  <1>2. QED
    BY <1>1, CacheInvariant, CacheRefines, PTL DEF PagedSpec, ImplementsKVCache, Cache!Spec
=============================================================================
