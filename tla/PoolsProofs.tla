---------------------------- MODULE PoolsProofs ----------------------------
(***************************************************************************)
(* The pool on the device, for any number of blocks, sequences, faults and *)
(* any block size: whatever device call fails, an item of a forward attends*)
(* over the rows of its own context, and the pool implements a private     *)
(* store of rows per sequence, as the pool of the host does.               *)
(*                                                                         *)
(* The argument.  No two places of the tables name one block (Private), and*)
(* tables cover the rows of their sequences (DevicePool), so what an item  *)
(* writes changes no row of another.  The scratch table is shared, but each*)
(* access uploads to its head all that it reads (Uploaded): what it held   *)
(* for the item before does not matter, nor what a failure left there.     *)
(* Progress says which rows of an item are in place in each phase.         *)
(***************************************************************************)
EXTENDS MCPools, BlockManagerProofs

Item == [seq : Seqs, tokens : Gpu!Contexts, seen : Gpu!Contexts \cup {Junk}]

Tables == gpu_block_table \in [Seqs -> Seq(Blocks)]

\* The table of s has room for n rows; its rows are those of the context c.
Fits(s, n) == Gpu!BlocksFor(n) <= Len(gpu_block_table[s])
DeviceRow(s, r) == gpu_kv[gpu_block_table[s][Gpu!BlockOf(r)]][Gpu!SlotOf(r)]
HoldsRows(s, c) == \A r \in 1..Len(c) : DeviceRow(s, r) = SubSeq(c, 1, r)

\* No two places of the tables name one block.
Private == \A s, t \in Seqs : \A i \in DOMAIN gpu_block_table[s], j \in DOMAIN gpu_block_table[t] :
    gpu_block_table[s][i] = gpu_block_table[t][j] => s = t /\ i = j

\* What the pool keeps, whatever forward runs.
DevicePool ==
    /\ Tables /\ gpu_ctx \in [Seqs -> Gpu!Contexts]
    /\ gpu_kv \in [Blocks -> [1..GpuBlockSize -> Gpu!Contexts \cup {Junk}]]
    /\ Private
    /\ \A s \in Seqs : Fits(s, Len(gpu_ctx[s])) /\ HoldsRows(s, gpu_ctx[s])

Scratch == /\ device_table = Null \/ device_table \in [1..device_cap -> Blocks]
           /\ device_cap \in 0..Cardinality(Blocks) /\ faults \in 0..Faults

\* The phase of the forward and its batch.
Phase ==
    /\ pc \in {"idle", "reserve", "write", "gather", "commit"}
    /\ scan \in Nat \ {0} /\ items \in Seq(Item)
    /\ pc = "idle" <=> items = <<>>
    /\ scan <= Len(items) + 1
    /\ pc \in {"gather", "commit"} => scan <= Len(items)
    /\ \A k, l \in DOMAIN items : items[k].seq = items[l].seq => k = l

\* The context of an item once the forward is through with it.
Whole(k) == gpu_ctx[items[k].seq] \o items[k].tokens

Open(k) == pc = "commit" => k >= scan
Reserved(k) == Open(k) /\ (pc = "reserve" => k < scan)
Stored(k) == \/ pc \in {"write", "gather"} /\ k < scan
             \/ pc = "gather" /\ k = scan
             \/ pc = "commit" /\ k >= scan

\* What the forward has done for an item so far.
Progress(k) ==
    /\ items[k].tokens # <<>>
    /\ Open(k) => Whole(k) \in Gpu!Contexts
    /\ Reserved(k) => Fits(items[k].seq, Len(Whole(k)))
    /\ Stored(k) => HoldsRows(items[k].seq, Whole(k))
    /\ pc \in {"write", "gather"} /\ k < scan => items[k].seen = Whole(k)

DeviceInv == DevicePool /\ Scratch /\ Phase /\ \A k \in DOMAIN items : Progress(k)

-----------------------------------------------------------------------------
(* The two pools address rows alike, so what BlockManagerProofs states of   *)
(* rows, blocks and contexts holds for the block size and the bound of the  *)
(* device, too.                                                             *)

R == INSTANCE BlockManagerProofs WITH BlockSize <- GpuBlockSize, MaxLen <- GpuMaxLen

LEMMA SameRows ==
  /\ R!BlocksAssumption /\ R!SeqsAssumption /\ R!BlockSizeAssumption
  /\ R!MaxLenAssumption /\ R!JunkAssumption
  /\ R!Contexts = Gpu!Contexts
  /\ \A n : R!BlocksFor(n) = Gpu!BlocksFor(n)
  /\ \A r : R!BlockOf(r) = Gpu!BlockOf(r) /\ R!SlotOf(r) = Gpu!SlotOf(r)
  <1>1. GpuMaxLen \in Nat
    BY GpuAssumption, MaxLenAssumption
  <1>2. R!Contexts = Gpu!Contexts
    BY Zenon DEF R!Contexts, Gpu!Contexts
  <1>3. IsFiniteSet(Blocks) <=> R!IsFiniteSet(Blocks)
    BY Zenon DEF IsFiniteSet, R!IsFiniteSet
  <1>4. IsFiniteSet(Seqs) <=> R!IsFiniteSet(Seqs)
    BY Zenon DEF IsFiniteSet, R!IsFiniteSet
  <1>5. R!BlocksAssumption /\ R!SeqsAssumption
    BY <1>3, <1>4, BlocksAssumption, SeqsAssumption, Zenon DEF R!BlocksAssumption, R!SeqsAssumption
  <1>6. R!BlockSizeAssumption /\ R!MaxLenAssumption /\ R!JunkAssumption
    BY <1>1, <1>2, GpuAssumption, Zenon
    DEF R!BlockSizeAssumption, R!MaxLenAssumption, R!JunkAssumption,
        Gpu!BlockSizeAssumption, Gpu!JunkAssumption
  <1>7. /\ \A n : R!BlocksFor(n) = Gpu!BlocksFor(n)
        /\ \A r : R!BlockOf(r) = Gpu!BlockOf(r) /\ R!SlotOf(r) = Gpu!SlotOf(r)
    BY Zenon DEF R!BlocksFor, Gpu!BlocksFor, R!BlockOf, Gpu!BlockOf, R!SlotOf, Gpu!SlotOf
  <1>8. QED
    BY <1>2, <1>5, <1>6, <1>7

\* A context of the device is a sequence of tokens within its bound, so it is one
\* of the host as well.
LEMMA DeviceContexts ==
  ASSUME NEW c
  PROVE  /\ c \in Gpu!Contexts <=> c \in Seq(Tokens) /\ Len(c) <= GpuMaxLen
         /\ c \in Gpu!Contexts => c \in Contexts /\ Len(c) \in Nat
  <1>1. c \in Gpu!Contexts <=> c \in Seq(Tokens) /\ Len(c) <= GpuMaxLen
    BY SameRows, R!ContextIsBoundedSeq
  <1>2. ASSUME c \in Gpu!Contexts PROVE c \in Contexts /\ Len(c) \in Nat
    <2>1. c \in Seq(Tokens) /\ Len(c) <= GpuMaxLen /\ Len(c) \in Nat
      BY <1>1, <1>2, LenProperties
    <2>2. Len(c) <= MaxLen
      BY <2>1, GpuAssumption, MaxLenAssumption
    <2>3. QED
      BY <2>1, <2>2, ContextIsBoundedSeq
  <1>3. QED
    BY <1>1, <1>2

LEMMA EmptyFits == <<>> \in Gpu!Contexts /\ Len(<<>>) = 0 /\ Gpu!BlocksFor(0) = 0
  <1>1. <<>> \in Gpu!Contexts
    BY SameRows, R!EmptyContext
  <1>2. 0 \in Nat /\ 0 <= 0 * GpuBlockSize
    BY GpuAssumption DEF Gpu!BlockSizeAssumption
  <1>3. R!BlocksFor(0) \in Nat /\ R!BlocksFor(0) <= 0
    BY <1>2, SameRows, R!Covers
  <1>4. QED
    BY <1>1, <1>3, SameRows

\* A row that the table of s covers has a place in it.
LEMMA PlaceOfRow ==
  ASSUME Tables, NEW s \in Seqs, NEW n \in Nat, Fits(s, n), NEW r \in 1..n
  PROVE  /\ Gpu!BlockOf(r) \in DOMAIN gpu_block_table[s]
         /\ Gpu!BlockOf(r) \in 1..Len(gpu_block_table[s])
         /\ gpu_block_table[s][Gpu!BlockOf(r)] \in Blocks
         /\ Gpu!SlotOf(r) \in 1..GpuBlockSize
  <1>1. /\ gpu_block_table[s] \in Seq(Blocks) /\ Len(gpu_block_table[s]) \in Nat
        /\ DOMAIN gpu_block_table[s] = 1..Len(gpu_block_table[s])
    BY LenProperties DEF Tables
  <1>2. PICK k : k = Len(gpu_block_table[s])
    OBVIOUS
  <1>3. k \in Nat /\ R!BlocksFor(n) <= k
    BY <1>1, <1>2, SameRows, Zenon DEF Fits
  <1>4. n <= k * GpuBlockSize /\ k * GpuBlockSize \in Int
    <2>1. k \in Int
      BY <1>3
    <2>2. k * GpuBlockSize \in Int
      BY <2>1, SameRows, R!Scale
    <2>3. n <= k * GpuBlockSize
      BY <1>3, SameRows, R!Covers
    <2>4. QED
      BY <2>2, <2>3
  <1>5. r \in Nat \ {0} /\ r <= k * GpuBlockSize
    BY <1>4
  <1>6. R!BlockOf(r) <= k /\ R!BlockOf(r) \in Nat \ {0} /\ R!SlotOf(r) \in 1..GpuBlockSize
    BY <1>3, <1>5, SameRows, R!RowInTable, R!Position
  <1>7. R!BlockOf(r) \in 1..k
    BY <1>3, <1>6
  <1>8. Gpu!BlockOf(r) \in 1..Len(gpu_block_table[s])
    BY <1>2, <1>7, SameRows, Zenon
  <1>9. QED
    BY <1>1, <1>6, <1>8, SameRows

\* No two rows share a place.
LEMMA OneRow ==
  ASSUME NEW r \in Nat \ {0}, NEW t \in Nat \ {0},
         Gpu!BlockOf(r) = Gpu!BlockOf(t), Gpu!SlotOf(r) = Gpu!SlotOf(t)
  PROVE  r = t
  <1>1. PICK b, i : b = R!BlockOf(r) /\ i = R!SlotOf(r)
    OBVIOUS
  <1>2. b = R!BlockOf(t) /\ i = R!SlotOf(t)
    BY <1>1, SameRows
  <1>3. r = (b - 1) * GpuBlockSize + i /\ t = (b - 1) * GpuBlockSize + i
    BY <1>1, <1>2, SameRows, R!Position, Zenon
  <1>4. QED
    BY <1>3

\* Fewer rows fit as well.
LEMMA FewerFit ==
  ASSUME NEW m \in Nat, NEW n \in Nat, m <= n
  PROVE  Gpu!BlocksFor(m) <= Gpu!BlocksFor(n) /\ Gpu!BlocksFor(m) \in Nat /\ Gpu!BlocksFor(n) \in Nat
  <1>1. PICK k : k = R!BlocksFor(n)
    OBVIOUS
  <1>2. k \in Nat /\ R!BlocksFor(m) \in Nat
    BY <1>1, SameRows, R!Covers
  <1>3. n <= k * GpuBlockSize /\ k * GpuBlockSize \in Int
    <2>1. k \in Int /\ R!BlocksFor(n) <= k
      BY <1>1, <1>2
    <2>2. k * GpuBlockSize \in Int
      BY <2>1, SameRows, R!Scale
    <2>3. n <= k * GpuBlockSize
      BY <1>2, <2>1, SameRows, R!Covers
    <2>4. QED
      BY <2>2, <2>3
  <1>4. m <= k * GpuBlockSize
    BY <1>3
  <1>5. R!BlocksFor(m) <= k
    BY <1>2, <1>4, SameRows, R!Covers
  <1>6. QED
    BY <1>1, <1>2, <1>5, SameRows

-----------------------------------------------------------------------------
(* What a step keeps. *)

\* A sequence whose places are kept keeps its rows.
LEMMA RowsKept ==
  ASSUME Tables, NEW s \in Seqs, NEW c \in Seq(Tokens), Fits(s, Len(c)), HoldsRows(s, c),
         NEW q \in Seq(Blocks), gpu_block_table'[s] = gpu_block_table[s] \o q,
         \A b \in Blocks : (\E i \in DOMAIN gpu_block_table[s] : gpu_block_table[s][i] = b)
                              => gpu_kv'[b] = gpu_kv[b]
  PROVE  Fits(s, Len(c))' /\ HoldsRows(s, c)'
  <1>1. PICK n, k : n = Len(c) /\ k = Len(gpu_block_table[s])
    OBVIOUS
  <1>2. /\ gpu_block_table[s] \in Seq(Blocks) /\ n \in Nat /\ k \in Nat
        /\ DOMAIN gpu_block_table[s] = 1..k
    BY <1>1, LenProperties DEF Tables
  <1>3. /\ Len(gpu_block_table'[s]) = k + Len(q) /\ Len(q) \in Nat
        /\ \A i \in 1..k : gpu_block_table'[s][i] = gpu_block_table[s][i]
    BY <1>1, <1>2, ConcatProperties, LenProperties
  <1>4. Gpu!BlocksFor(n) <= k /\ Gpu!BlocksFor(n) \in Nat
    BY <1>1, <1>2, FewerFit DEF Fits
  <1>5. Gpu!BlocksFor(n) <= k + Len(q)
    BY <1>2, <1>3, <1>4
  <1>6. Gpu!BlocksFor(Len(c)) <= Len(gpu_block_table'[s])
    BY <1>1, <1>3, <1>5, Zenon
  <1>7. Fits(s, n)
    BY <1>1
  <1>8. ASSUME NEW r \in 1..n
        PROVE  gpu_kv'[gpu_block_table'[s][Gpu!BlockOf(r)]][Gpu!SlotOf(r)] = SubSeq(c, 1, r)
    <2>1. /\ Gpu!BlockOf(r) \in DOMAIN gpu_block_table[s]
          /\ gpu_block_table[s][Gpu!BlockOf(r)] \in Blocks
      BY <1>2, <1>7, PlaceOfRow
    <2>2. gpu_block_table'[s][Gpu!BlockOf(r)] = gpu_block_table[s][Gpu!BlockOf(r)]
      BY <1>2, <1>3, <2>1
    <2>3. gpu_kv'[gpu_block_table[s][Gpu!BlockOf(r)]] = gpu_kv[gpu_block_table[s][Gpu!BlockOf(r)]]
      BY <2>1
    <2>4. DeviceRow(s, r) = SubSeq(c, 1, r)
      BY <1>1 DEF HoldsRows
    <2>5. QED
      BY <2>2, <2>3, <2>4 DEF DeviceRow
  <1>9. QED
    BY <1>1, <1>6, <1>8 DEF Fits, HoldsRows, DeviceRow, Gpu!BlocksFor, Gpu!BlockOf, Gpu!SlotOf

\* A pool whose tables, contexts and rows are left alone is still right.
LEMMA SameDevicePool ==
  ASSUME DevicePool, UNCHANGED <<gpu_block_table, gpu_ctx, gpu_kv>>
  PROVE  DevicePool'
  BY DEF DevicePool, Tables, Private, Fits, HoldsRows, DeviceRow, Gpu!BlocksFor, Gpu!BlockOf,
         Gpu!SlotOf, Gpu!Contexts

\* What is known of an item, for reference.
LEMMA ItemFacts ==
  ASSUME DeviceInv, NEW k \in DOMAIN items
  PROVE  /\ items[k].seq \in Seqs /\ items[k].tokens \in Gpu!Contexts
         /\ items[k].tokens \in Seq(Tokens) /\ gpu_ctx[items[k].seq] \in Seq(Tokens)
         /\ gpu_ctx[items[k].seq] \in Gpu!Contexts
         /\ Whole(k) \in Seq(Tokens)
         /\ Len(gpu_ctx[items[k].seq]) \in Nat /\ Len(items[k].tokens) \in Nat \ {0}
         /\ Len(Whole(k)) = Len(gpu_ctx[items[k].seq]) + Len(items[k].tokens)
         /\ Progress(k) /\ k \in 1..Len(items) /\ items \in Seq(Item)
         /\ items[k] \in Item
  <1>1. items \in Seq(Item) /\ Progress(k) /\ gpu_ctx \in [Seqs -> Gpu!Contexts]
    BY DEF DeviceInv, Phase, DevicePool
  <1>2. items[k] \in Item /\ k \in 1..Len(items)
    BY <1>1
  <1>3. items[k].seq \in Seqs /\ items[k].tokens \in Gpu!Contexts /\ items[k].tokens # <<>>
    BY <1>1, <1>2 DEF Item, Progress
  <1>4. /\ items[k].tokens \in Seq(Tokens) /\ gpu_ctx[items[k].seq] \in Seq(Tokens)
        /\ gpu_ctx[items[k].seq] \in Gpu!Contexts
    BY <1>1, <1>3, DeviceContexts
  <1>5. QED
    BY <1>1, <1>2, <1>3, <1>4, ConcatProperties, LenProperties, EmptySeq DEF Whole

\* The forward ends, and leaves the pool to the next one.
LEMMA LeaveInv ==
  ASSUME DevicePool', Scratch', Gpu!Leave
  PROVE  DeviceInv'
  <1>1. pc' = "idle" /\ scan' = 1 /\ items' = <<>>
    BY DEF Gpu!Leave
  <1>2. Phase'
    BY <1>1 DEF Phase
  <1>3. DOMAIN items' = {}
    BY <1>1
  <1>4. QED
    BY <1>2, <1>3 DEF DeviceInv

LEMMA DeviceInit == Gpu!Init => DeviceInv
  <1> SUFFICES ASSUME Gpu!Init PROVE DeviceInv
    OBVIOUS
  <1>1. /\ gpu_block_table = [s \in Seqs |-> <<>>] /\ gpu_ctx = [s \in Seqs |-> <<>>]
        /\ gpu_kv = [b \in Blocks |-> Gpu!Blank] /\ device_table = Null /\ device_cap = 0
        /\ pc = "idle" /\ scan = 1 /\ items = <<>> /\ faults = 0
    BY DEF Gpu!Init
  <1>2. Private
    BY <1>1 DEF Private
  <1>3. gpu_kv \in [Blocks -> [1..GpuBlockSize -> Gpu!Contexts \cup {Junk}]]
    BY <1>1 DEF Gpu!Blank
  <1>4. Tables /\ gpu_ctx \in [Seqs -> Gpu!Contexts]
    BY <1>1, EmptyFits DEF Tables
  <1>5. ASSUME NEW s \in Seqs PROVE Fits(s, Len(gpu_ctx[s])) /\ HoldsRows(s, gpu_ctx[s])
    <2>1. gpu_ctx[s] = <<>> /\ gpu_block_table[s] = <<>>
      BY <1>1
    <2>2. QED
      BY <2>1, EmptyFits DEF Fits, HoldsRows
  <1>6. Scratch
    <2>1. Cardinality(Blocks) \in Nat
      BY BlocksAssumption, FS_CardinalityType
    <2>2. QED
      BY <1>1, <2>1, GpuAssumption DEF Scratch
  <1>7. Phase /\ DOMAIN items = {}
    BY <1>1 DEF Phase
  <1>8. QED
    BY <1>2, <1>3, <1>4, <1>5, <1>6, <1>7 DEF DeviceInv, DevicePool

-----------------------------------------------------------------------------
(* The steps of a forward. *)

\* A forward starts with nothing reserved.
LEMMA BeginDeviceInv ==
  ASSUME DeviceInv, NEW batch \in Gpu!Batches, Gpu!Begin(batch)
  PROVE  DeviceInv'
  <1>1. /\ pc = "idle" /\ pc' = "reserve" /\ scan' = 1
        /\ items' = [k \in DOMAIN batch |->
                       [seq |-> batch[k].seq, tokens |-> batch[k].tokens, seen |-> Junk]]
        /\ UNCHANGED <<gpu_block_table, gpu_ctx, gpu_kv, device_table, device_cap, faults>>
        /\ \A k, l \in DOMAIN batch : batch[k].seq = batch[l].seq => k = l
        /\ \A k \in DOMAIN batch : /\ batch[k].tokens # <<>>
                                   /\ gpu_ctx[batch[k].seq] \o batch[k].tokens \in Gpu!Contexts
    BY DEF Gpu!Begin, Gpu!Injective
  <1>2. PICK n \in 1..Cardinality(Seqs) : batch \in [1..n -> [seq : Seqs, tokens : Gpu!Contexts]]
    <2>1. PICK n \in 1..Gpu!Cardinality(Seqs) :
             batch \in [1..n -> [seq : Seqs, tokens : Gpu!Contexts]]
      BY DEF Gpu!Batches
    <2>2. Gpu!Cardinality(Seqs) = Cardinality(Seqs)
      BY Zenon DEF Gpu!Cardinality, Cardinality
    <2>3. QED
      BY <2>1, <2>2
  <1>3. n \in Nat \ {0}
    BY <1>2
  <1>4. DOMAIN batch = 1..n /\ DOMAIN items' = 1..n
    BY <1>1, <1>2
  <1>5. /\ items' \in Seq(Item) /\ Len(items') = n /\ items' # <<>>
        /\ \A k \in 1..n : /\ items'[k].seq = batch[k].seq /\ items'[k].tokens = batch[k].tokens
    <2>1. \A k \in 1..n : [seq |-> batch[k].seq, tokens |-> batch[k].tokens, seen |-> Junk] \in Item
      BY <1>2 DEF Item
    <2>2. items' \in [1..n -> Item]
      BY <1>1, <1>4, <2>1
    <2>3. QED
      BY <1>1, <1>3, <1>4, <2>2
  <1>6. DevicePool'
    BY <1>1, SameDevicePool DEF DeviceInv
  <1>7. Scratch'
    BY <1>1 DEF DeviceInv, Scratch
  <1>8. Phase'
    <2>1. /\ pc' \in {"idle", "reserve", "write", "gather", "commit"} /\ scan' \in Nat \ {0}
          /\ (pc' = "idle" <=> items' = <<>>) /\ scan' <= n + 1
          /\ ~ (pc' \in {"gather", "commit"})
      BY <1>1, <1>3, <1>5
    <2>2. \A k, l \in DOMAIN items' : items'[k].seq = items'[l].seq => k = l
      BY <1>1, <1>4, <1>5
    <2>3. scan' <= Len(items') + 1
      BY <1>5, <2>1
    <2>4. items' \in Seq(Item)
      BY <1>5
    <2>5. QED
      BY <2>1, <2>2, <2>3, <2>4 DEF Phase, Item, Gpu!Contexts
  <1>9. ASSUME NEW k \in DOMAIN items' PROVE Progress(k)'
    <2>1. k \in 1..n /\ ~ (k < 1)
      BY <1>3, <1>4
    <2>2. /\ items'[k].tokens # <<>>
          /\ gpu_ctx'[items'[k].seq] \o items'[k].tokens \in Gpu!Contexts
      BY <1>1, <1>4, <1>5, <2>1
    <2>3. QED
      BY <1>1, <2>1, <2>2 DEF Progress, Reserved, Stored, Open, Whole, Gpu!Contexts
  <1>10. QED
    BY <1>6, <1>7, <1>8, <1>9 DEF DeviceInv

\* The blocks a reserve appends are in no table, and there are as many as were free.
LEMMA ReserveTakesFree ==
  ASSUME DeviceInv, Gpu!Reserve
  PROVE  \E q \in Seq(Blocks) :
           /\ gpu_block_table' = [gpu_block_table EXCEPT ![items[scan].seq] = @ \o q]
           /\ \A i, j \in DOMAIN q : q[i] = q[j] => i = j
           /\ \A i \in DOMAIN q : \A s \in Seqs : \A j \in DOMAIN gpu_block_table[s] :
                 gpu_block_table[s][j] # q[i]
           /\ \/ Gpu!Leave
              \/ /\ Len(q) + Len(gpu_block_table[items[scan].seq])
                        >= Gpu!BlocksFor(Len(gpu_ctx[items[scan].seq]) + Len(items[scan].tokens))
                 /\ scan' = scan + 1 /\ UNCHANGED <<pc, items>>
  <1>1. scan \in DOMAIN items
    BY DEF Gpu!Reserve, DeviceInv, Phase
  <1>2. PICK s, past, n, need : /\ s = items[scan].seq /\ past = Len(gpu_ctx[s])
                                /\ n = Len(items[scan].tokens) /\ need = Len(gpu_block_table[s])
    OBVIOUS
  <1>3. s \in Seqs /\ past \in Nat /\ n \in Nat /\ past + n \in Nat
    <2>1. /\ items[scan].seq \in Seqs /\ Len(gpu_ctx[items[scan].seq]) \in Nat
          /\ Len(items[scan].tokens) \in Nat \ {0}
      BY <1>1, ItemFacts
    <2>2. s \in Seqs /\ past \in Nat /\ n \in Nat \ {0}
      BY <1>2, <2>1, Zenon
    <2>3. QED
      BY <2>2
  <1>4. need \in Nat
    BY <1>2, <1>3, LenProperties DEF DeviceInv, DevicePool, Tables
  <1>5. PICK deficit, want, take :
          /\ deficit = Gpu!BlocksFor(past + n) - need
          /\ want = IF deficit > 0 THEN deficit ELSE 0
          /\ take = IF want < Gpu!Cardinality(Gpu!Free) THEN want ELSE Gpu!Cardinality(Gpu!Free)
    OBVIOUS
  <1>6. /\ \E new \in [1..take -> Gpu!Free] :
              /\ Gpu!Injective(new)
              /\ gpu_block_table' = [gpu_block_table EXCEPT ![s] = @ \o new]
        /\ IF take < want THEN Gpu!Leave ELSE scan' = scan + 1 /\ UNCHANGED <<pc, items>>
    BY <1>2, <1>5 DEF Gpu!Reserve, Gpu!Item, Gpu!Past, Gpu!Need, Gpu!Least
  <1>7. PICK q \in [1..take -> Gpu!Free] :
              /\ Gpu!Injective(q)
              /\ gpu_block_table' = [gpu_block_table EXCEPT ![s] = @ \o q]
    BY <1>6
  <1>8. Gpu!Cardinality(Gpu!Free) \in Nat
    <2>1. Gpu!Free \subseteq Blocks
      BY DEF Gpu!Free
    <2>2. IsFiniteSet(Gpu!Free)
      BY <2>1, BlocksAssumption, FS_Subset
    <2>3. Cardinality(Gpu!Free) \in Nat
      BY <2>2, FS_CardinalityType
    <2>4. Gpu!Cardinality(Gpu!Free) = Cardinality(Gpu!Free)
      BY Zenon DEF Gpu!Cardinality, Cardinality
    <2>5. QED
      BY <2>3, <2>4
  <1>9. Gpu!BlocksFor(past + n) \in Nat
    BY <1>3, FewerFit
  <1>10. deficit \in Int /\ want \in Nat /\ take \in Nat
    BY <1>4, <1>5, <1>8, <1>9
  <1>11. q \in Seq(Blocks) /\ Len(q) = take /\ DOMAIN q = 1..take
    <2>1. q \in [1..take -> Blocks]
      BY <1>7 DEF Gpu!Free
    <2>2. QED
      BY <1>10, <2>1
  <1>12. ASSUME NEW i \in DOMAIN q, NEW t \in Seqs, NEW j \in DOMAIN gpu_block_table[t]
         PROVE  gpu_block_table[t][j] # q[i]
    <2>1. q[i] \in Gpu!Free
      BY <1>7
    <2>2. QED
      BY <2>1 DEF Gpu!Free, Gpu!Entries
  <1>13. ~ (take < want) => take + need >= Gpu!BlocksFor(past + n)
    BY <1>4, <1>5, <1>8, <1>9, <1>10
  <1>14. \A i, j \in DOMAIN q : q[i] = q[j] => i = j
    BY <1>7 DEF Gpu!Injective
  <1>15. \/ Gpu!Leave
         \/ /\ Len(q) + Len(gpu_block_table[s]) >= Gpu!BlocksFor(Len(gpu_ctx[s]) + Len(items[scan].tokens))
            /\ scan' = scan + 1 /\ UNCHANGED <<pc, items>>
    BY <1>2, <1>6, <1>11, <1>13, Zenon
  <1>16. QED
    BY <1>2, <1>7, <1>11, <1>12, <1>14, <1>15

\* Appending blocks of no table keeps the tables private and every row where it was.
LEMMA LongerTable ==
  ASSUME DevicePool, NEW s \in Seqs, NEW q \in Seq(Blocks),
         gpu_block_table' = [gpu_block_table EXCEPT ![s] = @ \o q],
         \A i, j \in DOMAIN q : q[i] = q[j] => i = j,
         \A i \in DOMAIN q : \A t \in Seqs : \A j \in DOMAIN gpu_block_table[t] :
            gpu_block_table[t][j] # q[i],
         gpu_ctx' = gpu_ctx, gpu_kv' = gpu_kv
  PROVE  /\ DevicePool'
         /\ \A t \in Seqs : \A c \in Seq(Tokens) : Fits(t, Len(c)) =>
               Fits(t, Len(c))' /\ (HoldsRows(t, c) => HoldsRows(t, c)')
         /\ Len(gpu_block_table'[s]) = Len(gpu_block_table[s]) + Len(q)
  <1>1. Tables /\ Private /\ gpu_ctx \in [Seqs -> Gpu!Contexts]
    BY DEF DevicePool
  <1>2. /\ gpu_block_table' \in [Seqs -> Seq(Blocks)]
        /\ \A t \in Seqs : gpu_block_table'[t] = IF t = s THEN gpu_block_table[s] \o q
                                                 ELSE gpu_block_table[t]
    <2>1. gpu_block_table[s] \o q \in Seq(Blocks)
      BY <1>1, ConcatProperties DEF Tables
    <2>2. QED
      BY <1>1, <2>1 DEF Tables
  <1>3. ASSUME NEW t \in Seqs
        PROVE  \E p \in Seq(Blocks) : gpu_block_table'[t] = gpu_block_table[t] \o p
    <2>1. CASE t = s
      BY <1>2, <2>1
    <2>2. CASE t # s
      <3>1. gpu_block_table[t] \in Seq(Blocks)
        BY <1>1 DEF Tables
      <3>2. <<>> \in Seq(Blocks) /\ gpu_block_table[t] \o <<>> = gpu_block_table[t]
        BY <3>1, ConcatEmptySeq
      <3>3. QED
        BY <1>2, <2>2, <3>2
    <2>3. QED
      BY <2>1, <2>2
  <1>4. ASSUME NEW t \in Seqs, NEW c \in Seq(Tokens), Fits(t, Len(c))
        PROVE  Fits(t, Len(c))' /\ (HoldsRows(t, c) => HoldsRows(t, c)')
    <2>1. PICK p \in Seq(Blocks) : gpu_block_table'[t] = gpu_block_table[t] \o p
      BY <1>3
    <2>2. HoldsRows(t, c) => HoldsRows(t, c)'
      BY <1>1, <1>4, <2>1, RowsKept
    <2>3. Fits(t, Len(c))'
      <3>1. PICK a, b, n : a = Len(gpu_block_table[t]) /\ b = Len(p) /\ n = Gpu!BlocksFor(Len(c))
        OBVIOUS
      <3>2. gpu_block_table[t] \in Seq(Blocks) /\ a \in Nat /\ b \in Nat
        BY <1>1, <3>1, LenProperties DEF Tables
      <3>3. Len(gpu_block_table'[t]) = a + b
        BY <2>1, <3>1, <3>2, ConcatProperties
      <3>4. n \in Nat /\ n <= a
        <4>1. Len(c) \in Nat
          BY LenProperties
        <4>2. QED
          BY <1>4, <3>1, <4>1, FewerFit DEF Fits
      <3>5. n <= a + b
        BY <3>2, <3>4
      <3>6. QED
        BY <3>1, <3>3, <3>5, Zenon DEF Fits, Gpu!BlocksFor
    <2>4. QED
      BY <2>2, <2>3
  <1>5. PICK k : k = Len(gpu_block_table[s])
    OBVIOUS
  <1>6. /\ k \in Nat /\ DOMAIN gpu_block_table[s] = 1..k /\ Len(q) \in Nat /\ DOMAIN q = 1..Len(q)
        /\ DOMAIN gpu_block_table'[s] = 1..(k + Len(q)) /\ Len(gpu_block_table'[s]) = k + Len(q)
        /\ \A i \in 1..(k + Len(q)) :
              gpu_block_table'[s][i] = IF i <= k THEN gpu_block_table[s][i] ELSE q[i - k]
    <2>1. gpu_block_table[s] \in Seq(Blocks)
      BY <1>1 DEF Tables
    <2>2. QED
      BY <1>2, <1>5, <2>1, ConcatProperties, LenProperties
  <1>7. Private'
    \* A place of the new tables is one of the old, or one of the new blocks of s.
    <2> DEFINE Was(t, i, b) == i \in DOMAIN gpu_block_table[t] /\ gpu_block_table[t][i] = b
               New(t, i, b) == t = s /\ i - k \in DOMAIN q /\ q[i - k] = b
    <2>1. ASSUME NEW t \in Seqs, NEW i \in DOMAIN gpu_block_table'[t]
          PROVE  i \in Int /\ (Was(t, i, gpu_block_table'[t][i]) \/ New(t, i, gpu_block_table'[t][i]))
      <3>1. CASE t # s
        <4>1. gpu_block_table[t] \in Seq(Blocks)
          BY <1>1 DEF Tables
        <4>2. QED
          BY <1>2, <3>1, <4>1
      <3>2. CASE t = s /\ i <= k
        <4>1. i \in 1..k
          BY <1>6, <3>2
        <4>2. QED
          BY <1>6, <3>2, <4>1
      <3>3. CASE t = s /\ ~ (i <= k)
        <4>1. i - k \in DOMAIN q /\ i \in 1..(k + Len(q))
          BY <1>6, <3>3
        <4>2. QED
          BY <1>6, <3>3, <4>1
      <3>4. QED
        BY <3>1, <3>2, <3>3
    <2>2. ASSUME NEW t \in Seqs, NEW u \in Seqs, NEW i \in Int, NEW j \in Int, NEW b,
                 Was(t, i, b) \/ New(t, i, b), Was(u, j, b) \/ New(u, j, b)
          PROVE  t = u /\ i = j
      <3>1. CASE Was(t, i, b) /\ Was(u, j, b)
        BY <1>1, <3>1 DEF Private
      <3>2. CASE New(t, i, b) /\ New(u, j, b)
        <4>1. i - k = j - k
          BY <3>2
        <4>2. QED
          BY <1>6, <3>2, <4>1
      <3>3. QED
        BY <2>2, <3>1, <3>2
    <2> HIDE DEF Was, New
    <2>3. QED
      BY <2>1, <2>2 DEF Private
  <1>8. ASSUME NEW t \in Seqs PROVE Fits(t, Len(gpu_ctx[t]))' /\ HoldsRows(t, gpu_ctx[t])'
    <2>1. PICK c : c = gpu_ctx[t]
      OBVIOUS
    <2>2. c \in Seq(Tokens) /\ Fits(t, Len(c)) /\ HoldsRows(t, c)
      BY <1>1, <2>1, DeviceContexts DEF DevicePool
    <2>3. Fits(t, Len(c))' /\ HoldsRows(t, c)'
      BY <1>4, <2>2
    <2>4. gpu_ctx'[t] = c
      BY <2>1
    <2>5. QED
      BY <2>3, <2>4
  <1>9. DevicePool'
    BY <1>2, <1>7, <1>8 DEF DevicePool, Tables, Gpu!Contexts
  <1>10. QED
    BY <1>4, <1>5, <1>6, <1>9

\* Progress of an item after a step, its sequence s and its context c given.
LEMMA ProgressThen ==
  ASSUME NEW k, NEW s, NEW c, s = items'[k].seq, c = gpu_ctx'[s] \o items'[k].tokens,
         items'[k].tokens # <<>>,
         Open(k)' => c \in Gpu!Contexts,
         Reserved(k)' => Fits(s, Len(c))',
         Stored(k)' => HoldsRows(s, c)',
         pc' \in {"write", "gather"} /\ k < scan' => items'[k].seen = c
  PROVE  Progress(k)'
  <1>1. Whole(k)' = c
    BY DEF Whole
  <1>2. Fits(items[k].seq, Len(Whole(k)))' <=> Fits(s, Len(c))'
    BY <1>1 DEF Fits, Gpu!BlocksFor
  <1>3. HoldsRows(items[k].seq, Whole(k))' <=> HoldsRows(s, c)'
    BY <1>1 DEF HoldsRows, DeviceRow, Gpu!BlockOf, Gpu!SlotOf
  <1>4. /\ items'[k].tokens # <<>>
        /\ Open(k)' => Whole(k)' \in Gpu!Contexts
        /\ Reserved(k)' => Fits(items[k].seq, Len(Whole(k)))'
        /\ Stored(k)' => HoldsRows(items[k].seq, Whole(k))'
        /\ pc' \in {"write", "gather"} /\ k < scan' => items'[k].seen = Whole(k)'
    BY <1>1, <1>2, <1>3
  <1>5. Progress(k)' <=> /\ items'[k].tokens # <<>>
                         /\ Open(k)' => Whole(k)' \in Gpu!Contexts
                         /\ Reserved(k)' => Fits(items[k].seq, Len(Whole(k)))'
                         /\ Stored(k)' => HoldsRows(items[k].seq, Whole(k))'
                         /\ pc' \in {"write", "gather"} /\ k < scan' => items'[k].seen = Whole(k)'
    BY Zenon DEF Progress, Gpu!Contexts
  <1>6. QED
    BY <1>4, <1>5

\* The rows a table and the pool hold are where they were when neither changed.
LEMMA SameDeviceRows ==
  ASSUME UNCHANGED <<gpu_block_table, gpu_kv>>, NEW s, NEW c
  PROVE  (Fits(s, Len(c))' <=> Fits(s, Len(c))) /\ (HoldsRows(s, c)' <=> HoldsRows(s, c))
  BY DEF Fits, HoldsRows, DeviceRow, Gpu!BlocksFor, Gpu!BlockOf, Gpu!SlotOf

\* A reserve that finds its blocks gives the item room; one that does not ends the forward.
LEMMA ReserveDeviceInv ==
  ASSUME DeviceInv, Gpu!Reserve
  PROVE  DeviceInv'
  <1>1. /\ pc = "reserve" /\ scan \in DOMAIN items
        /\ UNCHANGED <<gpu_ctx, gpu_kv, device_table, device_cap, faults>>
    BY DEF Gpu!Reserve, DeviceInv, Phase
  <1>2. PICK s : s = items[scan].seq
    OBVIOUS
  <1>3. PICK q \in Seq(Blocks) :
           /\ gpu_block_table' = [gpu_block_table EXCEPT ![s] = @ \o q]
           /\ \A i, j \in DOMAIN q : q[i] = q[j] => i = j
           /\ \A i \in DOMAIN q : \A t \in Seqs : \A j \in DOMAIN gpu_block_table[t] :
                 gpu_block_table[t][j] # q[i]
           /\ \/ Gpu!Leave
              \/ /\ Len(q) + Len(gpu_block_table[s])
                        >= Gpu!BlocksFor(Len(gpu_ctx[s]) + Len(items[scan].tokens))
                 /\ scan' = scan + 1 /\ UNCHANGED <<pc, items>>
    BY <1>2, ReserveTakesFree
  <1>4. s \in Seqs
    BY <1>1, <1>2, ItemFacts
  <1>5. /\ DevicePool'
        /\ \A t \in Seqs : \A c \in Seq(Tokens) : Fits(t, Len(c)) => Fits(t, Len(c))'
        /\ Len(gpu_block_table'[s]) = Len(gpu_block_table[s]) + Len(q)
    BY <1>1, <1>3, <1>4, LongerTable DEF DeviceInv
  <1>6. Scratch'
    BY <1>1 DEF DeviceInv, Scratch
  <1>7. CASE Gpu!Leave
    BY <1>5, <1>6, <1>7, LeaveInv
  <1>8. CASE ~ Gpu!Leave
    <2>1. /\ scan' = scan + 1 /\ UNCHANGED <<pc, items>>
          /\ Len(q) + Len(gpu_block_table[s])
                >= Gpu!BlocksFor(Len(gpu_ctx[s]) + Len(items[scan].tokens))
      BY <1>3, <1>8
    <2>2. scan \in 1..Len(items) /\ Len(items) \in Nat
      BY <1>1, ItemFacts, LenProperties
    <2>3. Phase'
      BY <1>1, <2>1, <2>2 DEF DeviceInv, Phase, Item, Gpu!Contexts
    <2>4. ASSUME NEW k \in DOMAIN items PROVE Progress(k)'
      <3>1. PICK t, c : t = items[k].seq /\ c = Whole(k)
        OBVIOUS
      <3>2. /\ t \in Seqs /\ c \in Seq(Tokens) /\ Progress(k) /\ k \in Int
        <4>1. /\ items[k].seq \in Seqs /\ Whole(k) \in Seq(Tokens) /\ Progress(k)
              /\ k \in 1..Len(items)
          BY ItemFacts
        <4>2. k \in Int
          BY <2>2, <4>1
        <4>3. QED
          BY <3>1, <4>1, <4>2, Zenon
      <3>3. t = items'[k].seq /\ c = gpu_ctx'[t] \o items'[k].tokens /\ items'[k].tokens # <<>>
        BY <1>1, <2>1, <3>1, <3>2 DEF Whole, Progress
      <3>4. c \in Gpu!Contexts
        BY <1>1, <3>1, <3>2 DEF Progress, Open
      <3>5. Fits(t, Len(c))' \/ ~ (k < scan + 1)
        <4>1. CASE k < scan
          <5>1. Fits(t, Len(c))
            BY <1>1, <3>1, <3>2, <4>1 DEF Progress, Reserved, Open
          <5>2. QED
            BY <1>5, <3>2, <5>1
        <4>2. CASE k = scan
          <5>1. Len(c) = Len(gpu_ctx[s]) + Len(items[scan].tokens)
            BY <1>2, <3>1, <4>2, ItemFacts
          <5>2. PICK m : m = Gpu!BlocksFor(Len(c))
            OBVIOUS
          <5>3. m = Gpu!BlocksFor(Len(gpu_ctx[s]) + Len(items[scan].tokens))
            BY <5>1, <5>2, Zenon
          <5>4. PICK a, b : a = Len(gpu_block_table[s]) /\ b = Len(q)
            OBVIOUS
          <5>5. a \in Nat /\ b \in Nat
            <6>1. gpu_block_table[s] \in Seq(Blocks)
              BY <1>4 DEF DeviceInv, DevicePool, Tables
            <6>2. QED
              BY <5>4, <6>1, LenProperties
          <5>6. b + a >= m
            BY <2>1, <5>3, <5>4, Zenon
          <5>7. m \in Nat
            BY <3>2, <5>2, FewerFit, LenProperties
          <5>8. m <= a + b
            BY <5>5, <5>6, <5>7
          <5>9. Len(gpu_block_table'[t]) = a + b
            BY <1>2, <1>5, <3>1, <4>2, <5>4, Zenon
          <5>10. QED
            BY <5>2, <5>8, <5>9, Zenon DEF Fits, Gpu!BlocksFor
        <4>3. QED
          BY <2>2, <3>2, <4>1, <4>2
      <3>6. (Reserved(k)' => k < scan + 1) /\ ~ Stored(k)' /\ pc' \notin {"write", "gather"}
        BY <1>1, <2>1 DEF Reserved, Stored
      <3>7. QED
        BY <3>3, <3>4, <3>5, <3>6, ProgressThen
    <2>5. QED
      BY <1>5, <1>6, <2>1, <2>3, <2>4 DEF DeviceInv
  <1>9. QED
    BY <1>7, <1>8

\* All items have room: the writes start.
LEMMA ReservesDoneInv ==
  ASSUME DeviceInv, Gpu!ReservesDone
  PROVE  DeviceInv'
  <1>1. /\ pc = "reserve" /\ scan > Len(items) /\ pc' = "write" /\ scan' = 1 /\ items' = items
        /\ UNCHANGED <<gpu_block_table, gpu_ctx, gpu_kv, device_table, device_cap, faults>>
    BY DEF Gpu!ReservesDone
  <1>2. DevicePool' /\ Scratch'
    BY <1>1, SameDevicePool DEF DeviceInv, Scratch
  <1>3. Phase'
    BY <1>1 DEF DeviceInv, Phase, Item, Gpu!Contexts
  <1>4. ASSUME NEW k \in DOMAIN items PROVE Progress(k)'
    <2>1. PICK t, c : t = items[k].seq /\ c = Whole(k)
      OBVIOUS
    <2>2. Progress(k) /\ k \in 1..Len(items) /\ scan \in Nat
      BY ItemFacts DEF DeviceInv, Phase
    <2>3. k < scan /\ k \in Nat \ {0}
      BY <1>1, <2>2
    <2>4. t = items'[k].seq /\ c = gpu_ctx'[t] \o items'[k].tokens /\ items'[k].tokens # <<>>
      BY <1>1, <2>1, <2>2 DEF Whole, Progress
    <2>5. c \in Gpu!Contexts /\ Fits(t, Len(c))
      BY <1>1, <2>1, <2>2, <2>3 DEF Progress, Reserved, Open
    <2>6. Fits(t, Len(c))'
      BY <1>1, <2>5, SameDeviceRows
    <2>7. ~ Stored(k)' /\ ~ (k < scan')
      BY <1>1, <2>3 DEF Stored
    <2>8. QED
      BY <2>4, <2>5, <2>6, <2>7, ProgressThen
  <1>5. QED
    BY <1>1, <1>2, <1>3, <1>4 DEF DeviceInv

\* A device call that fails leaves the tables, the rows and the bound on the scratch.
LEMMA FaultInv ==
  ASSUME DeviceInv, Gpu!UploadFails \/ Gpu!DeviceFails
  PROVE  DeviceInv'
  <1>1. /\ UNCHANGED <<gpu_block_table, gpu_ctx, gpu_kv, device_cap>> /\ Gpu!Leave
        /\ device_table' = device_table \/ device_table' = Null
        /\ faults' = faults \/ (faults < Faults /\ faults' = faults + 1)
    BY DEF Gpu!UploadFails, Gpu!DeviceFails
  <1>2. DevicePool'
    BY <1>1, SameDevicePool DEF DeviceInv
  <1>3. Scratch'
    <2>1. faults' \in 0..Faults
      BY <1>1, GpuAssumption DEF DeviceInv, Scratch
    <2>2. QED
      BY <1>1, <2>1 DEF DeviceInv, Scratch
  <1>4. QED
    BY <1>1, <1>2, <1>3, LeaveInv

\* A table is no longer than the pool.
LEMMA TableBounded ==
  ASSUME Tables, Private, NEW s \in Seqs
  PROVE  Len(gpu_block_table[s]) \in Nat /\ Len(gpu_block_table[s]) <= Cardinality(Blocks)
  <1>1. PICK n : n = Len(gpu_block_table[s])
    OBVIOUS
  <1>2. n \in Nat /\ gpu_block_table[s] \in [1..n -> Blocks]
    BY <1>1, LenProperties DEF Tables
  <1>3. Injective(gpu_block_table[s])
    BY DEF Private, Injective
  <1>4. Cardinality(Entries(gpu_block_table[s])) = n
    BY <1>2, <1>3, CountOfInjective
  <1>5. Entries(gpu_block_table[s]) \subseteq Blocks
    BY <1>2 DEF Entries
  <1>6. Cardinality(Entries(gpu_block_table[s])) <= Cardinality(Blocks)
    BY <1>5, BlocksAssumption, FS_Subset
  <1>7. QED
    BY <1>1, <1>2, <1>4, <1>6

\* upload_table() leaves the table of the item at the head of the scratch.
LEMMA Uploaded ==
  ASSUME DeviceInv, scan \in DOMAIN items, Gpu!Upload, faults' = faults
  PROVE  /\ Scratch'
         /\ \A i \in 1..Len(gpu_block_table[items[scan].seq]) :
               device_table'[i] = gpu_block_table[items[scan].seq][i]
  <1>1. PICK s, need, cap : /\ s = items[scan].seq /\ need = Len(gpu_block_table[s])
                            /\ cap = Cardinality(Blocks)
    OBVIOUS
  <1>2. s \in Seqs
    BY <1>1, ItemFacts
  <1>3. need \in Nat /\ need <= cap /\ gpu_block_table[s] \in [1..need -> Blocks]
    BY <1>1, <1>2, TableBounded, LenProperties DEF DeviceInv, DevicePool, Tables
  <1>4. /\ need > device_cap \/ device_table # Null
        /\ device_cap' = IF need > device_cap THEN need ELSE device_cap
        /\ device_table' = [i \in 1..device_cap' |->
              IF i <= need THEN gpu_block_table[s][i] ELSE device_table[i]]
    BY <1>1, Zenon DEF Gpu!Upload, Gpu!Need, Gpu!Item
  <1>5. cap \in Nat /\ device_cap \in 0..cap
    BY <1>1, BlocksAssumption, FS_CardinalityType DEF DeviceInv, Scratch
  <1>6. device_cap' \in 0..cap /\ need <= device_cap'
    BY <1>3, <1>4, <1>5
  <1>7. ASSUME NEW i \in 1..device_cap' PROVE device_table'[i] \in Blocks
    <2>1. CASE i <= need
      BY <1>3, <1>4, <2>1
    <2>2. CASE ~ (i <= need)
      <3>1. device_cap' = device_cap /\ device_table # Null
        BY <1>3, <1>4, <1>5, <1>6, <2>2
      <3>2. device_table[i] \in Blocks
        BY <3>1 DEF DeviceInv, Scratch
      <3>3. QED
        BY <1>4, <2>2, <3>2
    <2>3. QED
      BY <2>1, <2>2
  <1>8. device_table' \in [1..device_cap' -> Blocks]
    BY <1>4, <1>7
  <1>9. Scratch'
    BY <1>1, <1>6, <1>8 DEF DeviceInv, Scratch
  <1>10. \A i \in 1..need : i \in 1..device_cap' /\ i <= need
    BY <1>3, <1>5, <1>6
  <1>11. \A i \in 1..need : device_table'[i] = gpu_block_table[s][i]
    BY <1>4, <1>10
  <1>12. QED
    BY <1>1, <1>9, <1>11

\* Through a scratch with the table of s at its head, the kernels gather the rows of s.
LEMMA GatheredThroughScratch ==
  ASSUME Tables, NEW s \in Seqs, NEW c \in Seq(Tokens), Fits(s, Len(c)), HoldsRows(s, c), NEW t,
         \A i \in 1..Len(gpu_block_table[s]) : t[i] = gpu_block_table[s][i]
  PROVE  Gpu!Rows(t, Len(c)) = [r \in 1..Len(c) |-> SubSeq(c, 1, r)]
  <1>1. PICK n : n = Len(c)
    OBVIOUS
  <1>2. n \in Nat /\ Fits(s, n)
    BY <1>1, LenProperties
  <1>3. ASSUME NEW r \in 1..n
        PROVE  gpu_kv[t[Gpu!BlockOf(r)]][Gpu!SlotOf(r)] = SubSeq(c, 1, r)
    <2>1. Gpu!BlockOf(r) \in 1..Len(gpu_block_table[s])
      BY <1>2, <1>3, PlaceOfRow
    <2>2. t[Gpu!BlockOf(r)] = gpu_block_table[s][Gpu!BlockOf(r)]
      BY <2>1
    <2>3. DeviceRow(s, r) = SubSeq(c, 1, r)
      BY <1>1 DEF HoldsRows
    <2>4. QED
      BY <2>2, <2>3 DEF DeviceRow
  <1>4. [r \in 1..n |-> gpu_kv[t[Gpu!BlockOf(r)]][Gpu!SlotOf(r)]] = [r \in 1..n |-> SubSeq(c, 1, r)]
    BY <1>3
  <1>5. QED
    BY <1>1, <1>4, Zenon DEF Gpu!Rows

\* Attention over the rows of c computes a row of c with the tokens t.
LEMMA AttendRows ==
  ASSUME NEW c \in Gpu!Contexts, NEW t, NEW g, g = [r \in 1..Len(c) |-> SubSeq(c, 1, r)]
  PROVE  Gpu!Attend(g, t) = c \o t /\ Gpu!ContextOf(g) = c
  <1>1. c \in R!Contexts
    BY SameRows
  <1>2. R!Attend(g, t) = c \o t /\ R!ContextOf(g) = c
    BY <1>1, SameRows, R!AttendOwn, R!ContextOfOwn
  <1>3. R!ContextOf(g) = Gpu!ContextOf(g)
    BY Zenon DEF R!ContextOf, Gpu!ContextOf
  <1>4. R!Attend(g, t) = Gpu!Attend(g, t)
    BY <1>3, Zenon DEF R!Attend, Gpu!Attend
  <1>5. QED
    BY <1>2, <1>3, <1>4, Zenon

\* write() puts the rows of the item where its table says, and changes no other row: a
\* place it writes is at a row past its committed ones, of no other table.
LEMMA WriteRows ==
  ASSUME DeviceInv, Gpu!Write, NEW s, NEW c, NEW w,
         s = items[scan].seq, c = gpu_ctx[s], w = Whole(scan)
  PROVE  /\ Scratch'
         /\ gpu_kv' \in [Blocks -> [1..GpuBlockSize -> Gpu!Contexts \cup {Junk}]]
         /\ \A t \in Seqs : \A n \in Nat : Fits(t, n) =>
              \A r \in 1..n : t # s \/ r <= Len(c) => DeviceRow(t, r)' = DeviceRow(t, r)
         /\ HoldsRows(s, w)'
  <1>1. /\ pc = "write" /\ scan \in DOMAIN items /\ Gpu!Upload
        /\ UNCHANGED <<gpu_block_table, gpu_ctx, scan, items, faults>>
    BY DEF Gpu!Write, DeviceInv, Phase
  <1>2. PICK toks, past, n : toks = items[scan].tokens /\ past = Len(c) /\ n = Len(toks)
    OBVIOUS
  <1>3. /\ s \in Seqs /\ toks \in Seq(Tokens) /\ c \in Seq(Tokens) /\ c \in Gpu!Contexts
        /\ w = c \o toks /\ past \in Nat /\ n \in Nat /\ Len(w) = past + n /\ Progress(scan)
    <2>1. /\ items[scan].seq \in Seqs /\ items[scan].tokens \in Seq(Tokens)
          /\ gpu_ctx[items[scan].seq] \in Seq(Tokens) /\ gpu_ctx[items[scan].seq] \in Gpu!Contexts
          /\ Progress(scan)
      BY <1>1, ItemFacts
    <2>2. s \in Seqs /\ toks \in Seq(Tokens) /\ c \in Seq(Tokens) /\ c \in Gpu!Contexts
      BY <1>2, <2>1, Zenon
    <2>3. w = c \o toks
      BY <1>2, Zenon DEF Whole
    <2>4. past \in Nat /\ n \in Nat
      BY <1>2, <2>2, LenProperties
    <2>5. Len(w) = past + n
      BY <1>2, <2>2, <2>3, ConcatProperties
    <2>6. QED
      BY <2>1, <2>2, <2>3, <2>4, <2>5
  <1>4. w \in Gpu!Contexts /\ Fits(s, past + n)
    <2>1. Whole(scan) \in Gpu!Contexts /\ Fits(items[scan].seq, Len(Whole(scan)))
      BY <1>1, <1>3 DEF Progress, Open, Reserved
    <2>2. Fits(s, Len(w))
      BY <2>1, Zenon
    <2>3. QED
      BY <1>3, <2>1, <2>2
  <1>5. Tables /\ Private /\ Fits(s, Len(c)) /\ HoldsRows(s, c)
    BY <1>3 DEF DeviceInv, DevicePool
  <1>6. /\ Scratch'
        /\ \A i \in 1..Len(gpu_block_table[s]) : device_table'[i] = gpu_block_table[s][i]
    BY <1>1, Uploaded
  <1>7. PICK g : g = Gpu!Rows(device_table', past)
    OBVIOUS
  <1>8. \A t : Gpu!Attend(g, t) = c \o t
    <2>1. g = [r \in 1..Len(c) |-> SubSeq(c, 1, r)]
      BY <1>2, <1>3, <1>5, <1>6, <1>7, GatheredThroughScratch
    <2>2. QED
      BY <1>3, <2>1, AttendRows
  <1> DEFINE At(b, i) == {r \in (past + 1)..(past + n) :
                             device_table'[Gpu!BlockOf(r)] = b /\ Gpu!SlotOf(r) = i}
             new(r) == Gpu!Attend(g, SubSeq(toks, 1, r - past))
  <1>9. gpu_kv' = [b \in Blocks |-> [i \in 1..GpuBlockSize |->
                     IF At(b, i) = {} THEN gpu_kv[b][i] ELSE new(CHOOSE r \in At(b, i) : TRUE)]]
    <2>1. s = Gpu!Item.seq /\ toks = Gpu!Item.tokens /\ past = Gpu!Past
      BY <1>2 DEF Gpu!Item, Gpu!Past
    <2> DEFINE at(b, i) == {r \in (Gpu!Past + 1)..(Gpu!Past + Len(Gpu!Item.tokens)) :
                               device_table'[Gpu!BlockOf(r)] = b /\ Gpu!SlotOf(r) = i}
               row(r) == Gpu!Attend(Gpu!Rows(device_table', Gpu!Past),
                                    SubSeq(Gpu!Item.tokens, 1, r - Gpu!Past))
               chosen(b, i) == CHOOSE r \in at(b, i) : TRUE
    <2>2. gpu_kv' = [b \in Blocks |-> [i \in 1..GpuBlockSize |->
                       IF at(b, i) = {} THEN gpu_kv[b][i] ELSE row(chosen(b, i))]]
      BY Zenon DEF Gpu!Write
    <2>3. ASSUME NEW b, NEW i PROVE at(b, i) = At(b, i)
      <3>1. n = Len(Gpu!Item.tokens)
        BY <1>2, <2>1
      <3>2. QED
        BY <2>1, <3>1, Zenon
    <2>4. ASSUME NEW r PROVE row(r) = new(r)
      <3>1. Gpu!Rows(device_table', Gpu!Past) = g
        BY <1>7, <2>1, Zenon
      <3>2. QED
        BY <2>1, <3>1, Zenon
    <2> HIDE DEF at, At, row, new
    <2>5. ASSUME NEW b \in Blocks, NEW i \in 1..GpuBlockSize
          PROVE  (IF at(b, i) = {} THEN gpu_kv[b][i] ELSE row(chosen(b, i)))
                    = IF At(b, i) = {} THEN gpu_kv[b][i] ELSE new(CHOOSE r \in At(b, i) : TRUE)
      <3>1. PICK q : q = CHOOSE r \in At(b, i) : TRUE
        OBVIOUS
      <3>2. at(b, i) = At(b, i)
        BY <2>3
      <3>3. chosen(b, i) = q
        BY <3>1, <3>2, Zenon
      <3>4. row(chosen(b, i)) = new(q)
        BY <2>4, <3>3, Zenon
      <3>5. QED
        BY <3>1, <3>2, <3>4, Zenon
    <2> HIDE DEF chosen
    <2>6. QED
      BY <2>2, <2>5
  \* The place of a pending row in the table; it is written with the row of the context.
  <1>10. ASSUME NEW r \in (past + 1)..(past + n)
         PROVE  /\ r \in 1..(past + n) /\ r \in Nat \ {0} /\ r - past \in 0..n
                /\ Gpu!BlockOf(r) \in DOMAIN gpu_block_table[s]
                /\ device_table'[Gpu!BlockOf(r)] = gpu_block_table[s][Gpu!BlockOf(r)]
                /\ new(r) = SubSeq(w, 1, r) /\ new(r) \in Gpu!Contexts
    <2>1. r \in 1..(past + n) /\ r \in Nat \ {0} /\ r - past \in 0..n /\ past + (r - past) = r
      BY <1>3
    <2>2. past + n \in Nat
      BY <1>3
    <2>3. /\ Gpu!BlockOf(r) \in DOMAIN gpu_block_table[s]
          /\ Gpu!BlockOf(r) \in 1..Len(gpu_block_table[s])
      BY <1>3, <1>4, <1>5, <2>1, <2>2, PlaceOfRow
    <2>4. new(r) = c \o SubSeq(toks, 1, r - past)
      BY <1>8
    <2>5. SubSeq(c \o toks, 1, Len(c) + (r - past)) = c \o SubSeq(toks, 1, r - past)
      <3>1. PICK k : k = r - past
        OBVIOUS
      <3>2. k \in 0..Len(toks)
        BY <1>2, <2>1, <3>1, Zenon
      <3>3. SubSeq(c \o toks, 1, Len(c) + k) = c \o SubSeq(toks, 1, k)
        <4>1. c \in Seq(Tokens) /\ toks \in Seq(Tokens)
          BY <1>3
        <4>2. QED
          BY <4>1, <3>2, PrefixBeyond
      <3>4. QED
        BY <3>1, <3>3, Zenon
    <2>6. new(r) = SubSeq(w, 1, r)
      <3>1. Len(c) + (r - past) = r
        BY <1>2, <2>1, Zenon
      <3>2. QED
        BY <1>3, <2>4, <2>5, <3>1, Zenon
    <2>7. SubSeq(w, 1, r) \in Gpu!Contexts
      <3>1. r \in 0..Len(w)
        BY <1>3, <2>1
      <3>2. QED
        BY <1>4, <3>1, SameRows, R!PrefixContext
    <2>8. QED
      BY <1>6, <2>1, <2>3, <2>6, <2>7
  <1>11. \A b, i : At(b, i) # {} =>
            /\ (CHOOSE r \in At(b, i) : TRUE) \in At(b, i)
            /\ new(CHOOSE r \in At(b, i) : TRUE) \in Gpu!Contexts
    <2>1. ASSUME NEW b, NEW i, At(b, i) # {}
          PROVE  /\ (CHOOSE r \in At(b, i) : TRUE) \in At(b, i)
                 /\ new(CHOOSE r \in At(b, i) : TRUE) \in Gpu!Contexts
      <3>1. PICK q : q = CHOOSE r \in At(b, i) : TRUE
        OBVIOUS
      <3>2. q \in At(b, i)
        BY <2>1, <3>1
      <3>3. new(q) \in Gpu!Contexts
        BY <1>10, <3>2
      <3>4. QED
        BY <3>1, <3>2, <3>3, Zenon
    <2>2. QED
      BY <2>1
  \* A row at a place that is written is a row of s that is written.
  <1>12. ASSUME NEW t \in Seqs, NEW m \in Nat, Fits(t, m), NEW r \in 1..m,
                NEW q \in At(gpu_block_table[t][Gpu!BlockOf(r)], Gpu!SlotOf(r))
         PROVE  t = s /\ q = r
    <2>1. /\ Gpu!BlockOf(r) \in DOMAIN gpu_block_table[t] /\ r \in Nat \ {0}
      BY <1>5, <1>12, PlaceOfRow
    <2>2. /\ q \in (past + 1)..(past + n) /\ Gpu!SlotOf(q) = Gpu!SlotOf(r)
          /\ device_table'[Gpu!BlockOf(q)] = gpu_block_table[t][Gpu!BlockOf(r)]
      OBVIOUS
    <2>3. /\ Gpu!BlockOf(q) \in DOMAIN gpu_block_table[s] /\ q \in Nat \ {0}
          /\ gpu_block_table[s][Gpu!BlockOf(q)] = gpu_block_table[t][Gpu!BlockOf(r)]
      BY <1>10, <2>2
    <2>4. s = t /\ Gpu!BlockOf(q) = Gpu!BlockOf(r)
      BY <1>3, <1>5, <2>1, <2>3 DEF Private
    <2>5. QED
      BY <2>1, <2>2, <2>3, <2>4, OneRow
  <1> HIDE DEF new
  <1>13. gpu_kv' \in [Blocks -> [1..GpuBlockSize -> Gpu!Contexts \cup {Junk}]]
    <2> HIDE DEF At
    <2>1. ASSUME NEW b \in Blocks, NEW i \in 1..GpuBlockSize
          PROVE  (IF At(b, i) = {} THEN gpu_kv[b][i] ELSE new(CHOOSE r \in At(b, i) : TRUE))
                    \in Gpu!Contexts \cup {Junk}
      BY <1>11 DEF DeviceInv, DevicePool
    <2>2. QED
      BY <1>9, <2>1
  <1>14. ASSUME NEW t \in Seqs, NEW m \in Nat, Fits(t, m), NEW r \in 1..m, t # s \/ r <= Len(c)
         PROVE  DeviceRow(t, r)' = DeviceRow(t, r)
    <2>1. PICK b, i : b = gpu_block_table[t][Gpu!BlockOf(r)] /\ i = Gpu!SlotOf(r)
      OBVIOUS
    <2>2. b \in Blocks /\ i \in 1..GpuBlockSize
      BY <1>5, <1>14, <2>1, PlaceOfRow
    <2>3. ASSUME NEW q \in At(b, i) PROVE FALSE
      <3>1. t = s /\ q = r
        BY <1>12, <1>14, <2>1, <2>3
      <3>2. r \in (past + 1)..(past + n) /\ r <= past
        BY <1>2, <1>14, <3>1
      <3>3. QED
        BY <1>3, <3>2
    <2>4. At(b, i) = {}
      BY <2>3
    <2>5. gpu_kv'[b][i] = gpu_kv[b][i]
      <3> HIDE DEF At
      <3>1. QED
        BY <1>9, <2>2, <2>4
    <2>6. QED
      BY <1>1, <2>1, <2>5 DEF DeviceRow, Gpu!BlockOf, Gpu!SlotOf
  <1>15. ASSUME NEW r \in (past + 1)..(past + n) PROVE DeviceRow(s, r)' = SubSeq(w, 1, r)
    <2>1. PICK b, i : b = gpu_block_table[s][Gpu!BlockOf(r)] /\ i = Gpu!SlotOf(r)
      OBVIOUS
    <2>2. r \in 1..(past + n) /\ past + n \in Nat
      BY <1>3, <1>10
    <2>3. b \in Blocks /\ i \in 1..GpuBlockSize
      BY <1>3, <1>4, <1>5, <2>1, <2>2, PlaceOfRow
    <2>4. r \in At(b, i)
      BY <1>10, <2>1
    <2>5. (CHOOSE q \in At(b, i) : TRUE) = r
      <3>1. \A q \in At(b, i) : q = r
        BY <1>3, <1>4, <1>12, <2>1, <2>2
      <3>2. QED
        BY <2>4, <3>1
    <2>6. gpu_kv'[b][i] = new(r)
      <3> HIDE DEF At
      <3>1. QED
        BY <1>9, <2>3, <2>4, <2>5
    <2>7. new(r) = SubSeq(w, 1, r)
      BY <1>10
    <2>8. QED
      BY <1>1, <2>1, <2>6, <2>7 DEF DeviceRow, Gpu!BlockOf, Gpu!SlotOf
  <1>16. ASSUME NEW r \in 1..Len(w) PROVE DeviceRow(s, r)' = SubSeq(w, 1, r)
    <2>1. CASE r <= past
      <3>1. r \in 1..Len(c) /\ Len(c) \in Nat /\ r \in 1..past /\ past = Len(c)
        BY <1>2, <1>3, <2>1
      <3>2. DeviceRow(s, r)' = DeviceRow(s, r)
        BY <1>3, <1>5, <1>14, <3>1
      <3>3. DeviceRow(s, r) = SubSeq(c, 1, r)
        BY <1>5, <3>1 DEF HoldsRows
      <3>4. SubSeq(c \o toks, 1, r) = SubSeq(c, 1, r)
        <4>1. r \in 0..Len(c)
          BY <3>1
        <4>2. QED
          BY <1>3, <4>1, PrefixWithin
      <3>5. QED
        BY <1>3, <3>2, <3>3, <3>4
    <2>2. CASE ~ (r <= past)
      <3>1. r \in (past + 1)..(past + n)
        BY <1>3, <2>2
      <3>2. QED
        BY <1>15, <3>1
    <2>3. QED
      BY <2>1, <2>2
  <1>17. HoldsRows(s, w)'
    BY <1>16 DEF HoldsRows
  <1>18. QED
    BY <1>6, <1>13, <1>14, <1>17

\* A write puts the rows of the item it is at in place, and keeps those of the others.
LEMMA WriteDeviceInv ==
  ASSUME DeviceInv, Gpu!Write
  PROVE  DeviceInv'
  <1>1. /\ pc = "write" /\ pc' = "gather" /\ scan \in DOMAIN items
        /\ UNCHANGED <<gpu_block_table, gpu_ctx, scan, items, faults>>
    BY DEF Gpu!Write, DeviceInv, Phase
  <1>2. PICK s, c, w : s = items[scan].seq /\ c = gpu_ctx[s] /\ w = Whole(scan)
    OBVIOUS
  <1>3. /\ Scratch'
        /\ gpu_kv' \in [Blocks -> [1..GpuBlockSize -> Gpu!Contexts \cup {Junk}]]
        /\ \A t \in Seqs : \A n \in Nat : Fits(t, n) =>
             \A r \in 1..n : t # s \/ r <= Len(c) => DeviceRow(t, r)' = DeviceRow(t, r)
        /\ HoldsRows(s, w)'
    BY <1>2, WriteRows
  <1>4. \A t \in Seqs : \A n \in Nat : Fits(t, n) => Fits(t, n)'
    BY <1>1 DEF Fits, Gpu!BlocksFor
  <1>5. ASSUME NEW t \in Seqs PROVE Fits(t, Len(gpu_ctx[t]))' /\ HoldsRows(t, gpu_ctx[t])'
    <2>1. PICK d, n : d = gpu_ctx[t] /\ n = Len(d)
      OBVIOUS
    <2>2. n \in Nat /\ Fits(t, n) /\ HoldsRows(t, d)
      <3>1. gpu_ctx[t] \in Gpu!Contexts /\ Fits(t, Len(gpu_ctx[t])) /\ HoldsRows(t, gpu_ctx[t])
        BY DEF DeviceInv, DevicePool
      <3>2. d \in Gpu!Contexts /\ Fits(t, n) /\ HoldsRows(t, d)
        BY <2>1, <3>1, Zenon
      <3>3. QED
        BY <2>1, <3>2, DeviceContexts
    <2>3. ASSUME NEW r \in 1..n PROVE DeviceRow(t, r)' = SubSeq(d, 1, r)
      <3>1. t # s \/ n = Len(c)
        BY <1>2, <2>1
      <3>2. t # s \/ r <= Len(c)
        BY <2>2, <3>1
      <3>3. DeviceRow(t, r)' = DeviceRow(t, r)
        BY <1>3, <2>2, <3>2
      <3>4. QED
        BY <2>1, <2>2, <3>3 DEF HoldsRows
    <2>4. HoldsRows(t, d)'
      BY <2>1, <2>3 DEF HoldsRows
    <2>5. gpu_ctx'[t] = d /\ Len(d) = n
      BY <1>1, <2>1
    <2>6. Fits(t, n)'
      BY <1>4, <2>2
    <2>7. QED
      BY <2>4, <2>5, <2>6, Zenon DEF Fits, HoldsRows, DeviceRow, Gpu!BlocksFor, Gpu!BlockOf, Gpu!SlotOf
  <1>6. DevicePool'
    BY <1>1, <1>3, <1>5 DEF DeviceInv, DevicePool, Tables, Private, Gpu!Contexts
  <1>7. Phase'
    <2>1. scan <= Len(items)
      BY <1>1, ItemFacts
    <2>2. QED
      BY <1>1, <2>1 DEF DeviceInv, Phase, Item, Gpu!Contexts
  <1>8. ASSUME NEW k \in DOMAIN items PROVE Progress(k)'
    <2>1. PICK t, d, n : t = items[k].seq /\ d = Whole(k) /\ n = Len(d)
      OBVIOUS
    <2>2. /\ t \in Seqs /\ d \in Seq(Tokens) /\ Progress(k) /\ n \in Nat
      <3>1. items[k].seq \in Seqs /\ Whole(k) \in Seq(Tokens) /\ Progress(k)
        BY ItemFacts
      <3>2. t \in Seqs /\ d \in Seq(Tokens)
        BY <2>1, <3>1, Zenon
      <3>3. QED
        BY <2>1, <3>1, <3>2, LenProperties
    <2>3. t = items'[k].seq /\ d = gpu_ctx'[t] \o items'[k].tokens /\ items'[k].tokens # <<>>
      BY <1>1, <2>1, <2>2 DEF Whole, Progress
    <2>4. d \in Gpu!Contexts /\ Fits(t, n)
      BY <1>1, <2>1, <2>2 DEF Progress, Reserved, Open
    <2>5. Fits(t, Len(d))'
      <3>1. Fits(t, n)'
        BY <1>4, <2>2, <2>4
      <3>2. QED
        BY <2>1, <3>1, Zenon
    <2>6. Stored(k)' => k < scan \/ k = scan
      BY <1>1 DEF Stored
    <2>7. CASE k = scan
      <3>1. HoldsRows(t, d)'
        BY <1>2, <1>3, <2>1, <2>7
      <3>2. ~ (k < scan')
        BY <1>1, <2>7 DEF DeviceInv, Phase
      <3>3. QED
        BY <2>3, <2>4, <2>5, <3>1, <3>2, ProgressThen
    <2>8. CASE k # scan
      <3>1. t # s
        BY <1>1, <1>2, <2>1, <2>8 DEF DeviceInv, Phase
      <3>2. ASSUME k < scan PROVE HoldsRows(t, d)' /\ items'[k].seen = d
        <4>1. HoldsRows(t, d) /\ items[k].seen = d
          BY <1>1, <2>1, <2>2, <3>2 DEF Progress, Stored
        <4>2. ASSUME NEW r \in 1..n PROVE DeviceRow(t, r)' = SubSeq(d, 1, r)
          <5>1. DeviceRow(t, r)' = DeviceRow(t, r)
            BY <1>3, <2>2, <2>4, <3>1
          <5>2. QED
            BY <2>1, <4>1, <5>1 DEF HoldsRows
        <4>3. QED
          BY <1>1, <2>1, <4>1, <4>2 DEF HoldsRows
      <3>3. (Stored(k)' => HoldsRows(t, d)') /\ (k < scan' => items'[k].seen = d)
        BY <1>1, <2>6, <2>8, <3>2
      <3>4. QED
        BY <2>3, <2>4, <2>5, <3>3, ProgressThen
    <2>9. QED
      BY <2>7, <2>8
  <1>9. QED
    BY <1>1, <1>3, <1>6, <1>7, <1>8 DEF DeviceInv

\* What a gather hands to attention is the context of the item.
LEMMA GatherDeviceInv ==
  ASSUME DeviceInv, Gpu!Gather
  PROVE  DeviceInv'
  <1>1. /\ pc = "gather" /\ Gpu!Upload /\ pc' = "write" /\ scan' = scan + 1
        /\ items' = [items EXCEPT ![scan].seen =
                       Gpu!ContextOf(Gpu!Rows(device_table', Gpu!Past + Len(Gpu!Item.tokens)))]
        /\ UNCHANGED <<gpu_block_table, gpu_ctx, gpu_kv, faults>>
    BY DEF Gpu!Gather
  <1>2. /\ scan \in DOMAIN items /\ scan \in Nat \ {0} /\ scan <= Len(items) /\ Len(items) \in Nat
        /\ DOMAIN items = 1..Len(items) /\ items \in Seq(Item)
    BY <1>1 DEF DeviceInv, Phase
  <1>3. PICK s, w, m : s = items[scan].seq /\ w = Whole(scan) /\ m = Gpu!Past + Len(Gpu!Item.tokens)
    OBVIOUS
  <1>4. /\ s \in Seqs /\ w \in Seq(Tokens) /\ Len(w) = m /\ Progress(scan)
    <2>1. /\ items[scan].seq \in Seqs /\ Whole(scan) \in Seq(Tokens) /\ Progress(scan)
          /\ Len(Whole(scan)) = Len(gpu_ctx[items[scan].seq]) + Len(items[scan].tokens)
      BY <1>2, ItemFacts
    <2>2. m = Len(gpu_ctx[items[scan].seq]) + Len(items[scan].tokens)
      BY <1>3, Zenon DEF Gpu!Past, Gpu!Item
    <2>3. QED
      BY <1>3, <2>1, <2>2, Zenon
  <1>5. w \in Gpu!Contexts /\ Fits(s, Len(w)) /\ HoldsRows(s, w)
    BY <1>1, <1>3, <1>4 DEF Progress, Open, Reserved, Stored
  <1>6. /\ Scratch'
        /\ \A i \in 1..Len(gpu_block_table[s]) : device_table'[i] = gpu_block_table[s][i]
    BY <1>1, <1>2, <1>3, Uploaded
  <1>7. Gpu!ContextOf(Gpu!Rows(device_table', m)) = w
    <2>1. PICK g : g = Gpu!Rows(device_table', m)
      OBVIOUS
    <2>2. Gpu!Rows(device_table', Len(w)) = [r \in 1..Len(w) |-> SubSeq(w, 1, r)]
      BY <1>4, <1>5, <1>6, GatheredThroughScratch DEF DeviceInv, DevicePool
    <2>3. g = [r \in 1..Len(w) |-> SubSeq(w, 1, r)]
      BY <1>4, <2>1, <2>2, Zenon
    <2>4. Gpu!ContextOf(g) = w
      BY <1>5, <2>3, AttendRows
    <2>5. QED
      BY <2>1, <2>4, Zenon
  <1>8. items' = [items EXCEPT ![scan].seen = w]
    BY <1>1, <1>3, <1>7, Zenon
  <1>9. /\ items' \in Seq(Item) /\ Len(items') = Len(items) /\ DOMAIN items' = DOMAIN items
        /\ \A k \in DOMAIN items :
              /\ items'[k].seq = items[k].seq /\ items'[k].tokens = items[k].tokens
              /\ items'[k].seen = IF k = scan THEN w ELSE items[k].seen
    <2>1. \A k \in DOMAIN items : items[k] \in Item
      BY <1>2
    <2>2. [items[scan] EXCEPT !.seen = w] \in Item
      BY <1>2, <1>5, <2>1 DEF Item
    <2>3. items' = [items EXCEPT ![scan] = [items[scan] EXCEPT !.seen = w]]
      BY <1>8
    <2>4. \A k \in DOMAIN items : items'[k] = IF k = scan THEN [items[scan] EXCEPT !.seen = w] ELSE items[k]
      BY <2>3
    <2>5. items' \in Seq(Item) /\ Len(items') = Len(items) /\ DOMAIN items' = DOMAIN items
      BY <1>2, <2>2, <2>3
    <2>6. QED
      BY <2>1, <2>4, <2>5 DEF Item
  <1>10. DevicePool'
    BY <1>1, SameDevicePool DEF DeviceInv
  <1>11. Phase'
    <2>1. scan' \in Nat \ {0} /\ scan' <= Len(items) + 1
      BY <1>1, <1>2
    <2>2. items' # <<>>
      BY <1>2, <1>9
    <2>3. scan' <= Len(items') + 1
      BY <1>9, <2>1
    <2>4. \A k, l \in DOMAIN items' : items'[k].seq = items'[l].seq => k = l
      BY <1>9 DEF DeviceInv, Phase
    <2>5. items' \in Seq(Item)
      BY <1>9
    <2>6. QED
      BY <1>1, <2>1, <2>2, <2>3, <2>4, <2>5 DEF Phase, Item, Gpu!Contexts
  <1>12. ASSUME NEW k \in DOMAIN items PROVE Progress(k)'
    <2>1. PICK t, d : t = items[k].seq /\ d = Whole(k)
      OBVIOUS
    <2>2. Progress(k) /\ k \in Nat
      <3>1. Progress(k) /\ k \in 1..Len(items)
        BY ItemFacts
      <3>2. QED
        BY <3>1, <1>2
    <2>3. t = items'[k].seq /\ d = gpu_ctx'[t] \o items'[k].tokens /\ items'[k].tokens # <<>>
      BY <1>1, <1>9, <2>1, <2>2 DEF Whole, Progress
    <2>4. d \in Gpu!Contexts /\ Fits(t, Len(d))
      BY <1>1, <2>1, <2>2 DEF Progress, Reserved, Open
    <2>5. Fits(t, Len(d))'
      BY <1>1, <2>4, SameDeviceRows
    <2>6. Stored(k)' => k < scan + 1
      BY <1>1 DEF Stored
    <2>7. k < scan + 1 <=> k < scan \/ k = scan
      BY <1>2, <2>2
    <2>8. k < scan + 1 => HoldsRows(t, d)
      BY <1>1, <2>1, <2>2, <2>7 DEF Progress, Stored
    <2>9. k < scan + 1 => HoldsRows(t, d)'
      BY <1>1, <2>8, SameDeviceRows
    <2>10. k < scan + 1 => items'[k].seen = d
      <3>1. CASE k = scan
        BY <1>3, <1>9, <2>1, <3>1
      <3>2. CASE k # scan
        BY <1>1, <1>9, <2>1, <2>2, <2>7, <3>2 DEF Progress
      <3>3. QED
        BY <3>1, <3>2
    <2>11. QED
      BY <1>1, <2>3, <2>4, <2>5, <2>6, <2>9, <2>10, ProgressThen
  <1>13. QED
    BY <1>6, <1>9, <1>10, <1>11, <1>12 DEF DeviceInv

\* All items are written and gathered: the commits start.
LEMMA WritesDoneInv ==
  ASSUME DeviceInv, Gpu!WritesDone
  PROVE  DeviceInv'
  <1>1. /\ pc = "write" /\ scan > Len(items) /\ pc' = "commit" /\ scan' = 1 /\ items' = items
        /\ UNCHANGED <<gpu_block_table, gpu_ctx, gpu_kv, device_table, device_cap, faults>>
    BY DEF Gpu!WritesDone
  <1>2. DevicePool' /\ Scratch'
    BY <1>1, SameDevicePool DEF DeviceInv, Scratch
  <1>3. Phase'
    <2>1. items \in Seq(Item) /\ items # <<>>
      BY <1>1 DEF DeviceInv, Phase
    <2>2. 1 <= Len(items)
      BY <2>1
    <2>3. QED
      BY <1>1, <2>1, <2>2 DEF DeviceInv, Phase, Item, Gpu!Contexts
  <1>4. ASSUME NEW k \in DOMAIN items PROVE Progress(k)'
    <2>1. PICK t, c : t = items[k].seq /\ c = Whole(k)
      OBVIOUS
    <2>2. Progress(k) /\ k \in 1..Len(items) /\ scan \in Nat
      BY ItemFacts DEF DeviceInv, Phase
    <2>3. k < scan /\ k \in Nat \ {0}
      BY <1>1, <2>2
    <2>4. t = items'[k].seq /\ c = gpu_ctx'[t] \o items'[k].tokens /\ items'[k].tokens # <<>>
      BY <1>1, <2>1, <2>2 DEF Whole, Progress
    <2>5. c \in Gpu!Contexts /\ Fits(t, Len(c)) /\ HoldsRows(t, c)
      BY <1>1, <2>1, <2>2, <2>3 DEF Progress, Reserved, Open, Stored
    <2>6. Fits(t, Len(c))' /\ HoldsRows(t, c)'
      BY <1>1, <2>5, SameDeviceRows
    <2>7. QED
      BY <1>1, <2>4, <2>5, <2>6, ProgressThen
  <1>5. QED
    BY <1>1, <1>2, <1>3, <1>4 DEF DeviceInv

\* A commit makes the rows written the context of the sequence.
LEMMA CommitDeviceInv ==
  ASSUME DeviceInv, Gpu!Commit
  PROVE  DeviceInv'
  <1>1. /\ pc = "commit" /\ scan \in DOMAIN items /\ scan \in Nat /\ scan <= Len(items)
        /\ UNCHANGED <<gpu_block_table, gpu_kv, device_table, device_cap, faults>>
        /\ IF scan = Len(items) THEN Gpu!Leave ELSE scan' = scan + 1 /\ UNCHANGED <<pc, items>>
    BY DEF Gpu!Commit, DeviceInv, Phase
  <1>2. PICK s, w : s = items[scan].seq /\ w = Whole(scan)
    OBVIOUS
  <1>3. s \in Seqs /\ Progress(scan)
    BY <1>1, <1>2, ItemFacts
  <1>4. w \in Gpu!Contexts /\ Fits(s, Len(w)) /\ HoldsRows(s, w)
    BY <1>1, <1>2, <1>3 DEF Progress, Open, Reserved, Stored
  <1>5. gpu_ctx' = [gpu_ctx EXCEPT ![s] = w]
    BY <1>2 DEF Gpu!Commit, Gpu!Item, Whole
  <1>6. gpu_ctx \in [Seqs -> Gpu!Contexts]
    BY DEF DeviceInv, DevicePool
  <1>7. ASSUME NEW t \in Seqs PROVE Fits(t, Len(gpu_ctx[t]))' /\ HoldsRows(t, gpu_ctx[t])'
    <2>1. PICK d : d = gpu_ctx'[t]
      OBVIOUS
    <2>2. Fits(t, Len(d)) /\ HoldsRows(t, d)
      <3>1. CASE t = s
        BY <1>3, <1>4, <1>5, <1>6, <2>1, <3>1
      <3>2. CASE t # s
        <4>1. d = gpu_ctx[t]
          BY <1>5, <1>6, <2>1, <3>2
        <4>2. QED
          BY <4>1 DEF DeviceInv, DevicePool
      <3>3. QED
        BY <3>1, <3>2
    <2>3. Fits(t, Len(d))' /\ HoldsRows(t, d)'
      BY <1>1, <2>2, SameDeviceRows
    <2>4. QED
      BY <2>1, <2>3, Zenon DEF Fits, HoldsRows, DeviceRow, Gpu!BlocksFor, Gpu!BlockOf, Gpu!SlotOf
  <1>8. DevicePool'
    <2>1. gpu_ctx' \in [Seqs -> Gpu!Contexts]
      BY <1>3, <1>4, <1>5, <1>6
    <2>2. Tables' /\ Private'
      BY <1>1 DEF DeviceInv, DevicePool, Tables, Private
    <2>3. gpu_kv' \in [Blocks -> [1..GpuBlockSize -> Gpu!Contexts \cup {Junk}]]
      BY <1>1 DEF DeviceInv, DevicePool
    <2>4. QED
      BY <1>7, <2>1, <2>2, <2>3 DEF DevicePool, Gpu!Contexts
  <1>9. Scratch'
    BY <1>1 DEF DeviceInv, Scratch
  <1>10. CASE scan = Len(items)
    BY <1>1, <1>8, <1>9, <1>10, LeaveInv
  <1>11. CASE scan # Len(items)
    <2>1. scan' = scan + 1 /\ UNCHANGED <<pc, items>>
      BY <1>1, <1>11
    <2>2. Phase'
      <3>1. items \in Seq(Item) /\ Len(items) \in Nat
        BY LenProperties DEF DeviceInv, Phase
      <3>2. scan + 1 \in Nat \ {0} /\ scan + 1 <= Len(items) /\ scan + 1 <= Len(items) + 1
        BY <1>1, <1>11, <3>1
      <3>3. QED
        BY <1>1, <2>1, <3>1, <3>2 DEF DeviceInv, Phase, Item, Gpu!Contexts
    <2>3. ASSUME NEW k \in DOMAIN items PROVE Progress(k)'
      <3>1. PICK t, c : t = items[k].seq /\ c = gpu_ctx'[t] \o items[k].tokens
        OBVIOUS
      <3>2. t \in Seqs /\ Progress(k) /\ k \in Nat
        <4>1. items[k].seq \in Seqs /\ Progress(k) /\ k \in 1..Len(items)
          BY ItemFacts
        <4>2. k \in Nat
          BY <4>1
        <4>3. QED
          BY <3>1, <4>1, <4>2
      <3>3. t = items'[k].seq /\ c = gpu_ctx'[t] \o items'[k].tokens /\ items'[k].tokens # <<>>
        BY <2>1, <3>1, <3>2 DEF Progress
      <3>4. ASSUME k >= scan + 1 PROVE c \in Gpu!Contexts /\ Fits(t, Len(c))' /\ HoldsRows(t, c)'
        <4>1. k # scan /\ k >= scan
          BY <1>1, <3>2, <3>4
        <4>2. t # s
          BY <1>1, <1>2, <3>1, <4>1 DEF DeviceInv, Phase
        <4>3. c = Whole(k)
          BY <1>5, <1>6, <3>1, <3>2, <4>2 DEF Whole
        <4>4. c \in Gpu!Contexts /\ Fits(t, Len(c)) /\ HoldsRows(t, c)
          BY <1>1, <3>1, <3>2, <4>1, <4>3 DEF Progress, Open, Reserved, Stored
        <4>5. QED
          BY <1>1, <4>4, SameDeviceRows
      <3>5. /\ Open(k)' => k >= scan + 1
            /\ Reserved(k)' => k >= scan + 1
            /\ Stored(k)' => k >= scan + 1
        BY <1>1, <2>1 DEF Open, Reserved, Stored
      <3>6. QED
        BY <1>1, <2>1, <3>3, <3>4, <3>5, ProgressThen
    <2>4. QED
      BY <1>8, <1>9, <2>1, <2>2, <2>3 DEF DeviceInv
  <1>12. QED
    BY <1>10, <1>11

\* Freeing a sequence blanks the blocks of its table only.
LEMMA FreeSeqDeviceInv ==
  ASSUME DeviceInv, NEW s \in Seqs, Gpu!FreeSeq(s)
  PROVE  DeviceInv'
  <1>1. /\ pc = "idle"
        /\ gpu_block_table' = [gpu_block_table EXCEPT ![s] = <<>>]
        /\ gpu_ctx' = [gpu_ctx EXCEPT ![s] = <<>>]
        /\ gpu_kv' = [b \in Blocks |-> IF b \in Gpu!Entries(gpu_block_table[s])
                                       THEN Gpu!Blank ELSE gpu_kv[b]]
        /\ UNCHANGED <<device_table, device_cap, pc, scan, items, faults>>
    BY DEF Gpu!FreeSeq
  <1>2. Tables /\ Private /\ gpu_ctx \in [Seqs -> Gpu!Contexts]
    BY DEF DeviceInv, DevicePool
  <1>3. /\ gpu_block_table' \in [Seqs -> Seq(Blocks)] /\ gpu_ctx' \in [Seqs -> Gpu!Contexts]
        /\ \A t \in Seqs : /\ t = s => gpu_block_table'[t] = <<>> /\ gpu_ctx'[t] = <<>>
                           /\ t # s => /\ gpu_block_table'[t] = gpu_block_table[t]
                                       /\ gpu_ctx'[t] = gpu_ctx[t]
    BY <1>1, <1>2, EmptyFits DEF Tables
  <1>4. gpu_kv' \in [Blocks -> [1..GpuBlockSize -> Gpu!Contexts \cup {Junk}]]
    BY <1>1 DEF DeviceInv, DevicePool, Gpu!Blank
  <1>5. Private'
    <2>1. ASSUME NEW t \in Seqs, NEW i \in DOMAIN gpu_block_table'[t]
          PROVE  i \in DOMAIN gpu_block_table[t] /\ gpu_block_table'[t] = gpu_block_table[t]
      <3>1. t # s
        <4>1. DOMAIN (<<>>) = {}
          OBVIOUS
        <4>2. QED
          BY <1>3, <2>1, <4>1
      <3>2. QED
        BY <1>3, <2>1, <3>1
    <2>2. QED
      BY <1>2, <2>1 DEF Private
  <1>6. ASSUME NEW t \in Seqs PROVE Fits(t, Len(gpu_ctx[t]))' /\ HoldsRows(t, gpu_ctx[t])'
    <2>1. CASE t = s
      <3>1. Gpu!BlocksFor(Len(gpu_ctx'[t])) <= Len(gpu_block_table'[t])
        <4>1. gpu_ctx'[t] = <<>> /\ gpu_block_table'[t] = <<>>
          BY <1>3, <2>1
        <4>2. Gpu!BlocksFor(Len(gpu_ctx'[t])) = 0 /\ Len(gpu_block_table'[t]) = 0
          BY <4>1, EmptyFits, Zenon
        <4>3. QED
          BY <4>2
      <3>2. Len(gpu_ctx'[t]) = 0
        BY <1>3, <2>1
      <3>3. QED
        BY <3>1, <3>2 DEF Fits, HoldsRows, Gpu!BlocksFor
    <2>2. CASE t # s
      <3>1. PICK c : c = gpu_ctx[t]
        OBVIOUS
      <3>2. c \in Gpu!Contexts /\ Fits(t, Len(c)) /\ HoldsRows(t, c)
        BY <3>1 DEF DeviceInv, DevicePool
      <3>3. c \in Seq(Tokens)
        BY <3>2, DeviceContexts
      <3>4. gpu_block_table'[t] = gpu_block_table[t] \o <<>> /\ <<>> \in Seq(Blocks)
        <4>1. gpu_block_table[t] \in Seq(Blocks)
          BY <1>2 DEF Tables
        <4>2. QED
          BY <1>3, <2>2, <4>1, ConcatEmptySeq
      <3>5. ASSUME NEW b \in Blocks, NEW i \in DOMAIN gpu_block_table[t], gpu_block_table[t][i] = b
            PROVE  gpu_kv'[b] = gpu_kv[b]
        <4>1. b \notin Gpu!Entries(gpu_block_table[s])
          BY <1>2, <2>2, <3>5 DEF Private, Gpu!Entries
        <4>2. QED
          BY <1>1, <4>1
      <3>6. Fits(t, Len(c))' /\ HoldsRows(t, c)'
        BY <1>2, <3>2, <3>3, <3>4, <3>5, RowsKept
      <3>7. gpu_ctx'[t] = c
        BY <1>3, <2>2, <3>1
      <3>8. QED
        BY <3>6, <3>7, Zenon DEF Fits, HoldsRows, DeviceRow, Gpu!BlocksFor, Gpu!BlockOf, Gpu!SlotOf
    <2>3. QED
      BY <2>1, <2>2
  <1>7. DevicePool'
    BY <1>3, <1>4, <1>5, <1>6 DEF DevicePool, Tables, Gpu!Contexts
  <1>8. Scratch' /\ Phase' /\ items' = <<>>
    BY <1>1 DEF DeviceInv, Scratch, Phase, Item, Gpu!Contexts
  <1>9. QED
    BY <1>7, <1>8 DEF DeviceInv

\* Every step of the device pool keeps the invariant.
LEMMA DeviceStep ==
  ASSUME DeviceInv, [Gpu!Next]_gpuVars
  PROVE  DeviceInv'
  <1>1. ASSUME NEW batch \in Gpu!Batches, Gpu!Begin(batch) PROVE DeviceInv'
    BY <1>1, BeginDeviceInv
  <1>2. ASSUME NEW s \in Seqs, Gpu!FreeSeq(s) PROVE DeviceInv'
    BY <1>2, FreeSeqDeviceInv
  <1>3. CASE UNCHANGED gpuVars
    <2>1. /\ UNCHANGED <<gpu_block_table, gpu_ctx, gpu_kv, device_table, device_cap, faults>>
          /\ UNCHANGED <<pc, scan, items>>
      BY <1>3 DEF gpuVars
    <2>2. DevicePool' /\ Scratch' /\ Phase'
      BY <2>1, SameDevicePool DEF DeviceInv, Scratch, Phase, Item, Gpu!Contexts
    <2>3. ASSUME NEW k \in DOMAIN items PROVE Progress(k)'
      <3>1. PICK t, c : t = items[k].seq /\ c = Whole(k)
        OBVIOUS
      <3>2. Progress(k)
        BY DEF DeviceInv
      <3>3. t = items'[k].seq /\ c = gpu_ctx'[t] \o items'[k].tokens /\ items'[k].tokens # <<>>
        BY <2>1, <3>1, <3>2 DEF Whole, Progress
      <3>4. /\ Open(k)' = Open(k) /\ Reserved(k)' = Reserved(k) /\ Stored(k)' = Stored(k)
        BY <2>1 DEF Open, Reserved, Stored
      <3>5. /\ Open(k) => c \in Gpu!Contexts
            /\ Reserved(k) => Fits(t, Len(c))'
            /\ Stored(k) => HoldsRows(t, c)'
            /\ pc' \in {"write", "gather"} /\ k < scan' => items'[k].seen = c
        BY <2>1, <3>1, <3>2, SameDeviceRows DEF Progress
      <3>6. QED
        BY <3>3, <3>4, <3>5, ProgressThen
    <2>4. QED
      BY <2>1, <2>2, <2>3 DEF DeviceInv
  <1>4. QED
    BY <1>1, <1>2, <1>3, ReserveDeviceInv, ReservesDoneInv, WriteDeviceInv, GatherDeviceInv,
       FaultInv, WritesDoneInv, CommitDeviceInv
    DEF Gpu!Next

-----------------------------------------------------------------------------
(* The two pools. *)

PoolsInv == pool \in {"host", "device"} /\ StoreInv /\ DeviceInv

\* Only the pool of the behaviour moves.
LEMMA PoolsSteps ==
  ASSUME [PoolsNext]_<<vars, gpuVars, pool>>
  PROVE  /\ pool' = pool /\ [Next]_vars /\ [Gpu!Next]_gpuVars
         /\ pool = "device" => UNCHANGED vars
         /\ pool = "host" => UNCHANGED gpuVars
  BY DEF PoolsNext

LEMMA PoolsInvInit == PoolsInit => PoolsInv /\ RowInv
  BY InitInv, DeviceInit DEF PoolsInit, PoolsInv

LEMMA PoolsInvStep ==
  ASSUME PoolsInv, [PoolsNext]_<<vars, gpuVars, pool>>
  PROVE  PoolsInv' /\ (NoCollision /\ RowInv => RowInv')
  <1>1. pool' = pool /\ [Next]_vars /\ [Gpu!Next]_gpuVars
    BY PoolsSteps
  <1>2. StoreInv' /\ (NoCollision /\ RowInv => RowInv')
    BY <1>1, StepInv DEF PoolsInv
  <1>3. DeviceInv'
    BY <1>1, DeviceStep DEF PoolsInv
  <1>4. QED
    BY <1>1, <1>2, <1>3 DEF PoolsInv

\* The batch has at most one item of each sequence.
LEMMA BatchBounded ==
  ASSUME Phase
  PROVE  Len(items) \in Nat /\ Len(items) <= Cardinality(Seqs)
  <1>1. PICK n : n = Len(items)
    OBVIOUS
  <1>2. n \in Nat /\ DOMAIN items = 1..n /\ \A k \in 1..n : items[k].seq \in Seqs
    <2>1. items \in Seq(Item)
      BY DEF Phase
    <2>2. n \in Nat /\ DOMAIN items = 1..n
      BY <1>1, <2>1, LenProperties
    <2>3. \A k \in 1..n : items[k] \in Item
      BY <2>1, <2>2
    <2>4. QED
      BY <2>2, <2>3 DEF Item
  <1>3. PICK q : q = [k \in 1..n |-> items[k].seq]
    OBVIOUS
  <1>4. q \in [1..n -> Seqs] /\ Injective(q)
    BY <1>2, <1>3 DEF Phase, Injective
  <1>5. Cardinality(Entries(q)) = n
    BY <1>2, <1>4, CountOfInjective
  <1>6. Entries(q) \subseteq Seqs
    BY <1>4 DEF Entries
  <1>7. Cardinality(Entries(q)) <= Cardinality(Seqs)
    BY <1>6, SeqsAssumption, FS_Subset
  <1>8. QED
    BY <1>1, <1>2, <1>5, <1>7

\* The types of the device pool.
LEMMA DeviceTypes ==
  ASSUME DeviceInv
  PROVE  Gpu!TypeOK
  <1>1. ASSUME NEW s \in Seqs
        PROVE  /\ gpu_block_table[s] \in Seq(Blocks) /\ gpu_ctx[s] \in Gpu!Contexts
               /\ Len(gpu_ctx[s]) <= GpuBlockSize * Len(gpu_block_table[s])
    <2>1. gpu_block_table[s] \in Seq(Blocks) /\ gpu_ctx[s] \in Gpu!Contexts
      BY DEF DeviceInv, DevicePool, Tables
    <2>2. PICK n, k : n = Len(gpu_ctx[s]) /\ k = Len(gpu_block_table[s])
      OBVIOUS
    <2>3. n \in Nat /\ k \in Nat
      BY <2>1, <2>2, DeviceContexts, LenProperties
    <2>4. Fits(s, Len(gpu_ctx[s]))
      BY DEF DeviceInv, DevicePool
    <2>5. R!BlocksFor(n) <= k
      BY <2>2, <2>4, SameRows, Zenon DEF Fits
    <2>6. n <= k * GpuBlockSize
      BY <2>3, <2>5, SameRows, R!Covers
    <2>7. n <= GpuBlockSize * k
      BY <2>3, <2>6, GpuAssumption DEF Gpu!BlockSizeAssumption
    <2>8. QED
      BY <2>1, <2>2, <2>7, Zenon
  <1>2. Gpu!Cardinality(Blocks) = Cardinality(Blocks) /\ Gpu!Cardinality(Seqs) = Cardinality(Seqs)
    BY Zenon DEF Gpu!Cardinality, Cardinality
  <1>3. scan \in 1..(Cardinality(Seqs) + 1)
    <2>1. scan \in Nat \ {0} /\ scan <= Len(items) + 1
      BY DEF DeviceInv, Phase
    <2>2. Len(items) \in Nat /\ Len(items) <= Cardinality(Seqs) /\ Cardinality(Seqs) \in Nat
      BY BatchBounded, SeqsAssumption, FS_CardinalityType DEF DeviceInv
    <2>3. QED
      BY <2>1, <2>2
  <1>4. /\ gpu_kv \in [Blocks -> [1..GpuBlockSize -> Gpu!Contexts \cup {Junk}]]
        /\ device_table = Null \/ device_table \in [1..device_cap -> Blocks]
        /\ device_cap \in 0..Cardinality(Blocks)
        /\ pc \in {"idle", "reserve", "write", "gather", "commit"}
        /\ faults \in 0..Faults
    BY DEF DeviceInv, DevicePool, Scratch, Phase
  <1>5. QED
    BY <1>1, <1>2, <1>3, <1>4 DEF Gpu!TypeOK

\* The types of both pools, whatever device calls fail: tables name blocks and
\* cover the committed rows, the scratch has room for no more blocks than there
\* are, and a forward has one item per sequence at most.
THEOREM PoolsTypes == PoolsSpec => []PoolsTypeOK
  <1>1. PoolsInit => PoolsInv
    BY PoolsInvInit
  <1>2. PoolsInv /\ [PoolsNext]_<<vars, gpuVars, pool>> => PoolsInv'
    BY PoolsInvStep
  <1>3. PoolsInv => PoolsTypeOK
    <2> SUFFICES ASSUME PoolsInv PROVE PoolsTypeOK
      OBVIOUS
    <2>1. TypeOK
      BY TypesOfStore DEF PoolsInv
    <2>2. Gpu!TypeOK
      BY DeviceTypes DEF PoolsInv
    <2>3. QED
      BY <2>1, <2>2 DEF PoolsTypeOK
  <1>4. QED
    BY <1>1, <1>2, <1>3, PTL DEF PoolsSpec

\* Whatever the scratch table held for another item, and whatever a failed call
\* left in it, what the kernels gather for an item is its own context.
THEOREM SeenThroughScratch == PoolsSpec => []SeenIsOwnContext
  <1>1. PoolsInit => PoolsInv
    BY PoolsInvInit
  <1>2. PoolsInv /\ [PoolsNext]_<<vars, gpuVars, pool>> => PoolsInv'
    BY PoolsInvStep
  <1>3. PoolsInv => SeenIsOwnContext
    BY DEF PoolsInv, DeviceInv, Progress, Whole, SeenIsOwnContext, Gpu!SeenIsOwnContext
  <1>4. QED
    BY <1>1, <1>2, <1>3, PTL DEF PoolsSpec

-----------------------------------------------------------------------------
(* The store. *)

\* A step of the device pool leaves the contexts, or lengthens one, or empties one.
LEMMA DeviceContextStep ==
  ASSUME DeviceInv, [Gpu!Next]_gpuVars, gpu_ctx' # gpu_ctx
  PROVE  \E s \in Seqs : \E c \in Gpu!Contexts :
           /\ gpu_ctx' = [gpu_ctx EXCEPT ![s] = c]
           /\ c = <<>> \/ (Len(c) > Len(gpu_ctx[s]) /\ SubSeq(c, 1, Len(gpu_ctx[s])) = gpu_ctx[s])
  <1>1. ASSUME NEW batch, Gpu!Begin(batch) PROVE gpu_ctx' = gpu_ctx
    BY <1>1 DEF Gpu!Begin
  <1>2. ASSUME Gpu!Reserve \/ Gpu!ReservesDone \/ Gpu!WritesDone PROVE gpu_ctx' = gpu_ctx
    BY <1>2 DEF Gpu!Reserve, Gpu!ReservesDone, Gpu!WritesDone
  <1>3. ASSUME Gpu!Write \/ Gpu!Gather \/ Gpu!UploadFails \/ Gpu!DeviceFails
        PROVE  gpu_ctx' = gpu_ctx
    BY <1>3 DEF Gpu!Write, Gpu!Gather, Gpu!UploadFails, Gpu!DeviceFails
  <1>4. ASSUME UNCHANGED gpuVars PROVE gpu_ctx' = gpu_ctx
    BY <1>4 DEF gpuVars
  <1>5. Gpu!Commit \/ \E s \in Seqs : Gpu!FreeSeq(s)
    BY <1>1, <1>2, <1>3, <1>4 DEF Gpu!Next
  <1>6. ASSUME NEW s \in Seqs, Gpu!FreeSeq(s)
        PROVE  <<>> \in Gpu!Contexts /\ gpu_ctx' = [gpu_ctx EXCEPT ![s] = <<>>]
    BY <1>6, EmptyFits DEF Gpu!FreeSeq
  <1>7. CASE Gpu!Commit
    <2>1. pc = "commit" /\ scan \in DOMAIN items
      BY <1>7 DEF Gpu!Commit, DeviceInv, Phase
    <2>2. PICK s, c, d, t : s = items[scan].seq /\ c = Whole(scan) /\ d = gpu_ctx[s] /\ t = items[scan].tokens
      OBVIOUS
    <2>3. gpu_ctx' = [gpu_ctx EXCEPT ![s] = c]
      BY <1>7, <2>2 DEF Gpu!Commit, Gpu!Item, Whole
    <2>4. s \in Seqs /\ d \in Seq(Tokens) /\ t \in Seq(Tokens) /\ Len(t) \in Nat \ {0} /\ c = d \o t
      <3>1. /\ items[scan].seq \in Seqs /\ gpu_ctx[items[scan].seq] \in Seq(Tokens)
            /\ items[scan].tokens \in Seq(Tokens) /\ Len(items[scan].tokens) \in Nat \ {0}
        BY <2>1, ItemFacts
      <3>2. QED
        BY <2>2, <3>1, Zenon DEF Whole
    <2>5. c \in Gpu!Contexts
      <3>1. Progress(scan)
        BY <2>1, ItemFacts
      <3>2. scan >= scan
        BY <2>1 DEF DeviceInv, Phase
      <3>3. QED
        BY <2>2, <3>1, <3>2 DEF Progress, Open
    <2>6. PICK m, n : m = Len(d) /\ n = Len(t)
      OBVIOUS
    <2>7. m \in Nat /\ n \in Nat \ {0} /\ m \in 0..m
      BY <2>4, <2>6, LenProperties
    <2>8. Len(c) = m + n
      BY <2>4, <2>6, ConcatProperties
    <2>9. m \in 0..Len(d)
      BY <2>6, <2>7, Zenon
    <2>10. SubSeq(c, 1, m) = SubSeq(d, 1, m)
      BY <2>4, <2>9, PrefixWithin
    <2>11. SubSeq(d, 1, m) = d
      BY <2>4, <2>6, SubSeqFull
    <2>12. Len(c) > m
      BY <2>7, <2>8
    <2>13. QED
      BY <2>2, <2>3, <2>4, <2>5, <2>6, <2>10, <2>11, <2>12
  <1>8. QED
    BY <1>5, <1>6, <1>7

\* The rows either pool shows, and the contexts they are rows of.
PoolRows == [s \in Seqs |-> IF pool = "host" THEN Gather(s, Len(ctx[s]))
                            ELSE Gpu!Rows(gpu_block_table[s], Len(gpu_ctx[s]))]
PoolContext == IF pool = "host" THEN ctx ELSE gpu_ctx

LEMMA PoolRowsOfContext ==
  ASSUME PoolsInv, RowInv
  PROVE  /\ PoolRows = [s \in Seqs |-> EachStore!RowsOf(PoolContext[s])]
         /\ PoolContext \in [Seqs -> Contexts]
  <1>1. ASSUME NEW s \in Seqs PROVE Gather(s, Len(ctx[s])) = EachStore!RowsOf(ctx[s])
    <2>1. \A r \in 1..Len(ctx[s]) : Row(s, r) = SubSeq(ctx[s], 1, r)
      BY DEF RowInv, CommittedOf
    <2>2. QED
      BY <2>1 DEF Gather, Row, EachStore!RowsOf
  <1>2. /\ ctx \in [Seqs -> Contexts] /\ gpu_ctx \in [Seqs -> Gpu!Contexts] /\ Tables
        /\ \A s \in Seqs : Fits(s, Len(gpu_ctx[s])) /\ HoldsRows(s, gpu_ctx[s])
    BY DEF PoolsInv, StoreInv, TokenInv, DeviceInv, DevicePool
  <1>3. ASSUME NEW s \in Seqs
        PROVE  Gpu!Rows(gpu_block_table[s], Len(gpu_ctx[s])) = EachStore!RowsOf(gpu_ctx[s])
    <2>1. gpu_ctx[s] \in Seq(Tokens)
      BY <1>2, DeviceContexts
    <2>2. Gpu!Rows(gpu_block_table[s], Len(gpu_ctx[s]))
            = [r \in 1..Len(gpu_ctx[s]) |-> SubSeq(gpu_ctx[s], 1, r)]
      BY <1>2, <2>1, GatheredThroughScratch
    <2>3. QED
      BY <2>2, Zenon DEF EachStore!RowsOf
  <1>4. gpu_ctx \in [Seqs -> Contexts]
    BY <1>2, DeviceContexts
  <1>5. ASSUME NEW s \in Seqs PROVE PoolRows[s] = EachStore!RowsOf(PoolContext[s])
    BY <1>1, <1>3 DEF PoolRows, PoolContext
  <1>6. QED
    BY <1>2, <1>4, <1>5 DEF PoolRows, PoolContext

\* A step of either pool appends rows to one sequence of the store, or empties
\* one, or shows in none.
LEMMA PoolStoreStep ==
  ASSUME PoolsInv, RowInv, PoolsInv', RowInv', [PoolsNext]_<<vars, gpuVars, pool>>
  PROVE  [EachStore!Next]_PoolRows
  <1>1. /\ PoolRows = [s \in Seqs |-> EachStore!RowsOf(PoolContext[s])]
        /\ PoolContext \in [Seqs -> Contexts]
    BY PoolRowsOfContext
  <1>2. PoolRows' = [s \in Seqs |-> EachStore!RowsOf(PoolContext'[s])]
    <2>1. (PoolRows = [s \in Seqs |-> EachStore!RowsOf(PoolContext[s])])'
      BY PoolRowsOfContext, PTL
    <2>2. QED
      BY <2>1
  <1>3. CASE PoolContext' = PoolContext
    BY <1>1, <1>2, <1>3
  <1>4. CASE PoolContext' # PoolContext
    <2>1. \E s \in Seqs : \E c \in Contexts :
             /\ PoolContext' = [PoolContext EXCEPT ![s] = c]
             /\ \/ c = <<>>
                \/ Len(c) > Len(PoolContext[s]) /\ SubSeq(c, 1, Len(PoolContext[s])) = PoolContext[s]
      <3>1. pool' = pool /\ [Next]_vars /\ [Gpu!Next]_gpuVars
        BY PoolsSteps
      <3>2. CASE pool = "host"
        <4>1. PoolContext = ctx /\ PoolContext' = ctx'
          BY <3>1, <3>2 DEF PoolContext
        <4>2. QED
          BY <1>4, <3>1, <4>1, ContextStep DEF PoolsInv
      <3>3. CASE pool # "host"
        <4>1. PoolContext = gpu_ctx /\ PoolContext' = gpu_ctx'
          BY <3>1, <3>3 DEF PoolContext
        <4>2. QED
          BY <1>4, <3>1, <4>1, DeviceContextStep, DeviceContexts DEF PoolsInv
      <3>4. QED
        BY <3>2, <3>3
    <2>2. PICK s \in Seqs, c \in Contexts :
             /\ PoolContext' = [PoolContext EXCEPT ![s] = c]
             /\ \/ c = <<>>
                \/ Len(c) > Len(PoolContext[s]) /\ SubSeq(c, 1, Len(PoolContext[s])) = PoolContext[s]
      BY <2>1
    <2>3. PICK d \in Contexts : d = PoolContext[s]
      BY <1>1
    <2>4. /\ PoolRows'[s] = EachStore!RowsOf(c) /\ PoolRows[s] = EachStore!RowsOf(d)
          /\ PoolRows' = [PoolRows EXCEPT ![s] = EachStore!RowsOf(c)]
      BY <1>1, <1>2, <2>2, <2>3
    <2>5. CASE c = <<>>
      <3>1. EachStore!RowsOf(c) = <<>>
        BY <2>5 DEF EachStore!RowsOf
      <3>2. EachStore!Reset(s)
        BY <2>4, <3>1 DEF EachStore!Reset, PoolRows
      <3>3. QED
        BY <3>2 DEF EachStore!Next
    <2>6. CASE c # <<>>
      <3>1. Len(c) > Len(d) /\ SubSeq(c, 1, Len(d)) = d
        BY <2>2, <2>3, <2>6
      <3>2. \A e : Store!RowsOf(e) = EachStore!RowsOf(e)
        BY Zenon DEF Store!RowsOf, EachStore!RowsOf
      <3>3. /\ Len(EachStore!RowsOf(c)) > Len(EachStore!RowsOf(d))
            /\ SubSeq(EachStore!RowsOf(c), 1, Len(EachStore!RowsOf(d))) = EachStore!RowsOf(d)
        BY <3>1, <3>2, RowsOfLonger
      <3>4. EachStore!Extend(s)
        BY <2>4, <3>3 DEF EachStore!Extend, PoolRows
      <3>5. QED
        BY <3>4 DEF EachStore!Next
    <2>7. QED
      BY <2>5, <2>6
  <1>5. QED
    BY <1>3, <1>4

\* Each pool implements a private store of rows per sequence, with forwards that
\* fail half way and are tried again over the blocks they left reserved; the
\* host's provided that the chain hash of two different prefixes differs.
THEOREM PoolsAreStores == NoCollision => (PoolsSpec => PoolsImplementStore)
  <1> SUFFICES ASSUME NoCollision PROVE PoolsSpec => PoolsImplementStore
    OBVIOUS
  <1> DEFINE Inv == PoolsInv /\ RowInv
  <1>1. PoolsInit => Inv
    BY PoolsInvInit
  <1>2. Inv /\ [PoolsNext]_<<vars, gpuVars, pool>> => Inv'
    BY PoolsInvStep
  <1>3. PoolsInit => EachStore!Init
    BY DEF PoolsInit, Init, Gpu!Init, EachStore!Init, Gather, Gpu!Rows
  <1>4. Inv /\ Inv' /\ [PoolsNext]_<<vars, gpuVars, pool>> =>
          [EachStore!Next]_[s \in Seqs |-> IF pool = "host" THEN Gather(s, Len(ctx[s]))
                                           ELSE Gpu!Rows(gpu_block_table[s], Len(gpu_ctx[s]))]
    BY PoolStoreStep DEF PoolRows
  <1> HIDE DEF Inv
  <1>5. QED
    BY <1>1, <1>2, <1>3, <1>4, PTL DEF PoolsSpec, PoolsImplementStore, EachStore!Spec
=============================================================================
