------------------------- MODULE BlockManagerProofs -------------------------
(***************************************************************************)
(* Proofs about BlockManager, for every pool, every set of sequences, every*)
(* block size and (the store aside) every hash.                            *)
(*                                                                         *)
(* RefCountExact counts two finite sets per block.  Each operation changes *)
(* them by a set it adds (disjoint from what is there) or takes away (part *)
(* of what is there), and the cardinality theorems turn that into the      *)
(* arithmetic the operation does on the count.  Reserve is the exception:  *)
(* it sets counts to one, which is right because a free block has no holder*)
(* and no entry, and an evictable one has exactly its cache entry.         *)
(*                                                                         *)
(* TailExclusive is inductive beside it: reserve adds blocks nobody names, *)
(* sharing and registering only ever name full blocks.  From it follows    *)
(* that write() changes no row that another sequence, or the cache, or the *)
(* committed part of the writer itself reads.  RowInv says which row every *)
(* place holds: a committed, a written pending, or a cached one; with it   *)
(* the pool implements the private store of rows KVStore, since a key that *)
(* hits was made of the same tokens (NoCollision).                         *)
(***************************************************************************)
EXTENDS BlockManager, FiniteSetTheorems, SequenceTheorems, TLAPS

\* What the counting needs of the types of the state.
Shape ==
    /\ ref_count \in [Blocks -> Int]
    /\ block_table \in [Seqs -> Seq(Blocks)]
    /\ IsFiniteSet(DOMAIN prefix)
    /\ \A k \in DOMAIN prefix : prefix[k] \in Blocks

CountInv == Shape /\ RefCountExact

-----------------------------------------------------------------------------
(* Lemmas on the counted sets. *)

\* The places of a table are finitely many.
LEMMA PlacesAreFinite ==
  ASSUME NEW s, NEW n \in Int
  PROVE  IsFiniteSet({s} \X (1..n))
  <1>1. IsFiniteSet({s})
    BY FS_Singleton
  <1>2. IsFiniteSet(1..n)
    BY FS_Interval
  <1>3. QED
    BY <1>1, <1>2, FS_Product

\* A sequence holds finitely many references to a block.
LEMMA HeldIsFinite ==
  ASSUME Shape, NEW s \in Seqs, NEW b
  PROVE  IsFiniteSet(Held(s, b))
  <1> DEFINE n == Len(block_table[s])
  <1>1. block_table[s] \in Seq(Blocks) /\ n \in Nat /\ DOMAIN block_table[s] = 1..n
    BY DEF Shape
  <1>2. n \in Int
    BY <1>1
  <1>3. IsFiniteSet({s} \X (1..n))
    BY <1>2, PlacesAreFinite
  <1>4. Held(s, b) \in SUBSET ({s} \X (1..n))
    BY <1>1 DEF Held, Refs
  <1>5. QED
    BY <1>3, <1>4, FS_Subset

\* All sequences together hold finitely many references to a block: the
\* numerator of its count is a number.
LEMMA HoldersAreFinite ==
  ASSUME Shape, NEW b
  PROVE  IsFiniteSet(Holders(b))
  <1> DEFINE f == [s \in Seqs |-> Held(s, b)]
             T == {Held(s, b) : s \in Seqs}
  <1>1. f \in Surjection(Seqs, T)
    BY DEF Surjection
  <1>2. IsFiniteSet(T)
    BY <1>1, SeqsAssumption, FS_Surjection
  <1>3. \A t \in T : IsFiniteSet(t)
    BY HeldIsFinite
  <1>4. QED
    BY <1>2, <1>3, FS_UNION DEF Holders

\* The prefix cache holds finitely many entries on a block.
LEMMA CachedIsFinite ==
  ASSUME Shape, NEW b
  PROVE  IsFiniteSet(Cached(b))
  <1>1. Cached(b) \in SUBSET DOMAIN prefix
    BY DEF Cached
  <1>2. QED
    BY <1>1, FS_Subset DEF Shape

\* The counts are natural numbers.
LEMMA CountsAreNat ==
  ASSUME CountInv, NEW b \in Blocks
  PROVE  /\ Cardinality(Holders(b)) \in Nat
         /\ Cardinality(Cached(b)) \in Nat
         /\ ref_count[b] \in Nat
         /\ ref_count[b] = Cardinality(Holders(b)) + Cardinality(Cached(b))
  <1>1. IsFiniteSet(Holders(b)) /\ IsFiniteSet(Cached(b))
    BY HoldersAreFinite, CachedIsFinite DEF CountInv
  <1>2. QED
    BY <1>1, FS_CardinalityType DEF CountInv, RefCountExact

\* A reference is a pair of a sequence and a place in its table.
LEMMA HoldersMembers ==
  ASSUME NEW b, NEW h
  PROVE  h \in Holders(b) <=> \E s \in Seqs : h \in Held(s, b)
  BY DEF Holders

\* A reference of s to b is a place of the table of s that names b.
LEMMA HeldMembers ==
  ASSUME NEW s, NEW b, NEW h
  PROVE  h \in Held(s, b) <=> /\ h = <<s, h[2]>>
                              /\ h[2] \in DOMAIN block_table[s]
                              /\ block_table[s][h[2]] = b
  BY DEF Held, Refs

\* A free block is in no table and no cache entry.
LEMMA FreeIsUnused ==
  ASSUME CountInv, NEW b \in Blocks, ref_count[b] = 0
  PROVE  Holders(b) = {} /\ Cached(b) = {}
  <1>1. IsFiniteSet(Holders(b)) /\ IsFiniteSet(Cached(b))
    BY HoldersAreFinite, CachedIsFinite DEF CountInv
  <1>2. Cardinality(Holders(b)) = 0 /\ Cardinality(Cached(b)) = 0
    BY CountsAreNat
  <1>3. QED
    BY <1>1, <1>2, FS_EmptySet

\* The block of an evictable entry is in no table and in that entry only.
LEMMA EvictableIsCacheOnly ==
  ASSUME CountInv, NEW k \in Evictable
  PROVE  Holders(prefix[k]) = {} /\ Cached(prefix[k]) = {k}
  <1> DEFINE b == prefix[k]
  <1>1. b \in Blocks /\ ref_count[b] = 1 /\ k \in Cached(b)
    BY DEF Evictable, Cached, CountInv, Shape
  <1>2. IsFiniteSet(Holders(b)) /\ IsFiniteSet(Cached(b))
    BY HoldersAreFinite, CachedIsFinite DEF CountInv
  <1>3. Cardinality(Cached(b)) # 0
    BY <1>1, <1>2, FS_EmptySet
  <1>4. Cardinality(Holders(b)) = 0 /\ Cardinality(Cached(b)) = 1
    BY <1>1, <1>3, CountsAreNat
  <1>5. Holders(b) = {}
    BY <1>2, <1>4, FS_EmptySet
  <1>6. \E x : Cached(b) = {x}
    BY <1>2, <1>4, FS_Singleton
  <1>7. QED
    BY <1>1, <1>5, <1>6

\* How the references to b change when the table of s becomes q.
LEMMA TableChange ==
  ASSUME Shape, NEW s \in Seqs, NEW q, NEW b,
         block_table' = [block_table EXCEPT ![s] = q]
  PROVE  Holders(b)' = (Holders(b) \ Held(s, b))
                         \cup Refs(s, q, b)
  <1> DEFINE H(t) == Refs(t, block_table'[t], b)
  <1>1. \A t \in Seqs : block_table'[t] = IF t = s THEN q ELSE block_table[t]
    BY DEF Shape
  <1>2. Holders(b)' = UNION {H(t) : t \in Seqs}
    BY DEF Holders, Held, Refs
  <1>3. \A t \in Seqs : t # s => H(t) = Held(t, b)
    BY <1>1 DEF Held, Refs
  <1>4. H(s) = Refs(s, q, b)
    BY <1>1
  <1>5. \A t \in Seqs : t # s => Held(t, b) \cap Held(s, b) = {}
    BY DEF Held, Refs
  <1> HIDE DEF H
  <1>6. QED
    BY <1>2, <1>3, <1>4, <1>5 DEF Holders

\* Cardinalities of a disjoint union, and of what is left of a finite set.
LEMMA AddDisjoint ==
  ASSUME NEW S, NEW T, IsFiniteSet(S), IsFiniteSet(T), S \cap T = {}
  PROVE  /\ Cardinality(S) \in Nat /\ Cardinality(T) \in Nat
         /\ Cardinality(S \cup T) = Cardinality(S) + Cardinality(T)
  <1>1. Cardinality(S) \in Nat /\ Cardinality(T) \in Nat
    BY FS_CardinalityType
  <1>2. Cardinality(S \cap T) = 0
    BY FS_EmptySet
  <1>3. Cardinality(S \cup T) = Cardinality(S) + Cardinality(T) - Cardinality(S \cap T)
    BY FS_Union
  <1>4. QED
    BY <1>1, <1>2, <1>3

\* What is left of a finite set when part of it goes.
LEMMA TakeSubset ==
  ASSUME NEW S, NEW T, IsFiniteSet(S), T \subseteq S
  PROVE  /\ Cardinality(S) \in Nat /\ Cardinality(T) \in Nat
         /\ Cardinality(S \ T) = Cardinality(S) - Cardinality(T)
  <1>1. IsFiniteSet(T)
    BY FS_Subset
  <1>2. S \cap T = T
    OBVIOUS
  <1>3. QED
    BY <1>1, <1>2, FS_Difference, FS_CardinalityType

\* The places of a concatenation are those of its parts, the second ones shifted.
LEMMA ConcatPlaces ==
  ASSUME NEW S, NEW p \in Seq(S), NEW r \in Seq(S)
  PROVE  /\ p \o r \in Seq(S)
         /\ \A i \in DOMAIN p : i \in DOMAIN (p \o r) /\ (p \o r)[i] = p[i]
         /\ \A j \in DOMAIN r : /\ Len(p) + j \in DOMAIN (p \o r)
                                /\ (p \o r)[Len(p) + j] = r[j]
         /\ \A i \in DOMAIN (p \o r) : i \in DOMAIN p \/ \E j \in DOMAIN r : i = Len(p) + j
  <1>1. /\ Len(p) \in Nat /\ DOMAIN p = 1..Len(p)
        /\ Len(r) \in Nat /\ DOMAIN r = 1..Len(r)
    BY LenProperties
  <1>2. /\ p \o r \in Seq(S) /\ Len(p \o r) = Len(p) + Len(r)
        /\ DOMAIN (p \o r) = 1..(Len(p) + Len(r))
    BY ConcatProperties, LenProperties
  <1>3. \A i \in 1..(Len(p) + Len(r)) :
          (p \o r)[i] = IF i <= Len(p) THEN p[i] ELSE r[i - Len(p)]
    BY ConcatProperties
  <1>4. ASSUME NEW i \in DOMAIN p PROVE i \in DOMAIN (p \o r) /\ (p \o r)[i] = p[i]
    BY <1>1, <1>2, <1>3
  <1>5. ASSUME NEW j \in DOMAIN r
        PROVE  Len(p) + j \in DOMAIN (p \o r) /\ (p \o r)[Len(p) + j] = r[j]
    <2>1. Len(p) + j \in 1..(Len(p) + Len(r)) /\ ~ (Len(p) + j <= Len(p))
      BY <1>1
    <2>2. Len(p) + j - Len(p) = j
      BY <1>1
    <2>3. (p \o r)[Len(p) + j] = r[Len(p) + j - Len(p)]
      BY <2>1, <1>3
    <2>4. QED
      BY <2>1, <2>2, <2>3, <1>2
  <1>6. ASSUME NEW i \in DOMAIN (p \o r), i \notin DOMAIN p
        PROVE  \E j \in DOMAIN r : i = Len(p) + j
    <2>1. i - Len(p) \in DOMAIN r /\ i = Len(p) + (i - Len(p))
      BY <1>1, <1>2, <1>6
    <2>2. QED
      BY <2>1
  <1>7. QED
    BY <1>2, <1>4, <1>5, <1>6

\* A table that grows by blocks other than b has the same references to b.
LEMMA RefsOfOthers ==
  ASSUME NEW s, NEW b, NEW p \in Seq(Blocks), NEW r \in Seq(Blocks), b \notin Entries(r)
  PROVE  Refs(s, p \o r, b) = Refs(s, p, b)
  <1> DEFINE q == p \o r
             n == Len(p)
  <1>1. /\ \A i \in DOMAIN p : i \in DOMAIN q /\ q[i] = p[i]
        /\ \A j \in DOMAIN r : n + j \in DOMAIN q /\ q[n + j] = r[j]
        /\ \A i \in DOMAIN q : i \in DOMAIN p \/ \E j \in DOMAIN r : i = n + j
    BY ConcatPlaces
  <1> HIDE DEF q, n
  <1>2. \A j \in DOMAIN r : r[j] # b
    BY DEF Entries
  <1>3. \A i : (i \in DOMAIN q /\ q[i] = b) <=> (i \in DOMAIN p /\ p[i] = b)
    BY <1>1, <1>2
  <1>4. Refs(s, q, b) = Refs(s, p, b)
    BY <1>3 DEF Refs
  <1>5. QED
    BY <1>4 DEF q

\* A table without b that grows by distinct blocks, b among them, has one
\* reference to b.
LEMMA RefsOfNew ==
  ASSUME NEW s, NEW b, NEW p \in Seq(Blocks), NEW r \in Seq(Blocks),
         NEW j \in DOMAIN r, r[j] = b, Injective(r), Refs(s, p, b) = {}
  PROVE  Refs(s, p \o r, b) = {<<s, Len(p) + j>>}
  <1> DEFINE q == p \o r
             n == Len(p)
  <1>1. /\ \A i \in DOMAIN p : i \in DOMAIN q /\ q[i] = p[i]
        /\ \A i \in DOMAIN r : n + i \in DOMAIN q /\ q[n + i] = r[i]
        /\ \A i \in DOMAIN q : i \in DOMAIN p \/ \E k \in DOMAIN r : i = n + k
    BY ConcatPlaces
  <1> HIDE DEF q, n
  <1>2. \A i \in DOMAIN p : p[i] # b
    <2>1. ASSUME NEW i \in DOMAIN p, p[i] = b PROVE <<s, i>> \in Refs(s, p, b)
      BY <2>1 DEF Refs
    <2>2. QED
      BY <2>1
  <1>3. \A i \in DOMAIN r : r[i] = b => i = j
    BY DEF Injective
  <1>4. \A i : (i \in DOMAIN q /\ q[i] = b) <=> i = n + j
    BY <1>1, <1>2, <1>3
  <1>5. Refs(s, q, b) = {<<s, n + j>>}
    BY <1>4 DEF Refs
  <1>6. QED
    BY <1>5 DEF q, n

\* The same of the table of s, when b is one of the new blocks.
LEMMA OneNewRef ==
  ASSUME NEW s, NEW b, block_table[s] \in Seq(Blocks), Held(s, b) = {},
         NEW r \in Seq(Blocks), Injective(r), b \in Entries(r)
  PROVE  \E h : Refs(s, block_table[s] \o r, b) = {h}
  <1>1. PICK j \in DOMAIN r : r[j] = b
    BY DEF Entries
  <1>2. Refs(s, block_table[s], b) = {}
    BY DEF Held
  <1>3. Refs(s, block_table[s] \o r, b) = {<<s, Len(block_table[s]) + j>>}
    BY <1>1, <1>2, RefsOfNew
  <1>4. QED
    BY <1>3

-----------------------------------------------------------------------------
(* The operations. *)

\* An empty pool counts exactly: nothing is named and every count is zero.
LEMMA InitCounts == Init => CountInv
  <1> SUFFICES ASSUME Init PROVE CountInv
    OBVIOUS
  <1>1. DOMAIN prefix = {}
    BY DEF Init
  <1>2. Shape
    BY <1>1, FS_EmptySet DEF Init, Shape
  <1>3. ASSUME NEW b \in Blocks PROVE Holders(b) = {} /\ Cached(b) = {} /\ ref_count[b] = 0
    BY <1>1 DEF Init, Holders, Held, Refs, Cached
  <1>4. QED
    BY <1>2, <1>3, FS_EmptySet DEF CountInv, RefCountExact

\* free() takes from each block as many references as the table held.
LEMMA FreeSeqCounts ==
  ASSUME CountInv, NEW s \in Seqs, FreeSeq(s)
  PROVE  CountInv'
  <1> USE DEF CountInv
  <1>1. ASSUME NEW b \in Blocks
        PROVE  /\ Cardinality(Held(s, b)) \in Nat
               /\ Cardinality(Holders(b)') = Cardinality(Holders(b)) - Cardinality(Held(s, b))
               /\ Cached(b)' = Cached(b)
    <2>1. Holders(b)' = Holders(b) \ Held(s, b)
      <3> DEFINE q == <<>>
      <3>1. Refs(s, q, b) = {}
        BY DEF Refs
      <3>2. block_table' = [block_table EXCEPT ![s] = q] /\ Shape
        BY DEF FreeSeq
      <3> HIDE DEF q
      <3>3. Holders(b)' = (Holders(b) \ Held(s, b)) \cup Refs(s, q, b)
        BY <3>2, TableChange
      <3>4. QED
        BY <3>1, <3>3
    <2>2. Held(s, b) \subseteq Holders(b)
      BY DEF Holders
    <2>3. QED
      BY <2>1, <2>2, HoldersAreFinite, TakeSubset DEF Cached, FreeSeq
  <1>2. Shape'
    <2>1. ref_count' \in [Blocks -> Int]
      BY <1>1 DEF Shape, FreeSeq
    <2>2. block_table' \in [Seqs -> Seq(Blocks)]
      BY DEF Shape, FreeSeq
    <2>3. QED
      BY <2>1, <2>2 DEF Shape, FreeSeq
  <1>3. ASSUME NEW b \in Blocks
        PROVE  ref_count'[b] = Cardinality(Holders(b)') + Cardinality(Cached(b)')
    BY <1>1, CountsAreNat DEF FreeSeq
  <1>4. QED
    BY <1>2, <1>3 DEF RefCountExact

\* clear_prefix_cache() takes from each block as many as the cache held.
LEMMA ClearCounts ==
  ASSUME CountInv, ClearPrefixCache
  PROVE  CountInv'
  <1> USE DEF CountInv
  <1>1. DOMAIN prefix' = {}
    BY DEF ClearPrefixCache
  <1>2. Shape'
    <2>1. \A b \in Blocks : ref_count[b] - Cardinality(Cached(b)) \in Int
      BY CountsAreNat
    <2>2. QED
      BY <1>1, <2>1, FS_EmptySet DEF Shape, ClearPrefixCache
  <1>3. ASSUME NEW b \in Blocks
        PROVE  ref_count'[b] = Cardinality(Holders(b)') + Cardinality(Cached(b)')
    <2>1. Holders(b)' = Holders(b)
      BY DEF Holders, Held, Refs, ClearPrefixCache
    <2>2. Cached(b)' = {}
      BY <1>1 DEF Cached
    <2>3. ref_count'[b] = ref_count[b] - Cardinality(Cached(b))
      BY DEF ClearPrefixCache
    <2>4. QED
      BY <2>1, <2>2, <2>3, CountsAreNat, FS_EmptySet
  <1>4. QED
    BY <1>2, <1>3 DEF RefCountExact

\* Steps that touch neither tables nor counts nor the cache.
LEMMA IdleCounts ==
  ASSUME CountInv, UNCHANGED <<ref_count, block_table, prefix>>
  PROVE  CountInv'
  BY DEF CountInv, Shape, RefCountExact, Holders, Held, Refs, Cached

\* acquire_shared_prefix() adds to each block as many references as the new
\* table names it, duplicates counted.
LEMMA AcquireCounts ==
  ASSUME CountInv, NEW s \in Seqs, NEW toks, AcquireSharedPrefix(s, toks)
  PROVE  CountInv'
  <1> USE DEF CountInv
  <1> DEFINE q(m) == [i \in 1..m |-> prefix[Key(toks, i)]]
  <1>1. PICK m \in 0..FullBlocks(toks) :
          /\ \A i \in 1..m : Key(toks, i) \in DOMAIN prefix
          /\ block_table' = [block_table EXCEPT ![s] = q(m)]
          /\ ref_count' = [b \in Blocks |-> ref_count[b] + Cardinality(Refs(s, q(m), b))]
    BY DEF AcquireSharedPrefix
  <1> DEFINE qm == q(m)
  <1>2. m \in Nat /\ qm \in [1..m -> Blocks] /\ DOMAIN qm = 1..m
    BY <1>1 DEF Shape
  <1>3. qm \in Seq(Blocks)
    BY <1>2, IsASeq
  <1>4. prefix' = prefix
    BY DEF AcquireSharedPrefix
  <1>5. /\ block_table' = [block_table EXCEPT ![s] = qm]
        /\ ref_count' = [b \in Blocks |-> ref_count[b] + Cardinality(Refs(s, qm, b))]
    BY <1>1
  <1> HIDE DEF qm
  <1>6. ASSUME NEW b \in Blocks
        PROVE  /\ Cardinality(Refs(s, qm, b)) \in Nat
               /\ Cardinality(Holders(b)') = Cardinality(Holders(b)) + Cardinality(Refs(s, qm, b))
               /\ Cached(b)' = Cached(b)
    <2>1. Held(s, b) = {}
      BY DEF AcquireSharedPrefix, Held, Refs
    <2>2. Holders(b)' = Holders(b) \cup Refs(s, qm, b)
      BY <1>5, <2>1, TableChange
    <2>3. Holders(b) \cap Refs(s, qm, b) = {}
      BY <2>1 DEF Holders, Held, Refs
    <2>4. IsFiniteSet(Refs(s, qm, b))
      <3>1. m \in Int
        BY <1>2
      <3>2. IsFiniteSet({s} \X (1..m))
        BY <3>1, PlacesAreFinite
      <3>3. Refs(s, qm, b) \in SUBSET ({s} \X (1..m))
        BY <1>2 DEF Refs
      <3>4. QED
        BY <3>2, <3>3, FS_Subset
    <2>5. IsFiniteSet(Holders(b))
      BY HoldersAreFinite
    <2>6. QED
      BY <1>4, <2>2, <2>3, <2>4, <2>5, AddDisjoint DEF Cached
  <1>7. Shape'
    <2>1. ref_count' \in [Blocks -> Int]
      BY <1>5, <1>6 DEF Shape
    <2>2. block_table' \in [Seqs -> Seq(Blocks)]
      BY <1>3, <1>5 DEF Shape
    <2>3. QED
      BY <1>4, <2>1, <2>2 DEF Shape
  <1>8. ASSUME NEW b \in Blocks
        PROVE  ref_count'[b] = Cardinality(Holders(b)') + Cardinality(Cached(b)')
    <2>1. ref_count'[b] = ref_count[b] + Cardinality(Refs(s, qm, b))
      BY <1>5
    <2>2. QED
      BY <1>6, <2>1, CountsAreNat
  <1>9. QED
    BY <1>7, <1>8 DEF RefCountExact

\* register_prefix() adds one reference per entry it makes.
LEMMA RegisterCounts ==
  ASSUME CountInv, NEW s \in Seqs, NEW toks, Len(toks) \in Nat, RegisterPrefix(s, toks)
  PROVE  CountInv'
  <1> USE DEF CountInv
  <1> DEFINE full == Least(Len(block_table[s]), FullBlocks(toks))
             fresh == {Key(toks, i) : i \in 1..full} \ DOMAIN prefix
             added(f, b) == {k \in fresh : block_table[s][f[k]] = b}
  <1>1. PICK f \in [fresh -> 1..full] :
          /\ prefix' = [k \in (DOMAIN prefix) \cup fresh |->
                           IF k \in fresh THEN block_table[s][f[k]] ELSE prefix[k]]
          /\ ref_count' = [b \in Blocks |-> ref_count[b] + Cardinality(added(f, b))]
    BY DEF RegisterPrefix
  <1>2. block_table[s] \in Seq(Blocks) /\ Len(block_table[s]) \in Nat
    BY DEF Shape
  <1>3. FullBlocks(toks) \in Int
    BY BlockSizeAssumption DEF FullBlocks
  <1>4. full \in Int /\ full <= Len(block_table[s])
    BY <1>2, <1>3 DEF Least
  <1>5. IsFiniteSet(fresh)
    <2> DEFINE K == {Key(toks, i) : i \in 1..full}
               g == [i \in 1..full |-> Key(toks, i)]
    <2>1. g \in Surjection(1..full, K)
      BY DEF Surjection
    <2>2. IsFiniteSet(1..full)
      BY <1>4, FS_Interval
    <2>3. IsFiniteSet(K)
      BY <2>1, <2>2, FS_Surjection
    <2>4. QED
      BY <2>3, FS_Difference
  <1> HIDE DEF full, fresh
  <1>6. ASSUME NEW b \in Blocks
        PROVE  /\ Cardinality(added(f, b)) \in Nat
               /\ Cardinality(Cached(b)') = Cardinality(Cached(b)) + Cardinality(added(f, b))
               /\ Holders(b)' = Holders(b)
    <2>1. added(f, b) \in SUBSET fresh
      OBVIOUS
    <2>2. IsFiniteSet(added(f, b)) /\ IsFiniteSet(Cached(b))
      BY <2>1, <1>5, FS_Subset, CachedIsFinite
    <2>3. fresh \cap DOMAIN prefix = {}
      BY DEF fresh
    <2>4. Cached(b)' = Cached(b) \cup added(f, b)
      BY <1>1, <2>3 DEF Cached
    <2>5. Cached(b) \cap added(f, b) = {}
      BY <2>3 DEF Cached
    <2>6. Holders(b)' = Holders(b)
      BY DEF RegisterPrefix, Holders, Held, Refs
    <2>7. QED
      BY <2>2, <2>4, <2>5, <2>6, AddDisjoint
  <1>7. Shape'
    <2>1. ref_count' \in [Blocks -> Int]
      <3> HIDE DEF added
      <3>1. ASSUME NEW b \in Blocks
            PROVE  ref_count[b] + Cardinality(added(f, b)) \in Int
        <4>1. Cardinality(added(f, b)) \in Nat
          BY <1>6
        <4>2. ref_count[b] \in Int
          BY DEF Shape
        <4>3. QED
          BY <4>1, <4>2
      <3>2. QED
        BY <1>1, <3>1
    <2>2. DOMAIN prefix' = (DOMAIN prefix) \cup fresh
      BY <1>1
    <2>3. IsFiniteSet(DOMAIN prefix')
      <3>1. IsFiniteSet(DOMAIN prefix)
        BY DEF Shape
      <3>2. IsFiniteSet((DOMAIN prefix) \cup fresh)
        BY <3>1, <1>5, FS_Union
      <3>3. QED
        BY <2>2, <3>2
    <2>4. ASSUME NEW k \in DOMAIN prefix' PROVE prefix'[k] \in Blocks
      <3>1. CASE k \in fresh
        <4>1. f[k] \in 1..Len(block_table[s])
          BY <3>1, <1>2, <1>4
        <4>2. QED
          BY <4>1, <3>1, <1>1, <1>2
      <3>2. CASE k \notin fresh
        BY <3>2, <2>2, <1>1 DEF Shape
      <3>3. QED
        BY <3>1, <3>2
    <2>5. QED
      BY <2>1, <2>3, <2>4 DEF Shape, RegisterPrefix
  <1>8. ASSUME NEW b \in Blocks
        PROVE  ref_count'[b] = Cardinality(Holders(b)') + Cardinality(Cached(b)')
    <2>1. ref_count'[b] = ref_count[b] + Cardinality(added(f, b))
      BY <1>1
    <2>2. QED
      BY <1>6, <2>1, CountsAreNat
  <1>9. QED
    BY <1>7, <1>8 DEF RefCountExact

\* There are finitely many blocks to hand out, with or without eviction.
LEMMA FreeAndEvictableAreFinite ==
  ASSUME Shape
  PROVE  Cardinality(Free) \in Nat /\ Cardinality(Evictable) \in Nat
  <1>1. IsFiniteSet(Free)
    <2>1. Free \in SUBSET Blocks
      BY DEF Free
    <2>2. QED
      BY <2>1, BlocksAssumption, FS_Subset
  <1>2. IsFiniteSet(Evictable)
    <2>1. Evictable \in SUBSET DOMAIN prefix
      BY DEF Evictable
    <2>2. QED
      BY <2>1, FS_Subset DEF Shape
  <1>3. QED
    BY <1>1, <1>2, FS_CardinalityType

\* What reserve does to tables, counts and cache, the amounts left aside.
LEMMA ReserveEffect ==
  ASSUME Shape, NEW s \in Seqs, NEW toks, Len(ctx[s]) \in Nat, Len(toks) \in Nat,
         Reserve(s, toks)
  PROVE  \E take \in Nat : \E E \in SUBSET Evictable :
         \E new \in [1..take -> Free \cup {prefix[k] : k \in E}] :
           /\ Injective(new) /\ {prefix[k] : k \in E} \subseteq Entries(new)
           /\ block_table' = [block_table EXCEPT ![s] = block_table[s] \o new]
           /\ ref_count' = [b \in Blocks |-> IF b \in Entries(new) THEN 1 ELSE ref_count[b]]
           /\ prefix' = Rest(prefix, E)
  <1> DEFINE want == IF Deficit(s, Len(toks)) > 0 THEN Deficit(s, Len(toks)) ELSE 0
             take == Least(want, Cardinality(Free) + Cardinality(Evictable))
  <1>1. Deficit(s, Len(toks)) \in Int
    BY BlockSizeAssumption DEF Deficit, BlocksFor, Shape
  <1>2. want \in Nat
    BY <1>1
  <1>3. take \in Nat
    BY <1>2, FreeAndEvictableAreFinite DEF Least
  <1>4. \E E \in SUBSET Evictable :
        \E new \in [1..take -> Free \cup {prefix[k] : k \in E}] :
           /\ Injective(new) /\ {prefix[k] : k \in E} \subseteq Entries(new)
           /\ block_table' = [block_table EXCEPT ![s] = block_table[s] \o new]
           /\ ref_count' = [b \in Blocks |-> IF b \in Entries(new) THEN 1 ELSE ref_count[b]]
           /\ prefix' = Rest(prefix, E)
    BY DEF Reserve
  <1> HIDE DEF take
  <1>5. QED
    BY <1>3, <1>4

\* reserve() sets the count of each block it takes to one, which is what it
\* has then: a free or evictable block is named nowhere else. It holds for a
\* reserve that threw halfway too.
LEMMA ReserveCounts ==
  ASSUME CountInv, NEW s \in Seqs, NEW toks, Len(ctx[s]) \in Nat, Len(toks) \in Nat,
         Reserve(s, toks)
  PROVE  CountInv'
  <1> USE DEF CountInv
  <1>1. PICK take \in Nat : \E E \in SUBSET Evictable :
         \E new \in [1..take -> Free \cup {prefix[k] : k \in E}] :
           /\ Injective(new) /\ {prefix[k] : k \in E} \subseteq Entries(new)
           /\ block_table' = [block_table EXCEPT ![s] = block_table[s] \o new]
           /\ ref_count' = [b \in Blocks |-> IF b \in Entries(new) THEN 1 ELSE ref_count[b]]
           /\ prefix' = Rest(prefix, E)
    BY ReserveEffect
  <1>e. PICK E \in SUBSET Evictable :
         \E new \in [1..take -> Free \cup {prefix[k] : k \in E}] :
           /\ Injective(new) /\ {prefix[k] : k \in E} \subseteq Entries(new)
           /\ block_table' = [block_table EXCEPT ![s] = block_table[s] \o new]
           /\ ref_count' = [b \in Blocks |-> IF b \in Entries(new) THEN 1 ELSE ref_count[b]]
           /\ prefix' = Rest(prefix, E)
    BY <1>1
  <1>2. PICK new \in [1..take -> Free \cup {prefix[k] : k \in E}] :
           /\ Injective(new) /\ {prefix[k] : k \in E} \subseteq Entries(new)
           /\ block_table' = [block_table EXCEPT ![s] = block_table[s] \o new]
           /\ ref_count' = [b \in Blocks |-> IF b \in Entries(new) THEN 1 ELSE ref_count[b]]
           /\ prefix' = Rest(prefix, E)
    BY <1>e
  <1> DEFINE old == block_table[s]
             q == old \o new
  <1>3. old \in Seq(Blocks)
    BY DEF Shape
  <1>4. new \in [1..take -> Blocks] /\ DOMAIN new = 1..take
    BY DEF Free, Evictable, Shape
  <1>5. new \in Seq(Blocks)
    BY <1>4
  <1>6. q \in Seq(Blocks)
    BY <1>3, <1>5, ConcatPlaces
  <1>7. block_table' = [block_table EXCEPT ![s] = q]
    BY <1>2
  <1> HIDE DEF q
  <1>8. Shape'
    <2>1. ref_count' \in [Blocks -> Int]
      BY <1>2 DEF Shape
    <2>2. block_table' \in [Seqs -> Seq(Blocks)]
      BY <1>6, <1>7 DEF Shape
    <2>3. DOMAIN prefix' = (DOMAIN prefix) \ E
      BY <1>2 DEF Rest
    <2>4. IsFiniteSet((DOMAIN prefix) \ E)
      BY FS_Difference DEF Shape
    <2>5. \A k \in DOMAIN prefix' : prefix'[k] \in Blocks
      BY <1>2, <2>3 DEF Rest, Shape
    <2>6. QED
      BY <2>1, <2>2, <2>3, <2>4, <2>5 DEF Shape
  <1>9. ASSUME NEW b \in Blocks
        PROVE  ref_count'[b] = Cardinality(Holders(b)') + Cardinality(Cached(b)')
    <2>1. Holders(b)' = (Holders(b) \ Held(s, b)) \cup Refs(s, q, b)
      BY <1>7, TableChange
    <2>2. Cached(b)' = Cached(b) \ E
      BY <1>2 DEF Cached, Rest
    <2>3. CASE b \notin Entries(new)
      <3>2. Refs(s, q, b) = Held(s, b)
        BY <2>3, <1>3, <1>5, RefsOfOthers DEF Held, q
      <3>3. Held(s, b) \subseteq Holders(b)
        BY DEF Holders
      <3>4. Holders(b)' = Holders(b)
        BY <2>1, <3>2, <3>3
      <3>5. Cached(b) \cap E = {}
        BY <2>3, <1>2 DEF Cached
      <3>6. QED
        BY <2>2, <2>3, <3>4, <3>5, <1>2, CountsAreNat
    <2>4. CASE b \in Entries(new)
      <3>1. PICK i \in DOMAIN new : new[i] = b
        BY <2>4 DEF Entries
      <3>2. Holders(b) = {} /\ Cached(b) \ E = {}
        <4>1. CASE ref_count[b] = 0
          BY <4>1, FreeIsUnused
        <4>2. ASSUME NEW k \in E, b = prefix[k] PROVE Holders(b) = {} /\ Cached(b) \ E = {}
          <5>1. k \in Evictable
            OBVIOUS
          <5>2. Holders(b) = {} /\ Cached(b) = {k}
            BY <4>2, <5>1, EvictableIsCacheOnly
          <5>3. QED
            BY <5>2
        <4>3. ref_count[b] = 0 \/ \E k \in E : b = prefix[k]
          BY <3>1, <1>4 DEF Free
        <4>4. QED
          BY <4>1, <4>2, <4>3
      <3>3. Held(s, b) = {}
        BY <3>2 DEF Holders
      <3>4. \E h : Refs(s, q, b) = {h}
        BY <2>4, <3>3, <1>2, <1>3, <1>5, OneNewRef DEF q
      <3>5. \E h : Holders(b)' = {h}
        BY <2>1, <3>2, <3>4
      <3>6. Cardinality(Holders(b)') = 1 /\ Cardinality(Cached(b)') = 0
        BY <3>2, <3>5, <2>2, FS_Singleton, FS_EmptySet
      <3>7. QED
        BY <3>6, <2>4, <1>2
    <2>5. QED
      BY <2>3, <2>4
  <1>10. QED
    BY <1>8, <1>9 DEF RefCountExact

-----------------------------------------------------------------------------
(* The tokens of a sequence stay within the bound. *)

\* The committed and the pending tokens of a sequence form one context.
TokenInv == /\ ctx \in [Seqs -> Contexts]
            /\ pend \in [Seqs -> Contexts]
            /\ \A s \in Seqs : ctx[s] \o pend[s] \in Contexts

\* A context is a sequence of tokens within the bound.
LEMMA ContextIsBoundedSeq ==
  ASSUME NEW c
  PROVE  c \in Contexts <=> c \in Seq(Tokens) /\ Len(c) <= MaxLen
  <1>1. ASSUME c \in Contexts PROVE c \in Seq(Tokens) /\ Len(c) <= MaxLen
    <2>1. PICK n \in 0..MaxLen : c \in [1..n -> Tokens]
      BY <1>1 DEF Contexts
    <2>2. n \in Nat /\ c \in Seq(Tokens) /\ Len(c) = n
      BY <2>1, MaxLenAssumption
    <2>3. QED
      BY <2>1, <2>2
  <1>2. ASSUME c \in Seq(Tokens), Len(c) <= MaxLen PROVE c \in Contexts
    <2>1. c \in [1..Len(c) -> Tokens] /\ Len(c) \in 0..MaxLen
      BY <1>2, MaxLenAssumption, LenProperties
    <2>2. QED
      BY <2>1 DEF Contexts
  <1>3. QED
    BY <1>1, <1>2

\* The empty context is one.
LEMMA EmptyContext == <<>> \in Contexts /\ <<>> \o <<>> \in Contexts
  <1>1. <<>> \in Seq(Tokens) /\ Len(<<>>) = 0 /\ <<>> \o <<>> = <<>>
    OBVIOUS
  <1>2. Len(<<>>) <= MaxLen
    BY <1>1, MaxLenAssumption
  <1>3. <<>> \in Contexts
    BY <1>1, <1>2, ContextIsBoundedSeq
  <1>4. QED
    BY <1>1, <1>3

\* Appending nothing to a context leaves it.
LEMMA EmptyIsUnit == ASSUME NEW c \in Contexts PROVE c \o <<>> = c
  <1>1. c \in Seq(Tokens)
    BY ContextIsBoundedSeq
  <1>2. QED
    BY <1>1

\* The rows of the full blocks of a context are rows of it.
LEMMA WholeBlocksFit ==
  ASSUME NEW toks, Len(toks) \in Nat, NEW m \in 0..FullBlocks(toks)
  PROVE  m * BlockSize \in 0..Len(toks)
  <1> DEFINE l == Len(toks)
             d == l \div BlockSize
  <1>1. BlockSize \in Nat /\ BlockSize > 0 /\ l \in Nat
    BY BlockSizeAssumption
  <1>2. d \in Nat /\ d * BlockSize <= l
    BY <1>1
  <1>3. m \in Nat /\ m <= d
    BY <1>2 DEF FullBlocks
  <1> HIDE DEF l, d
  <1>4. m * BlockSize <= d * BlockSize /\ m * BlockSize \in Nat /\ d * BlockSize \in Nat
    BY <1>1, <1>2, <1>3
  <1>5. m * BlockSize <= l
    BY <1>1, <1>2, <1>4
  <1>6. QED
    BY <1>1, <1>4, <1>5 DEF l

\* Nothing is committed or pending at the start.
LEMMA InitTokens == Init => TokenInv
  BY EmptyContext DEF Init, TokenInv

-----------------------------------------------------------------------------
(* Rows, blocks and tables. *)

\* Products with the block size are ordered as their factors.
LEMMA Scale ==
  ASSUME NEW a \in Int, NEW b \in Int
  PROVE  /\ a * BlockSize \in Int
         /\ a <= b <=> a * BlockSize <= b * BlockSize
         /\ a < b <=> a * BlockSize + BlockSize <= b * BlockSize
         /\ (a + 1) * BlockSize = a * BlockSize + BlockSize
         /\ (a - 1) * BlockSize = a * BlockSize - BlockSize
  <1>1. BlockSize \in Int /\ BlockSize > 0
    BY BlockSizeAssumption
  <1>2. /\ (a + 1) * BlockSize = a * BlockSize + BlockSize
        /\ (a - 1) * BlockSize = a * BlockSize - BlockSize /\ a * BlockSize \in Int
    BY <1>1
  <1>3. ASSUME NEW x \in Int, NEW y \in Int, x <= y PROVE x * BlockSize <= y * BlockSize
    BY <1>1, <1>3
  <1>4. ASSUME a < b PROVE a * BlockSize + BlockSize <= b * BlockSize
    <2>1. a + 1 \in Int /\ a + 1 <= b
      BY <1>4
    <2>2. (a + 1) * BlockSize <= b * BlockSize
      BY <1>3, <2>1
    <2>3. QED
      BY <1>2, <2>2
  <1>5. ASSUME ~ (a < b) PROVE b * BlockSize <= a * BlockSize
    <2>1. b <= a
      BY <1>5
    <2>2. QED
      BY <1>3, <2>1
  <1>6. ASSUME ~ (a <= b) PROVE b * BlockSize + BlockSize <= a * BlockSize
    <2>1. b + 1 \in Int /\ b + 1 <= a
      BY <1>6
    <2>2. (b + 1) * BlockSize <= a * BlockSize
      BY <1>3, <2>1
    <2>3. (b + 1) * BlockSize = b * BlockSize + BlockSize
      BY <1>1
    <2>4. QED
      BY <2>2, <2>3
  <1>7. a * BlockSize \in Int /\ b * BlockSize \in Int
    BY <1>1
  <1>8. a <= b <=> a * BlockSize <= b * BlockSize
    BY <1>1, <1>3, <1>6, <1>7
  <1>9. a < b <=> a * BlockSize + BlockSize <= b * BlockSize
    BY <1>1, <1>4, <1>5, <1>7
  <1>10. QED
    BY <1>2, <1>8, <1>9

\* A row is in the block and at the slot it is looked up at.
LEMMA Position ==
  ASSUME NEW r \in Nat \ {0}
  PROVE  /\ BlockOf(r) \in Nat \ {0} /\ SlotOf(r) \in 1..BlockSize
         /\ r = (BlockOf(r) - 1) * BlockSize + SlotOf(r)
  <1>1. BlockSize \in Nat /\ BlockSize > 0 /\ r - 1 \in Nat
    BY BlockSizeAssumption
  <1> DEFINE d == (r - 1) \div BlockSize
             m == (r - 1) % BlockSize
  <1>2. d \in Nat /\ m \in 0..(BlockSize - 1) /\ r - 1 = BlockSize * d + m
    BY <1>1
  <1>3. BlockOf(r) = d + 1 /\ SlotOf(r) = m + 1
    BY DEF BlockOf, SlotOf
  <1> HIDE DEF d, m
  <1>4. BlockSize * d = d * BlockSize /\ BlockSize * d \in Nat
    BY <1>1, <1>2
  <1>5. QED
    BY <1>1, <1>2, <1>3, <1>4

\* No other row has that place.
LEMMA PositionOf ==
  ASSUME NEW i \in Nat \ {0}, NEW j \in 1..BlockSize
  PROVE  /\ (i - 1) * BlockSize + j \in Nat \ {0}
         /\ BlockOf((i - 1) * BlockSize + j) = i /\ SlotOf((i - 1) * BlockSize + j) = j
  <1>1. PICK r : r = (i - 1) * BlockSize + j
    OBVIOUS
  <1>2. BlockSize \in Nat /\ BlockSize > 0 /\ i - 1 \in Nat /\ i - 1 \in Int
    BY BlockSizeAssumption
  <1>3. (i - 1) * BlockSize \in Nat
    BY <1>2
  <1>4. r \in Nat \ {0}
    BY <1>1, <1>2, <1>3
  <1>5. PICK b, t : b = BlockOf(r) - 1 /\ t = SlotOf(r)
    OBVIOUS
  <1>6. b \in Nat /\ t \in 1..BlockSize /\ r = b * BlockSize + t
    BY <1>4, <1>5, Position
  <1>7. b * BlockSize \in Int
    BY <1>2, <1>6
  <1>8. ~ (b < i - 1)
    <2>1. b < i - 1 => b * BlockSize + BlockSize <= (i - 1) * BlockSize
      BY <1>2, <1>6, Scale
    <2>2. QED
      BY <1>1, <1>2, <1>3, <1>6, <1>7, <2>1
  <1>9. ~ (i - 1 < b)
    <2>1. i - 1 < b => (i - 1) * BlockSize + BlockSize <= b * BlockSize
      BY <1>2, <1>6, Scale
    <2>2. QED
      BY <1>1, <1>2, <1>3, <1>6, <1>7, <2>1
  <1>10. b = i - 1
    BY <1>2, <1>6, <1>8, <1>9
  <1>11. t = j
    BY <1>1, <1>2, <1>3, <1>6, <1>10
  <1>12. BlockOf(r) \in Nat
    BY <1>4, Position
  <1>13. BlockOf(r) = i
    BY <1>5, <1>10, <1>12
  <1>14. QED
    BY <1>1, <1>4, <1>5, <1>11, <1>13, Zenon

\* A table of k blocks covers n rows when their blocks are at most k.
LEMMA Covers ==
  ASSUME NEW n \in Nat, NEW k \in Nat
  PROVE  BlocksFor(n) \in Nat /\ (BlocksFor(n) <= k <=> n <= k * BlockSize)
  <1>1. BlockSize \in Nat /\ BlockSize > 0 /\ n + BlockSize - 1 \in Nat
    BY BlockSizeAssumption
  <1>2. PICK d, m : /\ d = (n + BlockSize - 1) \div BlockSize /\ m = (n + BlockSize - 1) % BlockSize
    OBVIOUS
  <1>3. d \in Nat /\ m \in 0..(BlockSize - 1) /\ n + BlockSize - 1 = BlockSize * d + m
    BY <1>1, <1>2
  <1>4. BlockSize * d = d * BlockSize /\ d * BlockSize \in Nat /\ k * BlockSize \in Nat
    BY <1>1, <1>3
  <1>5. d <= k <=> d * BlockSize <= k * BlockSize
    BY <1>3, Scale
  <1>6. k < d <=> k * BlockSize + BlockSize <= d * BlockSize
    <2>1. k \in Int /\ d \in Int
      BY <1>3
    <2>2. QED
      BY <2>1, Scale, Zenon
  <1>7. d <= k <=> n <= k * BlockSize
    BY <1>1, <1>3, <1>4, <1>5, <1>6
  <1>8. QED
    BY <1>2, <1>3, <1>7 DEF BlocksFor

\* The block of row r is among those a prefix of rows needs exactly if r is.
LEMMA RowInTable ==
  ASSUME NEW r \in Nat \ {0}, NEW k \in Nat
  PROVE  r <= k * BlockSize <=> BlockOf(r) <= k
  <1>1. PICK b, t : b = BlockOf(r) /\ t = SlotOf(r)
    OBVIOUS
  <1>2. /\ b \in Nat \ {0} /\ t \in 1..BlockSize /\ r = (b - 1) * BlockSize + t
        /\ BlockSize \in Nat /\ BlockSize > 0
    BY <1>1, Position, BlockSizeAssumption
  <1>3. /\ b <= k <=> b * BlockSize <= k * BlockSize
        /\ k < b <=> k * BlockSize + BlockSize <= b * BlockSize
        /\ (b - 1) * BlockSize = b * BlockSize - BlockSize
        /\ b * BlockSize \in Int /\ k * BlockSize \in Int
    BY <1>2, Scale
  <1>4. QED
    BY <1>1, <1>2, <1>3

-----------------------------------------------------------------------------
(* The rows of the pool.                                                    *)

\* What the row holds that s keeps at r.
Row(s, r) == kv[block_table[s][BlockOf(r)]][SlotOf(r)]

Types == /\ written \in [Seqs -> BOOLEAN]
         /\ kv \in [Blocks -> [1..BlockSize -> Contexts \cup {Junk}]]
         /\ older \subseteq (DOMAIN prefix) \X (DOMAIN prefix)

\* The table of a sequence covers its rows, the pending ones included.
Covered == \A s \in Seqs :
    /\ BlocksFor(Len(ctx[s]) + Len(pend[s])) <= Len(block_table[s])
    /\ written[s] => pend[s] # <<>>

StoreInv == CountInv /\ TokenInv /\ Types /\ Covered /\ TailExclusive

\* Committed rows of s are those of its context, written ones those of what the
\* forward appends to it.
CommittedOf(s) == \A r \in 1..Len(ctx[s]) : Row(s, r) = SubSeq(ctx[s], 1, r)
PendingOf(s) == written[s] =>
    \A r \in 1..Len(pend[s]) : Row(s, Len(ctx[s]) + r) = ctx[s] \o SubSeq(pend[s], 1, r)

\* A cached block holds the rows of the context that its key was made of.
EntryRows(k) == \E c \in Contexts : \E i \in 1..FullBlocks(c) :
    /\ k = Key(c, i)
    /\ \A j \in 1..BlockSize : kv[prefix[k]][j] = SubSeq(c, 1, (i - 1) * BlockSize + j)

RowInv == /\ \A s \in Seqs : CommittedOf(s) /\ PendingOf(s)
          /\ \A k \in DOMAIN prefix : EntryRows(k)

\* What s reads and writes stays where it is.
PlacesKept(s) == \A i \in DOMAIN block_table[s] :
    /\ i \in DOMAIN block_table'[s] /\ block_table'[s][i] = block_table[s][i]
    /\ kv'[block_table[s][i]] = kv[block_table[s][i]]

Exclusive(s, i) == /\ Holders(block_table[s][i]) = {<<s, i>>}
                   /\ Cached(block_table[s][i]) = {}

\* The tokens of s.
LEMMA TokensOf ==
  ASSUME TokenInv, NEW s \in Seqs
  PROVE  /\ ctx[s] \in Seq(Tokens) /\ pend[s] \in Seq(Tokens)
         /\ Len(ctx[s]) \in Nat /\ Len(pend[s]) \in Nat
         /\ ctx[s] \in Contexts /\ pend[s] \in Contexts /\ ctx[s] \o pend[s] \in Contexts
  <1>1. ctx[s] \in Contexts /\ pend[s] \in Contexts /\ ctx[s] \o pend[s] \in Contexts
    BY DEF TokenInv
  <1>2. ctx[s] \in Seq(Tokens) /\ pend[s] \in Seq(Tokens)
    BY <1>1, ContextIsBoundedSeq
  <1>3. QED
    BY <1>1, <1>2, LenProperties

\* The first tokens of a context are one.
LEMMA PrefixContext ==
  ASSUME NEW c \in Contexts, NEW n \in 0..Len(c)
  PROVE  SubSeq(c, 1, n) \in Contexts /\ Len(SubSeq(c, 1, n)) = n
  <1>1. c \in Seq(Tokens) /\ Len(c) <= MaxLen /\ Len(c) \in Nat
    BY ContextIsBoundedSeq, LenProperties
  <1>2. SubSeq(c, 1, n) \in Seq(Tokens) /\ Len(SubSeq(c, 1, n)) = n
    BY <1>1, SubSeqProperties
  <1>3. n <= MaxLen
    BY <1>1, MaxLenAssumption
  <1>4. QED
    BY <1>2, <1>3, ContextIsBoundedSeq

\* A row that the table covers has a place in it.
LEMMA RowPlace ==
  ASSUME StoreInv, NEW s \in Seqs, NEW r \in 1..(Len(ctx[s]) + Len(pend[s]))
  PROVE  /\ BlockOf(r) \in DOMAIN block_table[s] /\ block_table[s][BlockOf(r)] \in Blocks
         /\ SlotOf(r) \in 1..BlockSize /\ r <= BlockOf(r) * BlockSize
  <1>1. Len(ctx[s]) \in Nat /\ Len(pend[s]) \in Nat
    BY TokensOf DEF StoreInv
  <1>2. block_table[s] \in Seq(Blocks) /\ Len(block_table[s]) \in Nat
        /\ DOMAIN block_table[s] = 1..Len(block_table[s])
    BY DEF StoreInv, CountInv, Shape
  <1>3. PICK a, b, k : a = Len(ctx[s]) /\ b = Len(pend[s]) /\ k = Len(block_table[s])
    OBVIOUS
  <1>10. PICK n : n = a + b
    OBVIOUS
  <1>4. n \in Nat /\ k \in Nat /\ r \in Nat \ {0} /\ r <= n /\ BlocksFor(n) <= k
    <2>1. BlocksFor(n) <= k
      BY <1>3, <1>10, Zenon DEF StoreInv, Covered
    <2>2. a \in Nat /\ b \in Nat /\ k \in Nat /\ r \in 1..(a + b)
      BY <1>1, <1>2, <1>3, Zenon
    <2>3. QED
      BY <1>10, <2>1, <2>2
  <1>5. n <= k * BlockSize /\ k * BlockSize \in Int
    BY <1>4, Covers, Scale
  <1>6. r <= k * BlockSize
    BY <1>4, <1>5
  <1>7. BlockOf(r) <= k /\ BlockOf(r) \in Nat \ {0} /\ SlotOf(r) \in 1..BlockSize
    BY <1>4, <1>6, RowInTable, Position
  <1>8. BlockOf(r) \in DOMAIN block_table[s]
    BY <1>2, <1>3, <1>4, <1>7
  <1>9. r <= BlockOf(r) * BlockSize
    <2>1. BlockOf(r) \in Nat
      BY <1>7
    <2>2. QED
      BY <1>4, <2>1, RowInTable
  <1>11. QED
    BY <1>2, <1>7, <1>8, <1>9

\* A sequence whose places are kept keeps its rows.
LEMMA CommittedKept ==
  ASSUME StoreInv, NEW s \in Seqs, CommittedOf(s), PlacesKept(s), ctx'[s] = ctx[s]
  PROVE  CommittedOf(s)'
  <1>0. PICK m, n : m = Len(ctx[s]) /\ n = Len(pend[s]) /\ m \in Nat /\ n \in Nat
    BY TokensOf DEF StoreInv
  <1>1. ASSUME NEW r \in 1..Len(ctx[s]) PROVE Row(s, r)' = Row(s, r)
    <2>0. r \in 1..m /\ m \in Nat /\ n \in Nat
      BY <1>0, Zenon
    <2>9. r \in 1..(m + n)
      BY <2>0
    <2>1. r \in 1..(Len(ctx[s]) + Len(pend[s]))
      BY <1>0, <2>9, Zenon
    <2>2. BlockOf(r) \in DOMAIN block_table[s]
      BY <2>1, RowPlace
    <2>3. QED
      BY <2>2 DEF Row, PlacesKept
  <1>2. QED
    BY <1>1 DEF CommittedOf

LEMMA PendingKept ==
  ASSUME StoreInv, NEW s \in Seqs, PendingOf(s), PlacesKept(s), ctx'[s] = ctx[s],
         written'[s] => written[s] /\ pend'[s] = pend[s]
  PROVE  PendingOf(s)'
  <1>0. PICK m, n : m = Len(ctx[s]) /\ n = Len(pend[s]) /\ m \in Nat /\ n \in Nat
    BY TokensOf DEF StoreInv
  <1>1. ASSUME NEW r \in 1..Len(pend[s]), NEW p, p = Len(ctx[s]) + r PROVE Row(s, p)' = Row(s, p)
    <2>0. p = m + r /\ r \in 1..n /\ m \in Nat /\ n \in Nat
      BY <1>0, <1>1, Zenon
    <2>9. p \in 1..(m + n)
      BY <2>0
    <2>1. p \in 1..(Len(ctx[s]) + Len(pend[s]))
      BY <1>0, <2>9, Zenon
    <2>2. BlockOf(p) \in DOMAIN block_table[s]
      BY <2>1, RowPlace
    <2>3. QED
      BY <2>2 DEF Row, PlacesKept
  <1>2. QED
    BY <1>1 DEF PendingOf

\* A cached block is never a tail, and one sequence's tail is no other's block.
LEMMA TailPlace ==
  ASSUME StoreInv, NEW s \in Seqs, NEW i \in DOMAIN block_table[s],
         i * BlockSize > Len(ctx[s])
  PROVE  /\ block_table[s][i] \in Blocks
         /\ \A k \in DOMAIN prefix : prefix[k] # block_table[s][i]
         /\ \A t \in Seqs : \A j \in DOMAIN block_table[t] :
              block_table[t][j] = block_table[s][i] => t = s /\ j = i
  <1>1. Exclusive(s, i)
    BY DEF StoreInv, TailExclusive, Exclusive
  <1>2. block_table[s][i] \in Blocks
    BY DEF StoreInv, CountInv, Shape
  <1>3. \A k \in DOMAIN prefix : prefix[k] # block_table[s][i]
    BY <1>1 DEF Exclusive, Cached
  <1>4. ASSUME NEW t \in Seqs, NEW j \in DOMAIN block_table[t], block_table[t][j] = block_table[s][i]
        PROVE  t = s /\ j = i
    <2>1. <<t, j>> \in Held(t, block_table[s][i])
      BY <1>4 DEF Held, Refs
    <2>2. <<t, j>> \in Holders(block_table[s][i])
      BY <2>1 DEF Holders
    <2>3. QED
      BY <1>1, <2>2 DEF Exclusive
  <1>5. QED
    BY <1>2, <1>3, <1>4

\* What reserve() takes: blocks that nobody names but the entries it evicts.
Took(s, toks, E, new) ==
    /\ E \subseteq Evictable /\ new \in Seq(Blocks) /\ Injective(new)
    /\ \A b \in Entries(new) : b \in Free \/ \E k \in E : b = prefix[k]
    /\ \A k \in E : prefix[k] \in Entries(new)
    /\ block_table' = [block_table EXCEPT ![s] = block_table[s] \o new]
    /\ prefix' = Rest(prefix, E)
    /\ older' = {p \in older : p[1] \notin E /\ p[2] \notin E}
    /\ kv' = [b \in Blocks |-> IF b \in Entries(new) THEN Blank ELSE kv[b]]
    /\ ctx' = ctx /\ written' = written
    /\ \/ pend' = pend
       \/ /\ pend' = [pend EXCEPT ![s] = toks]
          /\ BlocksFor(Len(ctx[s]) + Len(toks)) <= Len(block_table[s]) + Len(new)

LEMMA ReserveTakes ==
  ASSUME Shape, NEW s \in Seqs, NEW toks, Len(ctx[s]) \in Nat, Len(toks) \in Nat,
         Reserve(s, toks)
  PROVE  \E E, new : Took(s, toks, E, new)
  <1> DEFINE want == IF Deficit(s, Len(toks)) > 0 THEN Deficit(s, Len(toks)) ELSE 0
             take == Least(want, Cardinality(Free) + Cardinality(Evictable))
  <1>1. /\ BlocksFor(Len(ctx[s]) + Len(toks)) \in Int /\ Len(block_table[s]) \in Nat
    <2>1. PICK a, b, n : a = Len(ctx[s]) /\ b = Len(toks) /\ n = a + b
      OBVIOUS
    <2>2. a \in Nat /\ b \in Nat
      BY <2>1, Zenon
    <2>3. n \in Nat
      BY <2>1, <2>2
    <2>4. BlocksFor(n) \in Nat
      BY <2>3, Covers
    <2>5. Len(block_table[s]) \in Nat
      BY DEF Shape
    <2>6. BlocksFor(n) \in Int
      BY <2>4
    <2>7. QED
      BY <2>1, <2>5, <2>6, Zenon
  <1>2. want \in Nat /\ BlocksFor(Len(ctx[s]) + Len(toks)) <= Len(block_table[s]) + want
    BY <1>1 DEF Deficit
  <1> HIDE DEF want
  <1>3. take \in Nat
    BY <1>2, FreeAndEvictableAreFinite DEF Least
  <1>4. PICK E \in SUBSET Evictable : \E new \in [1..take -> Free \cup {prefix[k] : k \in E}] :
          /\ Injective(new) /\ {prefix[k] : k \in E} \subseteq Entries(new)
          /\ block_table' = [block_table EXCEPT ![s] = @ \o new]
          /\ prefix' = Rest(prefix, E)
          /\ older' = {p \in older : p[1] \notin E /\ p[2] \notin E}
          /\ pend' = IF take < want THEN pend ELSE [pend EXCEPT ![s] = toks]
          /\ kv' = [b \in Blocks |-> IF b \in Entries(new) THEN Blank ELSE kv[b]]
          /\ UNCHANGED <<ctx, written>>
    BY DEF Reserve, want
  <1> HIDE DEF take
  <1>5. PICK new \in [1..take -> Free \cup {prefix[k] : k \in E}] :
          /\ Injective(new) /\ {prefix[k] : k \in E} \subseteq Entries(new)
          /\ block_table' = [block_table EXCEPT ![s] = @ \o new]
          /\ prefix' = Rest(prefix, E)
          /\ older' = {p \in older : p[1] \notin E /\ p[2] \notin E}
          /\ pend' = IF take < want THEN pend ELSE [pend EXCEPT ![s] = toks]
          /\ kv' = [b \in Blocks |-> IF b \in Entries(new) THEN Blank ELSE kv[b]]
          /\ UNCHANGED <<ctx, written>>
    BY <1>4
  <1>6. new \in [1..take -> Blocks] /\ DOMAIN new = 1..take
    BY DEF Free, Evictable, Shape
  <1>7. new \in Seq(Blocks) /\ Len(new) = take
    BY <1>3, <1>6, SeqDef, LenProperties
  <1>8. take < want \/ want <= Len(new)
    BY <1>2, <1>3, <1>7
  <1>9. want <= Len(new) => BlocksFor(Len(ctx[s]) + Len(toks)) <= Len(block_table[s]) + Len(new)
    <2>1. PICK f, t, n : /\ f = BlocksFor(Len(ctx[s]) + Len(toks)) /\ t = Len(block_table[s])
                         /\ n = Len(new)
      OBVIOUS
    <2>2. f \in Int /\ t \in Nat /\ n \in Nat /\ f <= t + want /\ want \in Nat
      BY <1>1, <1>2, <1>3, <1>7, <2>1, Zenon
    <2>3. want <= n => f <= t + n
      BY <2>2
    <2>4. QED
      BY <2>1, <2>3, Zenon
  <1>10. \A b \in Entries(new) : b \in Free \/ \E k \in E : b = prefix[k]
    BY <1>6 DEF Entries
  <1>11. Took(s, toks, E, new)
    BY <1>5, <1>7, <1>8, <1>9, <1>10 DEF Took
  <1>12. QED
    BY <1>11

LEMMA TakenUnused ==
  ASSUME StoreInv, NEW s, NEW toks, NEW E, NEW new, Took(s, toks, E, new), NEW b \in Entries(new)
  PROVE  b \in Blocks /\ Holders(b) = {} /\ Cached(b) \subseteq E
  <1>1. b \in Blocks
    BY DEF Took, Entries
  <1>2. CASE b \in Free
    BY <1>1, <1>2, FreeIsUnused DEF StoreInv, Free
  <1>3. ASSUME NEW k \in E, b = prefix[k] PROVE Holders(b) = {} /\ Cached(b) \subseteq E
    <2>1. k \in Evictable
      BY DEF Took
    <2>2. Holders(prefix[k]) = {} /\ Cached(prefix[k]) = {k}
      BY <2>1, EvictableIsCacheOnly DEF StoreInv
    <2>3. QED
      BY <1>3, <2>2
  <1>4. QED
    BY <1>1, <1>2, <1>3 DEF Took

\* A block that a table names, or an entry that stays, is not taken.
LEMMA NamedNotTaken ==
  ASSUME StoreInv, NEW s, NEW toks, NEW E, NEW new, Took(s, toks, E, new)
  PROVE  /\ \A t \in Seqs : \A i \in DOMAIN block_table[t] : block_table[t][i] \notin Entries(new)
         /\ \A k \in (DOMAIN prefix) \ E : prefix[k] \notin Entries(new)
  <1>1. ASSUME NEW t \in Seqs, NEW i \in DOMAIN block_table[t], block_table[t][i] \in Entries(new)
        PROVE  FALSE
    <2>1. <<t, i>> \in Holders(block_table[t][i])
      BY DEF Holders, Held, Refs
    <2>2. QED
      BY <1>1, <2>1, TakenUnused
  <1>2. ASSUME NEW k \in (DOMAIN prefix) \ E, prefix[k] \in Entries(new) PROVE FALSE
    <2>1. k \in Cached(prefix[k])
      BY DEF Cached
    <2>2. QED
      BY <1>2, <2>1, TakenUnused
  <1>3. QED
    BY <1>1, <1>2

LEMMA TookKeeps ==
  ASSUME StoreInv, NEW s \in Seqs, NEW toks, NEW E, NEW new, Took(s, toks, E, new)
  PROVE  /\ \A t \in Seqs : PlacesKept(t)
         /\ Len(block_table'[s]) = Len(block_table[s]) + Len(new)
         /\ \A t \in Seqs : t # s => block_table'[t] = block_table[t]
         /\ \A b : Cached(b)' = Cached(b) \ E
  <1>1. block_table \in [Seqs -> Seq(Blocks)]
    BY DEF StoreInv, CountInv, Shape
  <1>2. block_table'[s] = block_table[s] \o new /\ new \in Seq(Blocks)
        /\ \A t \in Seqs : t # s => block_table'[t] = block_table[t]
    BY <1>1 DEF Took
  <1>3. /\ \A i \in DOMAIN block_table[s] : /\ i \in DOMAIN block_table'[s]
                                            /\ block_table'[s][i] = block_table[s][i]
        /\ Len(block_table'[s]) = Len(block_table[s]) + Len(new)
    BY <1>1, <1>2, ConcatPlaces, ConcatProperties
  <1>4. ASSUME NEW t \in Seqs, NEW i \in DOMAIN block_table[t]
        PROVE  kv'[block_table[t][i]] = kv[block_table[t][i]]
    <2>1. block_table[t][i] \in Blocks
      BY <1>1
    <2>2. block_table[t][i] \notin Entries(new)
      BY NamedNotTaken
    <2>3. QED
      BY <2>1, <2>2 DEF Took
  <1>5. \A t \in Seqs : PlacesKept(t)
    BY <1>2, <1>3, <1>4 DEF PlacesKept
  <1>6. \A b : Cached(b)' = Cached(b) \ E
    BY DEF Took, Cached, Rest
  <1>7. QED
    BY <1>2, <1>3, <1>5, <1>6

LEMMA TookExclusive ==
  ASSUME StoreInv, NEW s \in Seqs, NEW toks, NEW E, NEW new, Took(s, toks, E, new)
  PROVE  TailExclusive'
  <1> SUFFICES ASSUME NEW t \in Seqs, NEW i \in DOMAIN block_table'[t],
                      i * BlockSize > Len(ctx'[t])
               PROVE  Exclusive(t, i)'
    BY DEF TailExclusive, Exclusive
  <1>1. /\ Shape /\ ctx' = ctx /\ block_table[s] \in Seq(Blocks) /\ new \in Seq(Blocks)
        /\ block_table' = [block_table EXCEPT ![s] = block_table[s] \o new]
        /\ block_table \in [Seqs -> Seq(Blocks)] /\ Injective(new)
    BY DEF StoreInv, CountInv, Shape, Took
  <1>2. PICK q : q = block_table[s] \o new
    OBVIOUS
  <1>3. ASSUME NEW b PROVE Holders(b)' = (Holders(b) \ Held(s, b)) \cup Refs(s, q, b)
    <2>1. block_table' = [block_table EXCEPT ![s] = q]
      BY <1>1, <1>2
    <2>2. QED
      BY <1>1, <2>1, TableChange
  <1>4. CASE i \in DOMAIN block_table[t]
    <2>1. block_table'[t][i] = block_table[t][i]
      BY <1>4, TookKeeps DEF PlacesKept
    <2>2. PICK b : b = block_table[t][i]
      OBVIOUS
    <2>3. Holders(b) = {<<t, i>>} /\ Cached(b) = {}
      BY <1>1, <1>4, <2>2 DEF StoreInv, TailExclusive
    <2>4. b \notin Entries(new)
      BY <1>4, <2>2, NamedNotTaken
    <2>5. Refs(s, q, b) = Held(s, b)
      BY <1>1, <1>2, <2>4, RefsOfOthers DEF Held
    <2>6. Held(s, b) \subseteq Holders(b)
      BY DEF Holders
    <2>7. Holders(b)' = {<<t, i>>} /\ Cached(b)' = {}
      BY <1>3, <2>3, <2>5, <2>6, TookKeeps
    <2>8. QED
      BY <2>1, <2>2, <2>7 DEF Exclusive
  <1>5. CASE i \notin DOMAIN block_table[t]
    <2>1. t = s
      BY <1>5, TookKeeps
    <2>2. block_table'[s] = q
      BY <1>1, <1>2
    <2>3. PICK j \in DOMAIN new : i = Len(block_table[s]) + j
      BY <1>1, <1>2, <1>5, <2>1, <2>2, ConcatPlaces
    <2>4. PICK b : b = new[j]
      OBVIOUS
    <2>5. q[i] = b /\ b \in Entries(new)
      BY <1>1, <1>2, <2>3, <2>4, ConcatPlaces DEF Entries
    <2>6. Holders(b) = {} /\ Cached(b) \subseteq E
      BY <2>5, TakenUnused
    <2>7. Refs(s, block_table[s], b) = {}
      BY <2>6 DEF Holders, Held
    <2>8. Refs(s, q, b) = {<<s, i>>}
      <3>1. Held(s, b) = {}
        BY <2>7 DEF Held
      <3>2. \E h : Refs(s, block_table[s] \o new, b) = {h}
        BY <1>1, <2>5, <3>1, OneNewRef
      <3>3. i \in DOMAIN q
        BY <2>1, <2>2
      <3>4. <<s, i>> \in Refs(s, q, b)
        BY <2>5, <3>3 DEF Refs
      <3>5. QED
        BY <1>2, <3>2, <3>4
    <2>9. Holders(b)' = {<<s, i>>} /\ Cached(b)' = {}
      BY <1>3, <2>6, <2>8, TookKeeps
    <2>10. QED
      BY <2>1, <2>2, <2>5, <2>9 DEF Exclusive
  <1>6. QED
    BY <1>4, <1>5

\* reserve() of the tokens of a forward keeps tables, counts and tails right, and
\* no row that anybody counts changes.
LEMMA ReserveInv ==
  ASSUME StoreInv, NEW s \in Seqs, pend[s] = <<>>, NEW toks \in Contexts,
         ctx[s] \o toks \in Contexts, toks # <<>>, Reserve(s, toks)
  PROVE  StoreInv' /\ (RowInv => RowInv')
  <1>1. Shape /\ Len(ctx[s]) \in Nat /\ Len(toks) \in Nat /\ ~ written[s]
        /\ pend \in [Seqs -> Contexts] /\ ctx \in [Seqs -> Contexts]
    <2>1. Shape /\ ~ written[s] /\ pend \in [Seqs -> Contexts] /\ ctx \in [Seqs -> Contexts]
      BY DEF StoreInv, CountInv, Covered, TokenInv
    <2>2. QED
      BY <2>1, ContextIsBoundedSeq, LenProperties
  <1>2. PICK E, new : Took(s, toks, E, new)
    BY <1>1, ReserveTakes
  <1>3. /\ ctx' = ctx /\ written' = written
        /\ \A t \in Seqs : PlacesKept(t)
        /\ Len(block_table'[s]) = Len(block_table[s]) + Len(new)
        /\ \A t \in Seqs : t # s => block_table'[t] = block_table[t]
    <2>1. ctx' = ctx /\ written' = written
      BY <1>2 DEF Took
    <2>2. QED
      BY <1>2, <2>1, TookKeeps, Zenon
  <1>4. CountInv'
    BY <1>1, ReserveCounts DEF StoreInv
  <1>5. pend' = pend \/ pend' = [pend EXCEPT ![s] = toks]
    BY <1>2 DEF Took
  <1>6. TokenInv'
    BY <1>1, <1>3, <1>5 DEF StoreInv, TokenInv
  <1>7. Types'
    <2>1. Blank \in [1..BlockSize -> Contexts \cup {Junk}]
      BY DEF Blank
    <2>2. kv' \in [Blocks -> [1..BlockSize -> Contexts \cup {Junk}]]
      BY <1>2, <2>1 DEF Took, StoreInv, Types
    <2>3. older' \subseteq (DOMAIN prefix') \X (DOMAIN prefix')
      BY <1>2 DEF Took, StoreInv, Types, Rest
    <2>4. QED
      BY <1>3, <2>2, <2>3 DEF StoreInv, Types
  <1>8. Covered'
    <2>1. ASSUME NEW t \in Seqs
          PROVE  /\ BlocksFor(Len(ctx[t]) + Len(pend'[t])) <= Len(block_table'[t])
                 /\ written[t] => pend'[t] # <<>>
      <3>1. /\ BlocksFor(Len(ctx[t]) + Len(pend[t])) <= Len(block_table[t])
            /\ written[t] => pend[t] # <<>>
        BY DEF StoreInv, Covered
      <3>2. CASE t # s
        BY <1>1, <1>3, <1>5, <3>1, <3>2
      <3>3. CASE t = s /\ pend'[s] = pend[s]
        <4>1. PICK f, m, n : /\ f = BlocksFor(Len(ctx[s]) + Len(pend[s]))
                             /\ m = Len(block_table[s]) /\ n = Len(new)
          OBVIOUS
        <4>2. n \in Nat /\ m \in Nat
          BY <1>1, <1>2, <4>1 DEF Took, Shape
        <4>3. f \in Int
          <5>1. PICK a : a = Len(ctx[s]) + Len(pend[s])
            OBVIOUS
          <5>2. Len(pend[s]) = 0
            OBVIOUS
          <5>3. a \in Nat
            BY <1>1, <5>1, <5>2
          <5>4. BlocksFor(a) \in Nat
            BY <5>3, Covers
          <5>5. QED
            BY <4>1, <5>1, <5>4
        <4>4. f <= m
          BY <3>1, <3>3, <4>1, Zenon
        <4>5. f <= m + n
          BY <4>2, <4>3, <4>4
        <4>6. BlocksFor(Len(ctx[s]) + Len(pend[s])) <= Len(block_table'[s])
          BY <1>3, <4>1, <4>5, Zenon
        <4>7. QED
          BY <1>1, <3>3, <4>6
      <3>4. CASE t = s /\ pend'[s] # pend[s]
        <4>1. pend' = [pend EXCEPT ![s] = toks]
              /\ BlocksFor(Len(ctx[s]) + Len(toks)) <= Len(block_table[s]) + Len(new)
          BY <1>2, <3>4 DEF Took
        <4>2. pend'[s] = toks
          BY <1>1, <4>1
        <4>3. QED
          BY <1>1, <1>3, <3>4, <4>1, <4>2
      <3>5. QED
        BY <3>2, <3>3, <3>4
    <2>2. QED
      BY <1>3, <2>1 DEF Covered
  <1>9. TailExclusive'
    BY <1>2, TookExclusive
  <1>10. ASSUME RowInv PROVE RowInv'
    <2>1. ASSUME NEW t \in Seqs PROVE CommittedOf(t)' /\ PendingOf(t)'
      <3>1. CommittedOf(t) /\ PendingOf(t) /\ PlacesKept(t) /\ ctx'[t] = ctx[t]
        BY <1>3, <1>10 DEF RowInv
      <3>2. written'[t] => written[t] /\ pend'[t] = pend[t]
        BY <1>1, <1>3, <1>5
      <3>3. QED
        BY <3>1, <3>2, CommittedKept, PendingKept
    <2>2. ASSUME NEW k \in DOMAIN prefix' PROVE EntryRows(k)'
      <3>1. k \in (DOMAIN prefix) \ E /\ prefix'[k] = prefix[k] /\ prefix[k] \in Blocks
        BY <1>1, <1>2 DEF Took, Rest, Shape
      <3>2. kv'[prefix[k]] = kv[prefix[k]]
        BY <1>2, <3>1, NamedNotTaken DEF Took
      <3>3. EntryRows(k)
        BY <1>10, <3>1 DEF RowInv
      <3>4. QED
        BY <3>1, <3>2, <3>3 DEF EntryRows
    <2>3. QED
      BY <2>1, <2>2 DEF RowInv
  <1>11. QED
    BY <1>4, <1>6, <1>7, <1>8, <1>9, <1>10 DEF StoreInv

\* A block that is still named after an operation that takes references is not
\* wiped: its count is not zero.
LEMMA NamedCounts ==
  ASSUME NEW H, NEW C, IsFiniteSet(H), IsFiniteSet(C), NEW x \in H \cup C
  PROVE  Cardinality(H) + Cardinality(C) # 0
  <1>1. Cardinality(H) \in Nat /\ Cardinality(C) \in Nat
    BY FS_CardinalityType
  <1>2. Cardinality(H) # 0 \/ Cardinality(C) # 0
    BY FS_EmptySet
  <1>3. QED
    BY <1>1, <1>2

LEMMA FreeSeqEffect ==
  ASSUME StoreInv, NEW s \in Seqs, FreeSeq(s)
  PROVE  /\ \A b : Holders(b)' = Holders(b) \ Held(s, b) /\ Cached(b)' = Cached(b)
         /\ \A b \in Blocks : Holders(b)' \cup Cached(b) # {} => kv'[b] = kv[b]
         /\ \A t \in Seqs : t # s => PlacesKept(t) /\ block_table'[t] = block_table[t]
         /\ block_table'[s] = <<>>
  <1>1. Shape /\ block_table \in [Seqs -> Seq(Blocks)] /\ CountInv
    BY DEF StoreInv, CountInv, Shape
  <1>2. block_table'[s] = <<>> /\ \A t \in Seqs : t # s => block_table'[t] = block_table[t]
    BY <1>1 DEF FreeSeq
  <1>3. ASSUME NEW b PROVE Holders(b)' = Holders(b) \ Held(s, b) /\ Cached(b)' = Cached(b)
    <2> DEFINE q == <<>>
    <2>1. Refs(s, q, b) = {}
      BY DEF Refs
    <2>2. block_table' = [block_table EXCEPT ![s] = q]
      BY DEF FreeSeq
    <2> HIDE DEF q
    <2>3. Holders(b)' = (Holders(b) \ Held(s, b)) \cup Refs(s, q, b)
      BY <1>1, <2>2, TableChange
    <2>4. QED
      BY <2>1, <2>3 DEF FreeSeq, Cached
  <1>4. ASSUME NEW b \in Blocks, NEW x \in Holders(b)' \cup Cached(b) PROVE kv'[b] = kv[b]
    <2>1. IsFiniteSet(Holders(b)) /\ IsFiniteSet(Cached(b)) /\ Held(s, b) \subseteq Holders(b)
      BY <1>1, HoldersAreFinite, CachedIsFinite DEF Holders
    <2>2. PICK H : H = Holders(b) \ Held(s, b)
      OBVIOUS
    <2>3. IsFiniteSet(H) /\ x \in H \cup Cached(b)
      BY <1>3, <1>4, <2>1, <2>2, FS_Difference
    <2>4. Cardinality(H) + Cardinality(Cached(b)) # 0
      BY <2>1, <2>3, NamedCounts
    <2>5. /\ Cardinality(Holders(b)) \in Nat /\ Cardinality(Held(s, b)) \in Nat
          /\ Cardinality(H) = Cardinality(Holders(b)) - Cardinality(Held(s, b))
      BY <2>1, <2>2, TakeSubset
    <2>6. /\ ref_count[b] = Cardinality(Holders(b)) + Cardinality(Cached(b))
          /\ Cardinality(Cached(b)) \in Nat
      BY <1>1, CountsAreNat
    <2>7. ref_count'[b] = ref_count[b] - Cardinality(Held(s, b))
      BY DEF FreeSeq
    <2>8. ref_count'[b] # 0
      BY <2>4, <2>5, <2>6, <2>7
    <2>9. QED
      BY <2>8 DEF FreeSeq
  <1>5. ASSUME NEW t \in Seqs, t # s PROVE PlacesKept(t)
    <2>1. ASSUME NEW i \in DOMAIN block_table[t]
          PROVE  kv'[block_table[t][i]] = kv[block_table[t][i]]
      <3>1. block_table[t][i] \in Blocks
        BY <1>1
      <3>2. <<t, i>> \in Holders(block_table[t][i]) /\ <<t, i>> \notin Held(s, block_table[t][i])
        BY <1>5 DEF Holders, Held, Refs
      <3>3. QED
        BY <1>3, <1>4, <3>1, <3>2
    <2>2. QED
      BY <1>2, <1>5, <2>1 DEF PlacesKept
  <1>6. QED
    BY <1>2, <1>3, <1>4, <1>5

\* free() empties one sequence, and what the others and the cache name stays.
LEMMA FreeSeqInv ==
  ASSUME StoreInv, NEW s \in Seqs, FreeSeq(s)
  PROVE  StoreInv' /\ (RowInv => RowInv')
  <1>1. /\ ctx' = [ctx EXCEPT ![s] = <<>>] /\ pend' = [pend EXCEPT ![s] = <<>>]
        /\ written' = [written EXCEPT ![s] = FALSE] /\ prefix' = prefix /\ older' = older
        /\ kv' = [b \in Blocks |-> IF ref_count'[b] = 0 THEN Blank ELSE kv[b]]
    BY DEF FreeSeq
  <1>2. /\ ctx \in [Seqs -> Contexts] /\ pend \in [Seqs -> Contexts]
        /\ written \in [Seqs -> BOOLEAN] /\ block_table \in [Seqs -> Seq(Blocks)]
        /\ kv \in [Blocks -> [1..BlockSize -> Contexts \cup {Junk}]]
        /\ \A k \in DOMAIN prefix : prefix[k] \in Blocks
    BY DEF StoreInv, CountInv, Shape, TokenInv, Types
  <1>3. /\ ctx'[s] = <<>> /\ pend'[s] = <<>> /\ ~ written'[s] /\ block_table'[s] = <<>>
        /\ \A t \in Seqs : t # s => /\ ctx'[t] = ctx[t] /\ pend'[t] = pend[t]
                                    /\ written'[t] = written[t]
                                    /\ block_table'[t] = block_table[t] /\ PlacesKept(t)
    BY <1>1, <1>2, FreeSeqEffect
  <1>4. CountInv'
    BY FreeSeqCounts DEF StoreInv
  <1>5. TokenInv'
    <2>1. \A t \in Seqs : ctx'[t] \o pend'[t] \in Contexts
      BY <1>3, EmptyContext DEF StoreInv, TokenInv
    <2>2. QED
      BY <1>1, <1>2, <2>1, EmptyContext DEF TokenInv
  <1>6. Types'
    <2>1. Blank \in [1..BlockSize -> Contexts \cup {Junk}]
      BY DEF Blank
    <2>2. QED
      BY <1>1, <1>2, <2>1 DEF StoreInv, Types
  <1>7. Covered'
    <2>1. BlocksFor(0) <= 0
      <3>1. 0 \in Nat /\ 0 <= 0 * BlockSize
        BY BlockSizeAssumption
      <3>2. QED
        BY <3>1, Covers
    <2>2. Len(<<>>) = 0 /\ 0 + 0 = 0
      OBVIOUS
    <2>3. BlocksFor(Len(ctx'[s]) + Len(pend'[s])) <= Len(block_table'[s])
      BY <1>3, <2>1, <2>2
    <2>4. QED
      BY <1>3, <2>3 DEF StoreInv, Covered
  <1>8. TailExclusive'
    <2>1. ASSUME NEW t \in Seqs, NEW i \in DOMAIN block_table'[t], i * BlockSize > Len(ctx'[t])
          PROVE  Exclusive(t, i)'
      <3>1. t # s /\ block_table'[t] = block_table[t] /\ ctx'[t] = ctx[t]
        BY <1>3, <2>1
      <3>2. PICK b : b = block_table[t][i]
        OBVIOUS
      <3>3. Holders(b) = {<<t, i>>} /\ Cached(b) = {}
        BY <2>1, <3>1, <3>2 DEF StoreInv, TailExclusive
      <3>4. <<t, i>> \notin Held(s, b)
        BY <3>1 DEF Held, Refs
      <3>5. Holders(b)' = {<<t, i>>} /\ Cached(b)' = {}
        BY <3>3, <3>4, FreeSeqEffect
      <3>6. QED
        BY <3>1, <3>2, <3>5 DEF Exclusive
    <2>2. QED
      BY <2>1 DEF TailExclusive, Exclusive
  <1>9. ASSUME RowInv PROVE RowInv'
    <2>1. ASSUME NEW t \in Seqs PROVE CommittedOf(t)' /\ PendingOf(t)'
      <3>1. CASE t = s
        <4>1. Len(ctx'[t]) = 0 /\ ~ written'[t]
          BY <1>3, <3>1
        <4>2. QED
          BY <4>1 DEF CommittedOf, PendingOf
      <3>2. CASE t # s
        <4>1. CommittedOf(t) /\ PendingOf(t)
          BY <1>9 DEF RowInv
        <4>2. QED
          BY <1>3, <3>2, <4>1, CommittedKept, PendingKept
      <3>3. QED
        BY <3>1, <3>2
    <2>2. ASSUME NEW k \in DOMAIN prefix PROVE EntryRows(k)'
      <3>1. k \in Cached(prefix[k]) /\ prefix[k] \in Blocks
        BY <1>2 DEF Cached
      <3>2. kv'[prefix[k]] = kv[prefix[k]]
        BY <3>1, FreeSeqEffect
      <3>3. EntryRows(k)
        BY <1>9 DEF RowInv
      <3>4. QED
        BY <1>1, <3>2, <3>3 DEF EntryRows
    <2>3. QED
      BY <1>1, <2>1, <2>2 DEF RowInv
  <1>10. QED
    BY <1>4, <1>5, <1>6, <1>7, <1>8, <1>9 DEF StoreInv

\* clear_prefix_cache() takes the cache's references only.
LEMMA ClearInv ==
  ASSUME StoreInv, ClearPrefixCache
  PROVE  StoreInv' /\ (RowInv => RowInv')
  <1>1. /\ DOMAIN prefix' = {} /\ older' = {}
        /\ kv' = [b \in Blocks |-> IF ref_count'[b] = 0 THEN Blank ELSE kv[b]]
        /\ UNCHANGED <<block_table, ctx, pend, written>>
    BY DEF ClearPrefixCache
  <1>2. /\ block_table \in [Seqs -> Seq(Blocks)] /\ Shape /\ CountInv
        /\ kv \in [Blocks -> [1..BlockSize -> Contexts \cup {Junk}]]
    BY DEF StoreInv, CountInv, Shape, Types
  <1>3. \A b : Holders(b)' = Holders(b) /\ Cached(b)' = {}
    BY <1>1 DEF Holders, Held, Refs, Cached
  <1>4. ASSUME NEW t \in Seqs PROVE PlacesKept(t)
    <2>1. ASSUME NEW i \in DOMAIN block_table[t]
          PROVE  kv'[block_table[t][i]] = kv[block_table[t][i]]
      <3>1. PICK b : b = block_table[t][i] /\ b \in Blocks
        BY <1>2
      <3>2. <<t, i>> \in Holders(b)
        BY <3>1 DEF Holders, Held, Refs
      <3>3. IsFiniteSet(Holders(b)) /\ Cardinality(Holders(b)) # 0
        BY <1>2, <3>2, HoldersAreFinite, FS_EmptySet
      <3>4. ref_count'[b] = ref_count[b] - Cardinality(Cached(b))
        BY <3>1 DEF ClearPrefixCache
      <3>5. ref_count'[b] # 0
        BY <1>2, <3>1, <3>3, <3>4, CountsAreNat
      <3>6. QED
        BY <1>1, <3>1, <3>5
    <2>2. QED
      BY <1>1, <2>1 DEF PlacesKept
  <1>5. CountInv'
    BY <1>2, ClearCounts
  <1>6. TokenInv' /\ Types' /\ Covered'
    <2>1. Blank \in [1..BlockSize -> Contexts \cup {Junk}]
      BY DEF Blank
    <2>2. Types'
      BY <1>1, <1>2, <2>1 DEF StoreInv, Types
    <2>3. TokenInv' /\ Covered'
      BY <1>1 DEF StoreInv, TokenInv, Covered
    <2>4. QED
      BY <2>2, <2>3
  <1>7. TailExclusive'
    BY <1>1, <1>3 DEF StoreInv, TailExclusive
  <1>8. ASSUME RowInv PROVE RowInv'
    <2>1. ASSUME NEW t \in Seqs PROVE CommittedOf(t)' /\ PendingOf(t)'
      <3>1. CommittedOf(t) /\ PendingOf(t) /\ PlacesKept(t) /\ ctx'[t] = ctx[t]
            /\ (written'[t] => written[t] /\ pend'[t] = pend[t])
        BY <1>1, <1>4, <1>8 DEF RowInv
      <3>2. QED
        BY <3>1, CommittedKept, PendingKept
    <2>2. QED
      BY <1>1, <2>1 DEF RowInv
  <1>9. QED
    BY <1>5, <1>6, <1>7, <1>8 DEF StoreInv

-----------------------------------------------------------------------------
(* Writing and committing. *)

\* The first tokens of the first tokens, and of a context that was appended to.
LEMMA PrefixTwice ==
  ASSUME NEW T, NEW c \in Seq(T), NEW n \in 0..Len(c), NEW m \in 0..n
  PROVE  SubSeq(SubSeq(c, 1, n), 1, m) = SubSeq(c, 1, m)
  <1>1. Len(c) \in Nat
    OBVIOUS
  <1>2. /\ SubSeq(c, 1, n) \in Seq(T) /\ Len(SubSeq(c, 1, n)) = n
        /\ \A i \in 1..n : SubSeq(c, 1, n)[i] = c[i]
    BY <1>1
  <1>3. /\ SubSeq(c, 1, m) \in Seq(T) /\ Len(SubSeq(c, 1, m)) = m
        /\ \A i \in 1..m : SubSeq(c, 1, m)[i] = c[i]
    BY <1>1
  <1>4. PICK d : d = SubSeq(c, 1, n)
    OBVIOUS
  <1>5. /\ SubSeq(d, 1, m) \in Seq(T) /\ Len(SubSeq(d, 1, m)) = m
        /\ \A i \in 1..m : SubSeq(d, 1, m)[i] = d[i]
    BY <1>1, <1>2, <1>4
  <1>6. \A i \in 1..m : SubSeq(d, 1, m)[i] = SubSeq(c, 1, m)[i]
    BY <1>2, <1>3, <1>4, <1>5
  <1>7. QED
    BY <1>3, <1>4, <1>5, <1>6, SeqEqual

LEMMA PrefixWithin ==
  ASSUME NEW T, NEW p \in Seq(T), NEW t \in Seq(T), NEW i \in 0..Len(p)
  PROVE  SubSeq(p \o t, 1, i) = SubSeq(p, 1, i)
  <1>1. Len(p) \in Nat /\ Len(t) \in Nat
    OBVIOUS
  <1>2. PICK c : c = p \o t
    OBVIOUS
  <1>3. c \in Seq(T) /\ Len(c) = Len(p) + Len(t) /\ \A k \in 1..Len(p) : c[k] = p[k]
    BY <1>1, <1>2
  <1>4. /\ SubSeq(p, 1, i) \in Seq(T) /\ Len(SubSeq(p, 1, i)) = i
        /\ \A k \in 1..i : SubSeq(p, 1, i)[k] = p[k]
    BY <1>1
  <1>5. /\ SubSeq(c, 1, i) \in Seq(T) /\ Len(SubSeq(c, 1, i)) = i
        /\ \A k \in 1..i : SubSeq(c, 1, i)[k] = c[k]
    BY <1>1, <1>3
  <1>6. \A k \in 1..i : SubSeq(c, 1, i)[k] = SubSeq(p, 1, i)[k]
    BY <1>1, <1>3, <1>4, <1>5
  <1>7. QED
    BY <1>2, <1>4, <1>5, <1>6, SeqEqual

LEMMA PrefixBeyond ==
  ASSUME NEW T, NEW p \in Seq(T), NEW t \in Seq(T), NEW i \in 0..Len(t)
  PROVE  SubSeq(p \o t, 1, Len(p) + i) = p \o SubSeq(t, 1, i)
  <1>1. Len(p) \in Nat /\ Len(t) \in Nat
    OBVIOUS
  <1>2. PICK c : c = p \o t
    OBVIOUS
  <1>3. /\ c \in Seq(T) /\ Len(c) = Len(p) + Len(t)
        /\ \A k \in 1..Len(p) : c[k] = p[k]
        /\ \A k \in 1..Len(t) : c[Len(p) + k] = t[k]
    BY <1>1, <1>2
  <1>4. PICK a, b : a = SubSeq(c, 1, Len(p) + i) /\ b = p \o SubSeq(t, 1, i)
    OBVIOUS
  <1>5. /\ a \in Seq(T) /\ Len(a) = Len(p) + i
        /\ \A k \in 1..(Len(p) + i) : a[k] = c[k]
    BY <1>1, <1>3, <1>4
  <1>6. /\ SubSeq(t, 1, i) \in Seq(T) /\ Len(SubSeq(t, 1, i)) = i
        /\ \A k \in 1..i : SubSeq(t, 1, i)[k] = t[k]
    BY <1>1
  <1>7. /\ b \in Seq(T) /\ Len(b) = Len(p) + i
        /\ \A k \in 1..Len(p) : b[k] = p[k]
        /\ \A k \in 1..i : b[Len(p) + k] = t[k]
    BY <1>1, <1>4, <1>6
  <1>8. ASSUME NEW k \in 1..(Len(p) + i) PROVE a[k] = b[k]
    <2>1. CASE k <= Len(p)
      BY <1>1, <1>3, <1>5, <1>7, <2>1
    <2>2. CASE ~ (k <= Len(p))
      <3>1. PICK l \in 1..i : k = Len(p) + l
        <4>1. k - Len(p) \in 1..i /\ k = Len(p) + (k - Len(p))
          BY <1>1, <2>2
        <4>2. QED
          BY <4>1
      <3>2. l \in 1..Len(t)
        BY <1>1
      <3>3. QED
        BY <1>3, <1>5, <1>7, <3>1, <3>2
    <2>3. QED
      BY <2>1, <2>2
  <1>9. a = b
    BY <1>5, <1>7, <1>8, SeqEqual
  <1>10. QED
    BY <1>2, <1>4, <1>9

\* What is gathered is the rows of a context of that length, or of none.
LEMMA GatheredContext ==
  ASSUME NEW n \in Nat, NEW g \in [1..n -> Contexts \cup {Junk}], ContextOf(g) # Junk
  PROVE  ContextOf(g) \in Contexts /\ Len(ContextOf(g)) = n
  <1>1. g \in Seq(Contexts \cup {Junk}) /\ Len(g) = n
    OBVIOUS
  <1>2. CASE g = <<>>
    BY <1>1, <1>2, EmptyContext DEF ContextOf
  <1>3. CASE g # <<>>
    <2>1. PICK c : c = g[n]
      OBVIOUS
    <2>2. n \in 1..n
      BY <1>1, <1>3
    <2>3. /\ ContextOf(g) = c /\ c # Junk /\ c \in Contexts
          /\ \A r \in DOMAIN g : g[r] = SubSeq(c, 1, r)
      BY <1>1, <1>3, <2>1, <2>2 DEF ContextOf
    <2>4. c = SubSeq(c, 1, n)
      BY <2>1, <2>2, <2>3
    <2>5. c \in Seq(Tokens)
      BY <2>3, ContextIsBoundedSeq
    <2>6. Len(SubSeq(c, 1, n)) = n
      OBVIOUS
    <2>7. QED
      BY <2>3, <2>4, <2>6
  <1>4. QED
    BY <1>2, <1>3

\* The rows of a context are recognised as its rows.
LEMMA ContextOfOwn ==
  ASSUME NEW c \in Contexts, NEW g, g = [r \in 1..Len(c) |-> SubSeq(c, 1, r)]
  PROVE  ContextOf(g) = c /\ c # Junk
  <1>1. c \in Seq(Tokens) /\ Len(c) \in Nat
    BY ContextIsBoundedSeq, LenProperties
  <1>2. c # Junk
    BY JunkAssumption
  <1>3. DOMAIN g = 1..Len(c) /\ Len(g) = Len(c)
    BY <1>1
  <1>4. ContextOf(g) = c
    <2>1. CASE Len(c) = 0
      <3>1. c = <<>>
        BY <1>1, <2>1
      <3>2. g = <<>>
        BY <1>1, <2>1
      <3>3. QED
        BY <3>1, <3>2 DEF ContextOf
    <2>2. CASE Len(c) # 0
      <3>1. Len(c) \in 1..Len(c) /\ g # <<>>
        BY <1>1, <1>3, <2>2
      <3>2. g[Len(c)] = c
        BY <1>1, <3>1, SubSeqFull
      <3>3. QED
        BY <1>2, <1>3, <3>1, <3>2 DEF ContextOf
    <2>3. QED
      BY <2>1, <2>2
  <1>5. QED
    BY <1>2, <1>4

\* Attention over the rows of a context computes the next rows of it.
LEMMA AttendOwn ==
  ASSUME NEW c \in Contexts, NEW t,
         NEW g, g = [r \in 1..Len(c) |-> SubSeq(c, 1, r)]
  PROVE  Attend(g, t) = c \o t
  BY ContextOfOwn DEF Attend

\* The rows the forward of s writes at slot i of block b.
Landing(s, b, i) == {r \in (Len(ctx[s]) + 1)..(Len(ctx[s]) + Len(pend[s])) :
                       block_table[s][BlockOf(r)] = b /\ SlotOf(r) = i}

\* A row is written in a tail of its own sequence, at one slot.
LEMMA LandsInTail ==
  ASSUME StoreInv, NEW s \in Seqs, NEW b, NEW i, NEW r \in Landing(s, b, i)
  PROVE  /\ r \in 1..(Len(ctx[s]) + Len(pend[s])) /\ r \notin 1..Len(ctx[s])
         /\ b \in Blocks /\ \A k \in DOMAIN prefix : prefix[k] # b
         /\ \A t \in Seqs : \A j \in DOMAIN block_table[t] :
              block_table[t][j] = b => t = s /\ j = BlockOf(r)
         /\ \A q \in 1..(Len(ctx[s]) + Len(pend[s])) :
              block_table[s][BlockOf(q)] = b /\ SlotOf(q) = i => q = r
  <1>1. PICK m, n : m = Len(ctx[s]) /\ n = Len(pend[s]) /\ m \in Nat /\ n \in Nat
    BY TokensOf DEF StoreInv
  <1>2. r \in (m + 1)..(m + n) /\ block_table[s][BlockOf(r)] = b /\ SlotOf(r) = i
    BY <1>1, Zenon DEF Landing
  <1>3. r \in 1..(m + n) /\ r \notin 1..m /\ r > m /\ r \in Nat \ {0}
    <2>1. r \in (m + 1)..(m + n) /\ m \in Nat /\ n \in Nat
      BY <1>1, <1>2, Zenon
    <2>2. QED
      BY <2>1
  <1>4. r \in 1..(Len(ctx[s]) + Len(pend[s])) /\ r \notin 1..Len(ctx[s])
    BY <1>1, <1>3, Zenon
  <1>5. /\ BlockOf(r) \in DOMAIN block_table[s] /\ r <= BlockOf(r) * BlockSize
    BY <1>4, RowPlace
  <1>6. BlockOf(r) * BlockSize > Len(ctx[s])
    <2>1. BlockOf(r) \in Nat
      BY <1>3, Position
    <2>2. BlockOf(r) * BlockSize \in Int
      BY <2>1, BlockSizeAssumption
    <2>3. BlockOf(r) * BlockSize > m
      BY <1>1, <1>3, <1>5, <2>2
    <2>4. QED
      BY <1>1, <2>3
  <1>7. /\ block_table[s][BlockOf(r)] \in Blocks
        /\ \A k \in DOMAIN prefix : prefix[k] # block_table[s][BlockOf(r)]
        /\ \A t \in Seqs : \A j \in DOMAIN block_table[t] :
              block_table[t][j] = block_table[s][BlockOf(r)] => t = s /\ j = BlockOf(r)
    BY <1>5, <1>6, TailPlace
  <1>8. ASSUME NEW q \in 1..(Len(ctx[s]) + Len(pend[s])),
               block_table[s][BlockOf(q)] = b, SlotOf(q) = i
        PROVE  q = r
    <2>1. BlockOf(q) \in DOMAIN block_table[s]
      BY RowPlace
    <2>2. BlockOf(q) = BlockOf(r)
      BY <1>2, <1>7, <1>8, <2>1
    <2>3. q \in Nat \ {0}
      OBVIOUS
    <2>4. q = (BlockOf(q) - 1) * BlockSize + SlotOf(q)
      BY <2>3, Position
    <2>5. r = (BlockOf(r) - 1) * BlockSize + SlotOf(r)
      BY <1>3, Position
    <2>6. QED
      BY <1>2, <1>8, <2>2, <2>4, <2>5
  <1>9. QED
    BY <1>2, <1>4, <1>7, <1>8

\* What write() does to the rows of everybody.
LEMMA WriteEffect ==
  ASSUME StoreInv, NEW s \in Seqs, Write(s)
  PROVE  /\ \A t \in Seqs : t # s => PlacesKept(t)
         /\ \A k \in DOMAIN prefix : kv'[prefix[k]] = kv[prefix[k]]
         /\ \A r \in 1..Len(ctx[s]) : Row(s, r)' = Row(s, r)
         /\ \A p, r : r \in 1..Len(pend[s]) /\ p = Len(ctx[s]) + r =>
              Row(s, p)' = Attend(Gather(s, Len(ctx[s])), SubSeq(pend[s], 1, r))
         /\ kv' \in [Blocks -> [1..BlockSize -> Contexts \cup {Junk}]]
  <1> DEFINE New(r) == Attend(Gather(s, Len(ctx[s])), SubSeq(pend[s], 1, r - Len(ctx[s])))
  <1>1. PICK m, n : m = Len(ctx[s]) /\ n = Len(pend[s]) /\ m \in Nat /\ n \in Nat
    BY TokensOf DEF StoreInv
  <1>2. /\ block_table' = block_table /\ block_table \in [Seqs -> Seq(Blocks)]
        /\ \A k \in DOMAIN prefix : prefix[k] \in Blocks
        /\ kv \in [Blocks -> [1..BlockSize -> Contexts \cup {Junk}]]
    BY DEF StoreInv, CountInv, Shape, Types, Write
  <1>3. kv' = [b \in Blocks |-> [i \in 1..BlockSize |->
                 IF Landing(s, b, i) = {} THEN kv[b][i]
                 ELSE New(CHOOSE r \in Landing(s, b, i) : TRUE)]]
    BY DEF Write, Landing
  <1> HIDE DEF New
  <1>4. ASSUME NEW b \in Blocks, \A i : Landing(s, b, i) = {} PROVE kv'[b] = kv[b]
    BY <1>2, <1>3, <1>4
  <1>5. ASSUME NEW b \in Blocks, NEW i \in 1..BlockSize, NEW r \in Landing(s, b, i)
        PROVE  kv'[b][i] = New(r)
    <2>1. r \in 1..(Len(ctx[s]) + Len(pend[s])) /\ Landing(s, b, i) # {}
      BY LandsInTail
    <2>2. ASSUME NEW q \in Landing(s, b, i) PROVE q = r
      <3>1. q \in 1..(Len(ctx[s]) + Len(pend[s]))
        BY LandsInTail
      <3>2. block_table[s][BlockOf(q)] = b /\ SlotOf(q) = i
        BY DEF Landing
      <3>3. \A z \in 1..(Len(ctx[s]) + Len(pend[s])) :
              block_table[s][BlockOf(z)] = b /\ SlotOf(z) = i => z = r
        BY LandsInTail
      <3>4. QED
        BY <3>1, <3>2, <3>3, Zenon
    <2>3. (CHOOSE q \in Landing(s, b, i) : TRUE) = r
      BY <2>2
    <2>4. QED
      BY <1>3, <2>1, <2>3
  <1>6. ASSUME NEW t \in Seqs, t # s PROVE PlacesKept(t)
    <2>1. ASSUME NEW j \in DOMAIN block_table[t]
          PROVE  kv'[block_table[t][j]] = kv[block_table[t][j]]
      <3>1. block_table[t][j] \in Blocks
        BY <1>2
      <3>2. \A i : Landing(s, block_table[t][j], i) = {}
        BY <1>6, LandsInTail
      <3>3. QED
        BY <1>4, <3>1, <3>2
    <2>2. QED
      BY <1>2, <2>1 DEF PlacesKept
  <1>7. ASSUME NEW k \in DOMAIN prefix PROVE kv'[prefix[k]] = kv[prefix[k]]
    <2>1. \A i : Landing(s, prefix[k], i) = {}
      BY LandsInTail
    <2>2. QED
      BY <1>2, <1>4, <2>1
  <1>8. ASSUME NEW r \in 1..Len(ctx[s]) PROVE Row(s, r)' = Row(s, r)
    <2>1. r \in 1..(Len(ctx[s]) + Len(pend[s]))
      <3>1. r \in 1..m /\ m \in Nat /\ n \in Nat
        BY <1>1, Zenon
      <3>2. r \in 1..(m + n)
        BY <3>1
      <3>3. QED
        BY <1>1, <3>2, Zenon
    <2>2. PICK b, i : b = block_table[s][BlockOf(r)] /\ i = SlotOf(r)
      OBVIOUS
    <2>3. b \in Blocks /\ i \in 1..BlockSize
      BY <2>1, <2>2, RowPlace
    <2>4. ASSUME NEW q \in Landing(s, b, i) PROVE FALSE
      <3>1. /\ q \notin 1..Len(ctx[s])
            /\ \A z \in 1..(Len(ctx[s]) + Len(pend[s])) :
                 block_table[s][BlockOf(z)] = b /\ SlotOf(z) = i => z = q
        BY LandsInTail
      <3>2. r = q
        BY <2>1, <2>2, <3>1, Zenon
      <3>3. QED
        BY <3>1, <3>2
    <2>5. Landing(s, b, i) = {}
      BY <2>4
    <2>6. kv'[b][i] = kv[b][i]
      BY <1>3, <2>3, <2>5
    <2>7. QED
      BY <1>2, <2>2, <2>6 DEF Row
  <1>9. ASSUME NEW p, NEW r \in 1..Len(pend[s]), p = Len(ctx[s]) + r
        PROVE  Row(s, p)' = Attend(Gather(s, Len(ctx[s])), SubSeq(pend[s], 1, r))
    <2>1. p = m + r /\ r \in 1..n /\ m \in Nat /\ n \in Nat
      BY <1>1, <1>9, Zenon
    <2>2. p \in (m + 1)..(m + n) /\ p \in 1..(m + n) /\ p - m = r
      BY <2>1
    <2>3. /\ p \in (Len(ctx[s]) + 1)..(Len(ctx[s]) + Len(pend[s])) /\ p - Len(ctx[s]) = r
          /\ p \in 1..(Len(ctx[s]) + Len(pend[s]))
      BY <1>1, <2>2, Zenon
    <2>4. PICK b, i : b = block_table[s][BlockOf(p)] /\ i = SlotOf(p)
      OBVIOUS
    <2>5. p \in Landing(s, b, i)
      BY <2>3, <2>4 DEF Landing
    <2>6. b \in Blocks /\ i \in 1..BlockSize
      BY <2>3, <2>4, RowPlace
    <2>7. kv'[b][i] = New(p)
      BY <1>5, <2>5, <2>6
    <2>8. QED
      BY <1>2, <2>3, <2>4, <2>7 DEF Row, New
  <1>10. ASSUME NEW b \in Blocks, NEW i \in 1..BlockSize PROVE kv'[b][i] \in Contexts \cup {Junk}
    <2>1. CASE Landing(s, b, i) = {}
      BY <1>2, <1>3, <2>1
    <2>2. ASSUME NEW r \in Landing(s, b, i) PROVE New(r) \in Contexts \cup {Junk}
      <3>1. PICK k : k = r - m
        OBVIOUS
      <3>2. r \in (m + 1)..(m + n) /\ m \in Nat /\ n \in Nat
        BY <1>1, Zenon DEF Landing
      <3>3. k \in 1..n /\ k \in 0..n /\ m + k <= m + n
        BY <3>1, <3>2
      <3>4. PICK g : g = Gather(s, m)
        OBVIOUS
      <3>5. PICK c : c = ContextOf(g)
        OBVIOUS
      <3>6. g \in [1..m -> Contexts \cup {Junk}]
        <4>1. ASSUME NEW q \in 1..m PROVE Row(s, q) \in Contexts \cup {Junk}
          <5>1. q \in 1..(m + n)
            BY <3>2
          <5>2. q \in 1..(Len(ctx[s]) + Len(pend[s]))
            BY <1>1, <5>1, Zenon
          <5>3. block_table[s][BlockOf(q)] \in Blocks /\ SlotOf(q) \in 1..BlockSize
            BY <5>2, RowPlace
          <5>4. QED
            BY <1>2, <5>3 DEF Row
        <4>2. QED
          BY <3>4, <4>1 DEF Gather, Row
      <3>7. PICK t : t = SubSeq(pend[s], 1, k)
        OBVIOUS
      <3>8. New(r) = IF c = Junk THEN Junk ELSE c \o t
        BY <1>1, <3>1, <3>4, <3>5, <3>7 DEF New, Attend
      <3>9. ASSUME c # Junk PROVE c \o t \in Contexts
        <4>1. c \in Contexts /\ Len(c) = m
          BY <3>2, <3>5, <3>6, <3>9, GatheredContext
        <4>2. c \in Seq(Tokens) /\ pend[s] \in Seq(Tokens)
          BY <4>1, ContextIsBoundedSeq, TokensOf DEF StoreInv
        <4>3. k \in 0..Len(pend[s])
          BY <1>1, <3>3
        <4>4. t \in Seq(Tokens) /\ Len(t) = k
          BY <3>7, <4>2, <4>3
        <4>5. c \o t \in Seq(Tokens) /\ Len(c \o t) = m + k
          BY <4>1, <4>2, <4>4
        <4>6. m + n <= MaxLen
          <5>1. ctx[s] \o pend[s] \in Contexts /\ ctx[s] \in Seq(Tokens) /\ pend[s] \in Seq(Tokens)
            BY TokensOf DEF StoreInv
          <5>2. Len(ctx[s] \o pend[s]) = Len(ctx[s]) + Len(pend[s])
            BY <5>1
          <5>3. Len(ctx[s] \o pend[s]) <= MaxLen
            BY <5>1, ContextIsBoundedSeq
          <5>4. QED
            BY <1>1, <5>2, <5>3
        <4>7. m + k <= MaxLen
          BY <3>2, <3>3, <4>6, MaxLenAssumption
        <4>8. QED
          BY <4>5, <4>7, ContextIsBoundedSeq
      <3>10. QED
        BY <3>8, <3>9
    <2>3. QED
      BY <1>5, <2>1, <2>2
  <1>11. kv' \in [Blocks -> [1..BlockSize -> Contexts \cup {Junk}]]
    BY <1>3, <1>10
  <1>12. QED
    BY <1>6, <1>7, <1>8, <1>9, <1>11

\* write() fills the tails of s: the others' rows and the cached ones stay, and
\* what s has pending is the rows of its context and of the new tokens.
LEMMA WriteInv ==
  ASSUME StoreInv, NEW s \in Seqs, Write(s)
  PROVE  StoreInv' /\ (RowInv => RowInv')
  <1>1. /\ written' = [written EXCEPT ![s] = TRUE] /\ pend[s] # <<>>
        /\ UNCHANGED <<ref_count, block_table, ctx, pend, prefix, older>>
    BY DEF Write
  <1>2. written \in [Seqs -> BOOLEAN]
    BY DEF StoreInv, Types
  <1>3. CountInv'
    BY <1>1, IdleCounts DEF StoreInv
  <1>4. TokenInv' /\ Covered'
    BY <1>1, <1>2 DEF StoreInv, TokenInv, Covered
  <1>5. Types'
    <2>1. kv' \in [Blocks -> [1..BlockSize -> Contexts \cup {Junk}]]
      BY WriteEffect
    <2>2. QED
      BY <1>1, <1>2, <2>1 DEF StoreInv, Types
  <1>6. TailExclusive'
    BY <1>1 DEF StoreInv, TailExclusive, Holders, Held, Refs, Cached
  <1>7. ASSUME RowInv PROVE RowInv'
    <2>1. ASSUME NEW t \in Seqs, t # s PROVE CommittedOf(t)' /\ PendingOf(t)'
      <3>1. CommittedOf(t) /\ PendingOf(t) /\ PlacesKept(t) /\ ctx'[t] = ctx[t]
            /\ (written'[t] => written[t] /\ pend'[t] = pend[t])
        BY <1>1, <1>2, <1>7, <2>1, WriteEffect DEF RowInv
      <3>2. QED
        BY <3>1, CommittedKept, PendingKept
    <2>2. CommittedOf(s)'
      <3>1. \A r \in 1..Len(ctx[s]) : Row(s, r)' = SubSeq(ctx[s], 1, r)
        BY <1>7, WriteEffect DEF RowInv, CommittedOf
      <3>2. QED
        BY <1>1, <3>1 DEF CommittedOf
    <2>3. PendingOf(s)'
      <3>1. PICK g : g = Gather(s, Len(ctx[s]))
        OBVIOUS
      <3>2. g = [r \in 1..Len(ctx[s]) |-> SubSeq(ctx[s], 1, r)]
        BY <1>7, <3>1 DEF Gather, Row, RowInv, CommittedOf
      <3>3. ctx[s] \in Contexts
        BY TokensOf DEF StoreInv
      <3>4. ASSUME NEW p, NEW r \in 1..Len(pend[s]), p = Len(ctx[s]) + r
            PROVE  Row(s, p)' = ctx[s] \o SubSeq(pend[s], 1, r)
        <4>1. Row(s, p)' = Attend(g, SubSeq(pend[s], 1, r))
          BY <3>1, <3>4, WriteEffect
        <4>2. QED
          BY <3>2, <3>3, <4>1, AttendOwn
      <3>5. QED
        BY <1>1, <3>4 DEF PendingOf
    <2>4. ASSUME NEW k \in DOMAIN prefix PROVE EntryRows(k)'
      <3>1. EntryRows(k) /\ kv'[prefix[k]] = kv[prefix[k]]
        BY <1>7, WriteEffect DEF RowInv
      <3>2. QED
        BY <1>1, <3>1 DEF EntryRows
    <2>5. QED
      BY <1>1, <2>1, <2>2, <2>3, <2>4 DEF RowInv
  <1>8. QED
    BY <1>3, <1>4, <1>5, <1>6, <1>7 DEF StoreInv

\* commit() counts the written rows in: they are those of the longer context.
LEMMA CommitInv ==
  ASSUME StoreInv, NEW s \in Seqs, Commit(s)
  PROVE  StoreInv' /\ (RowInv => RowInv')
  <1>1. /\ written[s] /\ ctx' = [ctx EXCEPT ![s] = ctx[s] \o pend[s]]
        /\ pend' = [pend EXCEPT ![s] = <<>>] /\ written' = [written EXCEPT ![s] = FALSE]
        /\ UNCHANGED <<ref_count, block_table, kv, prefix, older>>
    BY DEF Commit
  <1>2. /\ ctx \in [Seqs -> Contexts] /\ pend \in [Seqs -> Contexts]
        /\ written \in [Seqs -> BOOLEAN] /\ block_table \in [Seqs -> Seq(Blocks)]
    BY DEF StoreInv, TokenInv, Types, CountInv, Shape
  <1>3. /\ ctx[s] \in Seq(Tokens) /\ pend[s] \in Seq(Tokens) /\ ctx[s] \o pend[s] \in Contexts
    BY TokensOf DEF StoreInv
  <1>4. PICK m, n : m = Len(ctx[s]) /\ n = Len(pend[s]) /\ m \in Nat /\ n \in Nat
    BY TokensOf DEF StoreInv
  <1>5. Len(ctx[s] \o pend[s]) = m + n
    BY <1>3, <1>4
  <1>6. /\ ctx'[s] = ctx[s] \o pend[s] /\ pend'[s] = <<>> /\ ~ written'[s]
        /\ \A t \in Seqs : t # s => ctx'[t] = ctx[t] /\ pend'[t] = pend[t] /\ written'[t] = written[t]
    BY <1>1, <1>2
  <1>7. CountInv'
    BY <1>1, IdleCounts DEF StoreInv
  <1>8. TokenInv'
    <2>1. ctx' \in [Seqs -> Contexts] /\ pend' \in [Seqs -> Contexts]
      BY <1>1, <1>2, <1>3, EmptyContext
    <2>2. ASSUME NEW t \in Seqs PROVE ctx'[t] \o pend'[t] \in Contexts
      <3>1. CASE t = s
        BY <1>3, <1>6, <3>1, EmptyIsUnit
      <3>2. CASE t # s
        BY <1>6, <3>2 DEF StoreInv, TokenInv
      <3>3. QED
        BY <3>1, <3>2
    <2>3. QED
      BY <2>1, <2>2 DEF TokenInv
  <1>9. Types'
    BY <1>1, <1>2 DEF StoreInv, Types
  <1>10. Covered'
    <2>1. BlocksFor(m + n) <= Len(block_table[s])
      BY <1>4, Zenon DEF StoreInv, Covered
    <2>2. Len(ctx'[s]) = m + n /\ Len(pend'[s]) = 0
      BY <1>5, <1>6
    <2>3. PICK a, b : a = Len(ctx'[s]) /\ b = Len(pend'[s])
      OBVIOUS
    <2>4. a + b = m + n
      BY <1>4, <2>2, <2>3
    <2>5. BlocksFor(Len(ctx'[s]) + Len(pend'[s])) <= Len(block_table'[s])
      BY <1>1, <2>1, <2>3, <2>4, Zenon
    <2>6. QED
      BY <1>1, <1>6, <2>5 DEF StoreInv, Covered
  <1>11. TailExclusive'
    <2>1. ASSUME NEW t \in Seqs, NEW i \in DOMAIN block_table[t], i * BlockSize > Len(ctx'[t])
          PROVE  i * BlockSize > Len(ctx[t])
      <3>1. CASE t = s
        <4>1. i \in Int /\ BlockSize \in Int /\ i * BlockSize \in Int
          BY <1>2, BlockSizeAssumption
        <4>2. i * BlockSize > m + n
          BY <1>5, <1>6, <2>1, <3>1
        <4>t. m \in Nat /\ n \in Nat
          BY <1>4, Zenon
        <4>3. i * BlockSize > m
          BY <4>1, <4>2, <4>t
        <4>4. QED
          BY <1>4, <3>1, <4>3
      <3>2. CASE t # s
        BY <1>6, <2>1, <3>2
      <3>3. QED
        BY <3>1, <3>2
    <2>2. \A b : Holders(b)' = Holders(b) /\ Cached(b)' = Cached(b)
      BY <1>1 DEF Holders, Held, Refs, Cached
    <2>3. QED
      BY <1>1, <2>1, <2>2 DEF StoreInv, TailExclusive
  <1>12. ASSUME RowInv PROVE RowInv'
    <2>1. ASSUME NEW t \in Seqs, t # s PROVE CommittedOf(t)' /\ PendingOf(t)'
      <3>1. CommittedOf(t) /\ PendingOf(t) /\ PlacesKept(t) /\ ctx'[t] = ctx[t]
            /\ (written'[t] => written[t] /\ pend'[t] = pend[t])
        BY <1>1, <1>6, <1>12, <2>1 DEF RowInv, PlacesKept
      <3>2. QED
        BY <3>1, CommittedKept, PendingKept
    <2>2. CommittedOf(s)'
      <3>1. ASSUME NEW r \in 1..(m + n) PROVE Row(s, r) = SubSeq(ctx[s] \o pend[s], 1, r)
        <4>1. CASE r <= m
          <5>1. r \in 1..m /\ r \in 0..m
            BY <1>4, <4>1
          <5>2. r \in 1..Len(ctx[s]) /\ r \in 0..Len(ctx[s])
            BY <1>4, <5>1, Zenon
          <5>3. Row(s, r) = SubSeq(ctx[s], 1, r)
            BY <1>12, <5>2 DEF RowInv, CommittedOf
          <5>4. SubSeq(ctx[s] \o pend[s], 1, r) = SubSeq(ctx[s], 1, r)
            BY <1>3, <5>2, PrefixWithin
          <5>5. QED
            BY <5>3, <5>4
        <4>2. CASE ~ (r <= m)
          <5>1. PICK k \in 1..n : r = m + k
            <6>t. m \in Nat /\ n \in Nat
              BY <1>4, Zenon
            <6>1. r - m \in 1..n /\ r = m + (r - m)
              BY <6>t, <4>2
            <6>2. QED
              BY <6>1
          <5>2. k \in 0..n
            OBVIOUS
          <5>3. k \in 1..Len(pend[s]) /\ k \in 0..Len(pend[s]) /\ r = Len(ctx[s]) + k
            BY <1>4, <5>1, <5>2, Zenon
          <5>4. Row(s, r) = ctx[s] \o SubSeq(pend[s], 1, k)
            BY <1>1, <1>12, <5>3 DEF RowInv, PendingOf
          <5>5. SubSeq(ctx[s] \o pend[s], 1, Len(ctx[s]) + k) = ctx[s] \o SubSeq(pend[s], 1, k)
            <6>1. ctx[s] \in Seq(Tokens) /\ pend[s] \in Seq(Tokens) /\ k \in 0..Len(pend[s])
              BY <1>3, <5>3
            <6>2. QED
              BY <6>1, PrefixBeyond, Zenon
          <5>6. QED
            BY <5>3, <5>4, <5>5
        <4>3. QED
          BY <4>1, <4>2
      <3>2. ASSUME NEW r \in 1..Len(ctx'[s]) PROVE Row(s, r)' = SubSeq(ctx'[s], 1, r)
        <4>1. r \in 1..(m + n)
          BY <1>5, <1>6, Zenon
        <4>2. Row(s, r)' = Row(s, r)
          BY <1>1 DEF Row
        <4>3. QED
          BY <1>6, <3>1, <4>1, <4>2
      <3>3. QED
        BY <3>2 DEF CommittedOf
    <2>3. PendingOf(s)'
      BY <1>6 DEF PendingOf
    <2>4. \A k \in DOMAIN prefix' : EntryRows(k)'
      BY <1>1, <1>12 DEF RowInv, EntryRows
    <2>5. QED
      BY <2>1, <2>2, <2>3, <2>4 DEF RowInv
  <1>13. QED
    BY <1>7, <1>8, <1>9, <1>10, <1>11, <1>12 DEF StoreInv

\* Pending tokens that were not written may be dropped; the blocks reserved for
\* them stay, and stay covered by the counts.
LEMMA DropInv ==
  ASSUME StoreInv, UNCHANGED <<ref_count, block_table, ctx, written, kv, prefix, older>>,
         pend' \in [Seqs -> Contexts],
         \A t \in Seqs : pend'[t] = pend[t] \/ (pend'[t] = <<>> /\ ~ written[t])
  PROVE  StoreInv' /\ (RowInv => RowInv')
  <1>1. CountInv'
    BY IdleCounts DEF StoreInv
  <1>2. TokenInv'
    <2>1. ASSUME NEW t \in Seqs PROVE ctx'[t] \o pend'[t] \in Contexts
      <3>1. ctx[t] \in Contexts /\ ctx[t] \o pend[t] \in Contexts
        BY DEF StoreInv, TokenInv
      <3>2. QED
        BY <3>1, EmptyIsUnit
    <2>2. QED
      BY <2>1 DEF StoreInv, TokenInv
  <1>3. Covered'
    <2>1. ASSUME NEW t \in Seqs
          PROVE  BlocksFor(Len(ctx[t]) + Len(pend'[t])) <= Len(block_table[t])
      <3>1. BlocksFor(Len(ctx[t]) + Len(pend[t])) <= Len(block_table[t])
        BY DEF StoreInv, Covered
      <3>2. CASE pend'[t] = <<>>
        <4>1. PICK m, n, k : /\ m = Len(ctx[t]) /\ n = Len(pend[t]) /\ k = Len(block_table[t])
                             /\ m \in Nat /\ n \in Nat
          BY TokensOf DEF StoreInv
        <4>2. k \in Nat
          BY <4>1 DEF StoreInv, CountInv, Shape
        <4>3. PICK a : a = m + n
          OBVIOUS
        <4>t. m \in Nat /\ n \in Nat
          BY <4>1, Zenon
        <4>4. a \in Nat /\ m <= a
          BY <4>t, <4>3
        <4>5. BlocksFor(a) <= k
          BY <3>1, <4>1, <4>3, Zenon
        <4>6. a <= k * BlockSize
          BY <4>2, <4>4, <4>5, Covers
        <4>7. k * BlockSize \in Int
          BY <4>2, BlockSizeAssumption
        <4>8. m <= k * BlockSize /\ m \in Nat
          BY <4>1, <4>4, <4>6, <4>7
        <4>9. BlocksFor(m) <= k
          BY <4>2, <4>8, Covers
        <4>10. Len(pend'[t]) = 0 /\ m + 0 = m
          BY <3>2, <4>8
        <4>11. QED
          BY <4>1, <4>9, <4>10, Zenon
      <3>3. QED
        BY <3>1, <3>2
    <2>2. \A t \in Seqs : written[t] => pend'[t] # <<>>
      BY DEF StoreInv, Covered
    <2>3. QED
      BY <2>1, <2>2 DEF Covered
  <1>4. Types'
    BY DEF StoreInv, Types
  <1>5. TailExclusive'
    BY DEF StoreInv, TailExclusive, Holders, Held, Refs, Cached
  <1>6. ASSUME RowInv PROVE RowInv'
    <2>1. ASSUME NEW t \in Seqs PROVE CommittedOf(t)' /\ PendingOf(t)'
      <3>1. CommittedOf(t) /\ PendingOf(t) /\ PlacesKept(t) /\ ctx'[t] = ctx[t]
            /\ (written'[t] => written[t] /\ pend'[t] = pend[t])
        BY <1>6 DEF RowInv, PlacesKept
      <3>2. QED
        BY <3>1, CommittedKept, PendingKept
    <2>2. \A k \in DOMAIN prefix' : EntryRows(k)'
      BY <1>6 DEF RowInv, EntryRows
    <2>3. QED
      BY <2>1, <2>2 DEF RowInv
  <1>7. QED
    BY <1>1, <1>2, <1>3, <1>4, <1>5, <1>6 DEF StoreInv

-----------------------------------------------------------------------------
(* Sharing. *)

\* The hash of a chain of blocks tells contexts apart, as 64 bits of it are
\* trusted to.
NoCollision == \A c, d \in Contexts : ChainHash(c) = ChainHash(d) => c = d

\* The rows of a full block are rows of the context.
LEMMA FullBlockRows ==
  ASSUME NEW c \in Contexts, NEW i \in 1..FullBlocks(c)
  PROVE  /\ i \in Nat \ {0} /\ (i - 1) * BlockSize \in Nat /\ i * BlockSize \in 0..Len(c)
         /\ i * BlockSize = (i - 1) * BlockSize + BlockSize /\ (i - 1) * BlockSize \in 0..Len(c)
  <1>1. Len(c) \in Nat /\ BlockSize \in Nat /\ BlockSize > 0
    BY ContextIsBoundedSeq, LenProperties, BlockSizeAssumption
  <1>2. FullBlocks(c) \in Nat
    BY <1>1 DEF FullBlocks
  <1>3. i \in Nat \ {0} /\ i \in 0..FullBlocks(c) /\ i \in Int
    BY <1>2
  <1>4. i * BlockSize \in 0..Len(c)
    BY <1>1, <1>3, WholeBlocksFit
  <1>5. (i - 1) * BlockSize = i * BlockSize - BlockSize
    BY <1>3, Scale
  <1>6. (i - 1) * BlockSize \in Nat
    BY <1>1, <1>3
  <1>7. PICK x, y : x = i * BlockSize /\ y = (i - 1) * BlockSize
    OBVIOUS
  <1>8. x \in 0..Len(c) /\ y = x - BlockSize /\ y \in Nat
    BY <1>4, <1>5, <1>6, <1>7
  <1>9. x = y + BlockSize /\ y \in 0..Len(c)
    BY <1>1, <1>8
  <1>10. QED
    BY <1>3, <1>4, <1>6, <1>7, <1>9, Zenon

\* Without collisions a key determines the block and every token up to its end.
LEMMA KeyDetermines ==
  ASSUME NoCollision, NEW c \in Contexts, NEW d \in Contexts,
         NEW i \in 1..FullBlocks(c), NEW j \in 1..FullBlocks(d), Key(c, i) = Key(d, j)
  PROVE  i = j /\ \A n \in 0..(i * BlockSize) : SubSeq(c, 1, n) = SubSeq(d, 1, n)
  <1>1. PICK x, y : x = (i - 1) * BlockSize /\ y = (j - 1) * BlockSize
    OBVIOUS
  <1>2. PICK u, v : u = i * BlockSize /\ v = j * BlockSize
    OBVIOUS
  <1>3. /\ i \in Nat \ {0} /\ x \in Nat /\ x \in 0..Len(c) /\ u \in 0..Len(c)
        /\ u = x + BlockSize
    BY <1>1, <1>2, FullBlockRows
  <1>4. /\ j \in Nat \ {0} /\ y \in Nat /\ y \in 0..Len(d) /\ v \in 0..Len(d)
        /\ v = y + BlockSize
    BY <1>1, <1>2, FullBlockRows
  <1>5. ChainHash(SubSeq(c, 1, x)) = ChainHash(SubSeq(d, 1, y))
        /\ SubSeq(c, x + 1, u) = SubSeq(d, y + 1, v)
    BY <1>1, <1>2 DEF Key
  <1>6. /\ SubSeq(c, 1, x) \in Contexts /\ Len(SubSeq(c, 1, x)) = x
        /\ SubSeq(d, 1, y) \in Contexts /\ Len(SubSeq(d, 1, y)) = y
    BY <1>3, <1>4, PrefixContext
  <1>7. SubSeq(c, 1, x) = SubSeq(d, 1, y)
    BY <1>5, <1>6 DEF NoCollision
  <1>8. x = y
    BY <1>6, <1>7
  <1>9. i = j
    <2>1. i - 1 \in Int /\ j - 1 \in Int
      BY <1>3, <1>4
    <2>2. /\ i - 1 <= j - 1 <=> (i - 1) * BlockSize <= (j - 1) * BlockSize
          /\ j - 1 <= i - 1 <=> (j - 1) * BlockSize <= (i - 1) * BlockSize
      BY <2>1, Scale
    <2>3. i - 1 <= j - 1 /\ j - 1 <= i - 1
      BY <1>1, <1>3, <1>8, <2>2
    <2>4. QED
      BY <1>3, <1>4, <2>3
  <1>10. u = v
    BY <1>2, <1>9
  <1>11. /\ c \in Seq(Tokens) /\ d \in Seq(Tokens) /\ Len(c) \in Nat /\ Len(d) \in Nat
         /\ BlockSize \in Nat /\ BlockSize > 0
    BY ContextIsBoundedSeq, LenProperties, BlockSizeAssumption
  <1>12. ASSUME NEW k \in 1..u PROVE c[k] = d[k]
    <2>1. CASE k <= x
      <3>1. SubSeq(c, 1, x)[k] = c[k] /\ SubSeq(d, 1, x)[k] = d[k]
        BY <1>3, <1>4, <1>8, <1>11, <2>1
      <3>2. QED
        BY <1>7, <1>8, <3>1
    <2>2. CASE ~ (k <= x)
      <3>1. PICK l : l = k - x
        OBVIOUS
      <3>2. l \in 1..(u - (x + 1) + 1) /\ (x + 1) + l - 1 = k
        BY <1>3, <1>11, <2>2, <3>1
      <3>3. SubSeq(c, x + 1, u)[l] = c[k]
        BY <1>3, <1>11, <3>2
      <3>4. SubSeq(d, x + 1, u)[l] = d[k]
        BY <1>3, <1>4, <1>10, <1>11, <3>2
      <3>5. QED
        BY <1>5, <1>8, <1>10, <3>3, <3>4
    <2>3. QED
      BY <2>1, <2>2
  <1>13. ASSUME NEW n \in 0..u PROVE SubSeq(c, 1, n) = SubSeq(d, 1, n)
    <2>1. /\ SubSeq(c, 1, n) \in Seq(Tokens) /\ Len(SubSeq(c, 1, n)) = n
          /\ \A k \in 1..n : SubSeq(c, 1, n)[k] = c[k]
      BY <1>3, <1>11
    <2>2. /\ SubSeq(d, 1, n) \in Seq(Tokens) /\ Len(SubSeq(d, 1, n)) = n
          /\ \A k \in 1..n : SubSeq(d, 1, n)[k] = d[k]
      BY <1>4, <1>10, <1>11
    <2>3. \A k \in 1..n : SubSeq(c, 1, n)[k] = SubSeq(d, 1, n)[k]
      BY <1>3, <1>12, <2>1, <2>2
    <2>4. QED
      BY <2>1, <2>2, <2>3, SeqEqual
  <1>14. QED
    BY <1>2, <1>9, <1>13

\* register_prefix() of the committed context: a full block of it is no tail, and
\* its key was made of the tokens whose rows the block holds.
LEMMA RegisterInv ==
  ASSUME StoreInv, NEW s \in Seqs, RegisterPrefix(s, ctx[s])
  PROVE  StoreInv' /\ (RowInv => RowInv')
  <1> DEFINE full == Least(Len(block_table[s]), FullBlocks(ctx[s]))
             fresh == {Key(ctx[s], i) : i \in 1..full} \ DOMAIN prefix
  <1>1. PICK first \in [fresh -> 1..full] :
          /\ \A k \in fresh : Key(ctx[s], first[k]) = k
          /\ prefix' = [k \in (DOMAIN prefix) \cup fresh |->
                          IF k \in fresh THEN block_table[s][first[k]] ELSE prefix[k]]
          /\ older' = older \cup ((DOMAIN prefix) \X fresh)
                            \cup {p \in fresh \X fresh : first[p[1]] < first[p[2]]}
          /\ UNCHANGED <<block_table, ctx, pend, written, kv>>
    BY DEF RegisterPrefix
  <1>2. /\ block_table[s] \in Seq(Blocks) /\ Len(block_table[s]) \in Nat
        /\ DOMAIN block_table[s] = 1..Len(block_table[s])
    BY DEF StoreInv, CountInv, Shape
  <1>3. ctx[s] \in Contexts /\ Len(ctx[s]) \in Nat /\ FullBlocks(ctx[s]) \in Nat
    <2>1. ctx[s] \in Contexts /\ Len(ctx[s]) \in Nat
      BY TokensOf DEF StoreInv
    <2>2. \A l \in Nat : l \div BlockSize \in Nat
      BY BlockSizeAssumption
    <2>3. QED
      BY <2>1, <2>2 DEF FullBlocks
  <1>4. full \in Nat /\ full <= Len(block_table[s]) /\ full <= FullBlocks(ctx[s])
    BY <1>2, <1>3 DEF Least
  <1> HIDE DEF full, fresh
  <1>5. ASSUME NEW k \in fresh
        PROVE  /\ first[k] \in DOMAIN block_table[s] /\ first[k] \in 1..FullBlocks(ctx[s])
               /\ Key(ctx[s], first[k]) = k /\ prefix'[k] = block_table[s][first[k]]
    BY <1>1, <1>2, <1>3, <1>4
  <1>6. /\ DOMAIN prefix' = (DOMAIN prefix) \cup fresh
        /\ \A k \in (DOMAIN prefix) \ fresh : prefix'[k] = prefix[k]
        /\ fresh \cap DOMAIN prefix = {}
    BY <1>1 DEF fresh
  <1>7. CountInv'
    BY <1>3, RegisterCounts DEF StoreInv
  <1>8. TokenInv' /\ Covered'
    BY <1>1 DEF StoreInv, TokenInv, Covered
  <1>9. Types'
    <2>1. older \subseteq (DOMAIN prefix) \X (DOMAIN prefix)
      BY DEF StoreInv, Types
    <2>2. older' \subseteq (DOMAIN prefix') \X (DOMAIN prefix')
      BY <1>1, <1>6, <2>1
    <2>3. QED
      BY <1>1, <2>2 DEF StoreInv, Types
  <1>10. TailExclusive'
    <2>1. ASSUME NEW t \in Seqs, NEW i \in DOMAIN block_table[t], i * BlockSize > Len(ctx[t])
          PROVE  Exclusive(t, i)'
      <3>1. PICK b : b = block_table[t][i]
        OBVIOUS
      <3>2. Holders(b) = {<<t, i>>} /\ Cached(b) = {}
        BY <2>1, <3>1 DEF StoreInv, TailExclusive
      <3>3. Holders(b)' = {<<t, i>>}
        BY <1>1, <3>2 DEF Holders, Held, Refs
      <3>4. ASSUME NEW k \in fresh, prefix'[k] = b PROVE FALSE
        <4>1. first[k] = i /\ s = t
          BY <1>5, <2>1, <3>1, <3>4, TailPlace
        <4>2. i * BlockSize \in 0..Len(ctx[t])
          BY <1>3, <1>5, <4>1, FullBlockRows
        <4>3. QED
          BY <1>3, <2>1, <4>1, <4>2
      <3>5. Cached(b)' = {}
        BY <1>6, <3>2, <3>4 DEF Cached
      <3>6. QED
        BY <1>1, <3>1, <3>3, <3>5 DEF Exclusive
    <2>2. QED
      BY <1>1, <2>1 DEF TailExclusive, Exclusive
  <1>11. ASSUME RowInv PROVE RowInv'
    <2>1. ASSUME NEW t \in Seqs PROVE CommittedOf(t)' /\ PendingOf(t)'
      <3>1. CommittedOf(t) /\ PendingOf(t) /\ PlacesKept(t) /\ ctx'[t] = ctx[t]
            /\ (written'[t] => written[t] /\ pend'[t] = pend[t])
        BY <1>1, <1>11 DEF RowInv, PlacesKept
      <3>2. QED
        BY <3>1, CommittedKept, PendingKept
    <2>2. ASSUME NEW k \in DOMAIN prefix' PROVE EntryRows(k)'
      <3>1. CASE k \notin fresh
        BY <1>1, <1>6, <1>11, <3>1 DEF RowInv, EntryRows
      <3>2. CASE k \in fresh
        <4>1. PICK i : i = first[k]
          OBVIOUS
        <4>2. /\ i \in DOMAIN block_table[s] /\ i \in 1..FullBlocks(ctx[s])
              /\ k = Key(ctx[s], i) /\ prefix'[k] = block_table[s][i]
          BY <1>5, <3>2, <4>1
        <4>3. ASSUME NEW j \in 1..BlockSize
              PROVE  kv[prefix'[k]][j] = SubSeq(ctx[s], 1, (i - 1) * BlockSize + j)
          <5>1. PICK x, y, l : x = (i - 1) * BlockSize /\ y = i * BlockSize /\ l = Len(ctx[s])
            OBVIOUS
          <5>2. i \in Nat \ {0} /\ x \in Nat /\ y \in 0..l /\ y = x + BlockSize /\ l \in Nat
            BY <1>3, <4>2, <5>1, FullBlockRows
          <5>3. x + j \in 1..l
            BY <5>2, BlockSizeAssumption
          <5>4. BlockOf(x + j) = i /\ SlotOf(x + j) = j
            BY <5>1, <5>2, PositionOf
          <5>5. Row(s, x + j) = SubSeq(ctx[s], 1, x + j)
            BY <1>11, <5>1, <5>3 DEF RowInv, CommittedOf
          <5>6. QED
            BY <4>2, <5>1, <5>4, <5>5 DEF Row
        <4>4. \E i1 \in 1..FullBlocks(ctx[s]) :
                /\ k = Key(ctx[s], i1)
                /\ \A j \in 1..BlockSize :
                     kv'[prefix'[k]][j] = SubSeq(ctx[s], 1, (i1 - 1) * BlockSize + j)
          BY <1>1, <4>2, <4>3
        <4>5. QED
          BY <1>3, <4>4 DEF EntryRows
      <3>3. QED
        BY <3>1, <3>2
    <2>3. QED
      BY <2>1, <2>2 DEF RowInv
  <1>12. QED
    BY <1>7, <1>8, <1>9, <1>10, <1>11 DEF StoreInv

\* acquire_shared_prefix(): what s takes over is whole blocks, none of which is
\* a tail, and without hash collisions their rows are those of its own tokens.
LEMMA AcquireInv ==
  ASSUME StoreInv, NEW s \in Seqs, pend[s] = <<>>, NEW toks \in Contexts,
         AcquireSharedPrefix(s, toks)
  PROVE  StoreInv' /\ (NoCollision /\ RowInv => RowInv')
  <1>1. PICK m \in 0..FullBlocks(toks) :
          /\ \A i \in 1..m : Key(toks, i) \in DOMAIN prefix
          /\ block_table' = [block_table EXCEPT ![s] = [i \in 1..m |-> prefix[Key(toks, i)]]]
          /\ ctx' = [ctx EXCEPT ![s] = SubSeq(toks, 1, m * BlockSize)]
          /\ older' \subseteq (DOMAIN prefix) \X (DOMAIN prefix)
          /\ UNCHANGED <<pend, written, kv, prefix>>
    BY DEF AcquireSharedPrefix
  <1>2. PICK q, c : q = [i \in 1..m |-> prefix[Key(toks, i)]] /\ c = SubSeq(toks, 1, m * BlockSize)
    OBVIOUS
  <1>3. Len(toks) \in Nat /\ FullBlocks(toks) \in Nat /\ BlockSize \in Nat /\ BlockSize > 0
    <2>1. Len(toks) \in Nat
      BY ContextIsBoundedSeq, LenProperties
    <2>2. \A l \in Nat : l \div BlockSize \in Nat
      BY BlockSizeAssumption
    <2>3. QED
      BY <2>1, <2>2, BlockSizeAssumption DEF FullBlocks
  <1>4. m \in Nat /\ m * BlockSize \in 0..Len(toks) /\ m * BlockSize \in Nat
    BY <1>3, WholeBlocksFit
  <1>5. c \in Contexts /\ Len(c) = m * BlockSize
    BY <1>2, <1>4, PrefixContext
  <1>6. /\ block_table \in [Seqs -> Seq(Blocks)] /\ Shape /\ ctx \in [Seqs -> Contexts]
        /\ \A k \in DOMAIN prefix : prefix[k] \in Blocks
    BY DEF StoreInv, CountInv, Shape, TokenInv
  <1>7. q \in Seq(Blocks) /\ Len(q) = m /\ DOMAIN q = 1..m
        /\ \A i \in 1..m : q[i] = prefix[Key(toks, i)] /\ Key(toks, i) \in DOMAIN prefix
    BY <1>1, <1>2, <1>4, <1>6
  <1>8. /\ block_table' = [block_table EXCEPT ![s] = q] /\ ctx' = [ctx EXCEPT ![s] = c]
        /\ block_table'[s] = q /\ ctx'[s] = c
        /\ \A t \in Seqs : t # s => block_table'[t] = block_table[t] /\ ctx'[t] = ctx[t]
    BY <1>1, <1>2, <1>6
  <1>9. ~ written[s]
    BY DEF StoreInv, Covered
  <1>10. CountInv'
    BY AcquireCounts DEF StoreInv
  <1>11. TokenInv'
    <2>1. ASSUME NEW t \in Seqs PROVE ctx'[t] \o pend'[t] \in Contexts
      <3>1. CASE t = s
        BY <1>1, <1>5, <1>8, <3>1, EmptyIsUnit
      <3>2. CASE t # s
        BY <1>1, <1>8, <3>2 DEF StoreInv, TokenInv
      <3>3. QED
        BY <3>1, <3>2
    <2>2. QED
      BY <1>1, <1>5, <1>8, <2>1 DEF StoreInv, TokenInv
  <1>12. Types'
    BY <1>1 DEF StoreInv, Types
  <1>13. Covered'
    <2>1. BlocksFor(m * BlockSize) <= m
      BY <1>4, Covers
    <2>2. PICK a : a = m * BlockSize /\ a \in Nat
      BY <1>4
    <2>3. Len(pend'[s]) = 0 /\ a + 0 = a
      BY <1>1, <2>2
    <2>4. BlocksFor(Len(ctx'[s]) + Len(pend'[s])) <= Len(block_table'[s])
      BY <1>5, <1>7, <1>8, <2>1, <2>2, <2>3, Zenon
    <2>5. QED
      BY <1>1, <1>8, <1>9, <2>4 DEF StoreInv, Covered
  <1>14. TailExclusive'
    <2>1. ASSUME NEW t \in Seqs, NEW i \in DOMAIN block_table'[t], i * BlockSize > Len(ctx'[t])
          PROVE  Exclusive(t, i)'
      <3>1. CASE t = s
        <4>1. i \in 1..m
          BY <1>7, <1>8, <2>1, <3>1
        <4>2. i * BlockSize <= m * BlockSize
          <5>1. i \in Int /\ m \in Int /\ i <= m
            BY <1>4, <4>1
          <5>2. QED
            BY <5>1, Scale
        <4>3. i * BlockSize \in Int
          BY <1>3, <4>1
        <4>4. QED
          BY <1>4, <1>5, <1>8, <2>1, <3>1, <4>2, <4>3
      <3>2. CASE t # s
        <4>1. PICK b : b = block_table[t][i]
          OBVIOUS
        <4>2. Holders(b) = {<<t, i>>} /\ Cached(b) = {}
          BY <1>8, <2>1, <3>2, <4>1 DEF StoreInv, TailExclusive
        <4>3. Refs(s, q, b) = {}
          BY <1>7, <4>2 DEF Refs, Cached
        <4>4. <<t, i>> \notin Held(s, b)
          BY <3>2 DEF Held, Refs
        <4>5. Holders(b)' = (Holders(b) \ Held(s, b)) \cup Refs(s, q, b)
          BY <1>6, <1>8, TableChange
        <4>6. Holders(b)' = {<<t, i>>} /\ Cached(b)' = {}
          BY <1>1, <4>2, <4>3, <4>4, <4>5 DEF Cached
        <4>7. QED
          BY <1>8, <3>2, <4>1, <4>6 DEF Exclusive
      <3>3. QED
        BY <3>1, <3>2
    <2>2. QED
      BY <2>1 DEF TailExclusive, Exclusive
  <1>15. ASSUME NoCollision, RowInv PROVE RowInv'
    <2>1. ASSUME NEW t \in Seqs, t # s PROVE CommittedOf(t)' /\ PendingOf(t)'
      <3>1. CommittedOf(t) /\ PendingOf(t) /\ PlacesKept(t) /\ ctx'[t] = ctx[t]
            /\ (written'[t] => written[t] /\ pend'[t] = pend[t])
        BY <1>1, <1>8, <1>15, <2>1 DEF RowInv, PlacesKept
      <3>2. QED
        BY <3>1, CommittedKept, PendingKept
    <2>2. ASSUME NEW r \in 1..(m * BlockSize)
          PROVE  kv[q[BlockOf(r)]][SlotOf(r)] = SubSeq(c, 1, r)
      <3>1. PICK i, j : i = BlockOf(r) /\ j = SlotOf(r)
        OBVIOUS
      <3>2. r \in Nat \ {0} /\ r <= m * BlockSize
        BY <1>4
      <3>3. i \in Nat \ {0} /\ j \in 1..BlockSize /\ r = (i - 1) * BlockSize + j /\ i <= m
        BY <1>4, <3>1, <3>2, Position, RowInTable
      <3>4. i \in 1..m /\ i \in 1..FullBlocks(toks)
        BY <1>3, <1>4, <3>3
      <3>5. q[i] = prefix[Key(toks, i)] /\ Key(toks, i) \in DOMAIN prefix
        BY <1>7, <3>4
      <3>6. PICK d \in Contexts : \E l \in 1..FullBlocks(d) :
              /\ Key(toks, i) = Key(d, l)
              /\ \A jj \in 1..BlockSize : kv[q[i]][jj] = SubSeq(d, 1, (l - 1) * BlockSize + jj)
        BY <1>15, <3>5 DEF RowInv, EntryRows
      <3>7. PICK l \in 1..FullBlocks(d) :
              /\ Key(toks, i) = Key(d, l)
              /\ \A jj \in 1..BlockSize : kv[q[i]][jj] = SubSeq(d, 1, (l - 1) * BlockSize + jj)
        BY <3>6
      <3>8. i = l /\ \A n \in 0..(i * BlockSize) : SubSeq(toks, 1, n) = SubSeq(d, 1, n)
        BY <1>15, <3>4, <3>7, KeyDetermines
      <3>9. r \in 0..(i * BlockSize)
        <4>1. i * BlockSize = (i - 1) * BlockSize + BlockSize /\ (i - 1) * BlockSize \in Nat
          BY <3>4, FullBlockRows
        <4>2. QED
          BY <1>3, <3>3, <4>1
      <3>10. kv[q[i]][j] = SubSeq(toks, 1, r)
        BY <3>3, <3>7, <3>8, <3>9
      <3>11. SubSeq(c, 1, r) = SubSeq(toks, 1, r)
        <4>1. r \in 0..(m * BlockSize) /\ toks \in Seq(Tokens)
          BY <1>4, ContextIsBoundedSeq
        <4>2. QED
          BY <1>2, <1>4, <4>1, PrefixTwice
      <3>12. QED
        BY <3>1, <3>10, <3>11
    <2>3. CommittedOf(s)'
      <3>1. \A r \in 1..Len(ctx'[s]) : Row(s, r)' = SubSeq(ctx'[s], 1, r)
        BY <1>1, <1>5, <1>8, <2>2 DEF Row
      <3>2. QED
        BY <3>1 DEF CommittedOf
    <2>4. PendingOf(s)'
      BY <1>1, <1>9 DEF PendingOf
    <2>5. \A k \in DOMAIN prefix' : EntryRows(k)'
      BY <1>1, <1>15 DEF RowInv, EntryRows
    <2>6. QED
      BY <2>1, <2>3, <2>4, <2>5 DEF RowInv
  <1>16. QED
    BY <1>10, <1>11, <1>12, <1>13, <1>14, <1>15 DEF StoreInv

\* Nothing is in any table or in the cache at the start.
LEMMA InitInv == Init => StoreInv /\ RowInv
  <1> SUFFICES ASSUME Init PROVE StoreInv /\ RowInv
    OBVIOUS
  <1>1. DOMAIN prefix = {} /\ older = {}
    BY DEF Init
  <1>2. \A s \in Seqs : /\ block_table[s] = <<>> /\ ctx[s] = <<>> /\ pend[s] = <<>>
                        /\ ~ written[s]
    BY DEF Init
  <1>3. Types
    <2>1. Blank \in [1..BlockSize -> Contexts \cup {Junk}]
      BY DEF Blank
    <2>2. QED
      BY <1>1, <2>1 DEF Init, Types
  <1>4. Covered
    <2>1. 0 \in Nat /\ 0 <= 0 * BlockSize /\ 0 + 0 = 0 /\ Len(<<>>) = 0
      BY BlockSizeAssumption
    <2>2. BlocksFor(0) <= 0
      BY <2>1, Covers
    <2>3. QED
      BY <1>2, <2>1, <2>2 DEF Covered
  <1>5. TailExclusive
    BY <1>2 DEF TailExclusive
  <1>6. RowInv
    <2>1. Len(<<>>) = 0
      OBVIOUS
    <2>2. QED
      BY <1>1, <1>2, <2>1 DEF RowInv, CommittedOf, PendingOf
  <1>7. QED
    BY <1>3, <1>4, <1>5, <1>6, InitCounts, InitTokens DEF StoreInv

\* Every step keeps both.
LEMMA StepInv ==
  ASSUME StoreInv, [Next]_vars
  PROVE  StoreInv' /\ (NoCollision /\ RowInv => RowInv')
  <1>1. ASSUME NEW s \in Seqs, BeginForward(s) PROVE StoreInv' /\ (RowInv => RowInv')
    BY <1>1, ReserveInv DEF BeginForward
  <1>2. ASSUME NEW s \in Seqs, BeginShared(s)
        PROVE  StoreInv' /\ (NoCollision /\ RowInv => RowInv')
    BY <1>2, AcquireInv DEF BeginShared
  <1>3. ASSUME NEW s \in Seqs, Register(s) PROVE StoreInv' /\ (RowInv => RowInv')
    BY <1>3, RegisterInv DEF Register
  <1>4. ASSUME NEW s \in Seqs, AbortForward(s) PROVE StoreInv' /\ (RowInv => RowInv')
    <2>1. pend' = [pend EXCEPT ![s] = <<>>] /\ ~ written[s]
      BY <1>4 DEF AbortForward
    <2>2. pend' \in [Seqs -> Contexts]
      BY <2>1, EmptyContext DEF StoreInv, TokenInv
    <2>3. \A t \in Seqs : pend'[t] = pend[t] \/ (pend'[t] = <<>> /\ ~ written[t])
      BY <2>1 DEF StoreInv, TokenInv
    <2>4. QED
      BY <1>4, <2>2, <2>3, DropInv DEF AbortForward
  <1>5. ASSUME NEW s \in Seqs, Write(s) \/ Commit(s) \/ Release(s)
        PROVE  StoreInv' /\ (RowInv => RowInv')
    BY <1>5, WriteInv, CommitInv, FreeSeqInv DEF Release
  <1>6. CASE Clear
    BY <1>6, ClearInv DEF Clear
  <1>7. CASE UNCHANGED vars
    <2>1. pend' \in [Seqs -> Contexts] /\ \A t \in Seqs : pend'[t] = pend[t]
      BY <1>7 DEF vars, StoreInv, TokenInv
    <2>2. QED
      BY <1>7, <2>1, DropInv DEF vars
  <1>8. QED
    BY <1>1, <1>2, <1>3, <1>4, <1>5, <1>6, <1>7 DEF Next

-----------------------------------------------------------------------------
(* What a caller sees of an operation. *)

\* An injective sequence of n blocks names n blocks.
LEMMA CountOfInjective ==
  ASSUME NEW n \in Nat, NEW S, NEW q \in [1..n -> S], Injective(q)
  PROVE  IsFiniteSet(Entries(q)) /\ Cardinality(Entries(q)) = n
  <1>1. q \in Bijection(1..n, Entries(q))
    <2>1. q \in [1..n -> Entries(q)] /\ \A b \in Entries(q) : \E i \in 1..n : q[i] = b
      BY DEF Entries
    <2>2. \A i, j \in 1..n : q[i] = q[j] => i = j
      BY DEF Injective
    <2>3. QED
      BY <2>1, <2>2 DEF Bijection, Injection, Surjection, IsInjective
  <1>2. IsFiniteSet(1..n) /\ Cardinality(1..n) = n
    <2>1. IsFiniteSet(1..n) /\ Cardinality(1..n) = IF 1 > n THEN 0 ELSE n - 1 + 1
      BY FS_Interval
    <2>2. QED
      BY <2>1
  <1>3. QED
    BY <1>1, <1>2, FS_Bijection DEF ExistsBijection

\* reserve() of what fits the free blocks takes that many of them, evicts
\* nothing and does not throw.
LEMMA ReserveFromFree ==
  ASSUME StoreInv, NEW s \in Seqs, NEW toks \in Contexts, CanAppend(s, Len(toks)),
         Reserve(s, toks)
  PROVE  /\ pend' = [pend EXCEPT ![s] = toks] /\ ctx' = ctx /\ written' = written
         /\ \A t \in Seqs : t # s => block_table'[t] = block_table[t]
         /\ Deficit(s, Len(toks)) \in Int
         /\ \E want \in Nat :
              /\ want = IF Deficit(s, Len(toks)) > 0 THEN Deficit(s, Len(toks)) ELSE 0
              /\ Len(block_table'[s]) = Len(block_table[s]) + want
              /\ Cardinality(Free') = Cardinality(Free) - want
  <1>1. /\ Deficit(s, Len(toks)) \in Int /\ Len(block_table[s]) \in Nat
        /\ block_table \in [Seqs -> Seq(Blocks)] /\ ref_count \in [Blocks -> Int]
    <2>1. PICK a, b, n : a = Len(ctx[s]) /\ b = Len(toks) /\ n = a + b
      OBVIOUS
    <2>2. Len(ctx[s]) \in Nat /\ Len(toks) \in Nat
      BY TokensOf, ContextIsBoundedSeq, LenProperties DEF StoreInv
    <2>3. a \in Nat /\ b \in Nat
      BY <2>1, <2>2, Zenon
    <2>4. n \in Nat
      BY <2>1, <2>3
    <2>5. PICK l : l = Len(block_table[s])
      OBVIOUS
    <2>6. BlocksFor(n) \in Nat /\ l \in Nat
      BY <2>4, <2>5, Covers DEF StoreInv, CountInv, Shape
    <2>7. BlocksFor(n) - l \in Int
      BY <2>6
    <2>8. Deficit(s, Len(toks)) = BlocksFor(n) - l
      BY <2>1, <2>5, Zenon DEF Deficit
    <2>9. QED
      BY <2>5, <2>6, <2>7, <2>8 DEF StoreInv, CountInv, Shape
  <1>2. PICK d, free, ev : /\ d = Deficit(s, Len(toks)) /\ free = Cardinality(Free)
                           /\ ev = Cardinality(Evictable)
    OBVIOUS
  <1>3. free \in Nat /\ ev \in Nat /\ d \in Int /\ d <= free
    BY <1>1, <1>2, FreeAndEvictableAreFinite DEF CanAppend, StoreInv, CountInv
  <1>4. PICK want \in Nat : want = (IF d > 0 THEN d ELSE 0)
    BY <1>3
  <1>5. Least(want, free + ev) = want /\ want <= free
    BY <1>3, <1>4 DEF Least
  <1>6. PICK E \in SUBSET Evictable : \E new \in [1..want -> Free \cup {prefix[k] : k \in E}] :
          /\ Cardinality(E) = 0
          /\ Injective(new)
          /\ block_table' = [block_table EXCEPT ![s] = block_table[s] \o new]
          /\ ref_count' = [b \in Blocks |-> IF b \in Entries(new) THEN 1 ELSE ref_count[b]]
          /\ pend' = [pend EXCEPT ![s] = toks]
          /\ ctx' = ctx /\ written' = written
    <2>1. /\ (IF Deficit(s, Len(toks)) > 0 THEN Deficit(s, Len(toks)) ELSE 0) = want
          /\ Least(want, Cardinality(Free) + Cardinality(Evictable)) = want
          /\ ~ (want > Cardinality(Free)) /\ ~ (want < want)
      BY <1>2, <1>3, <1>4, <1>5
    <2>2. QED
      BY <2>1, Zenon DEF Reserve
  <1>7. IsFiniteSet(Evictable) /\ IsFiniteSet(Free)
    <2>1. Evictable \in SUBSET DOMAIN prefix /\ Free \in SUBSET Blocks
      BY DEF Evictable, Free
    <2>2. QED
      BY <2>1, FS_Subset, BlocksAssumption DEF StoreInv, CountInv, Shape
  <1>8. E = {}
    BY <1>6, <1>7, FS_Subset, FS_EmptySet
  <1>9. PICK new \in [1..want -> Free] :
          /\ Injective(new)
          /\ block_table' = [block_table EXCEPT ![s] = block_table[s] \o new]
          /\ ref_count' = [b \in Blocks |-> IF b \in Entries(new) THEN 1 ELSE ref_count[b]]
          /\ pend' = [pend EXCEPT ![s] = toks]
          /\ ctx' = ctx /\ written' = written
    <2>1. Free \cup {prefix[k] : k \in E} = Free
      BY <1>8
    <2>2. QED
      BY <1>6, <2>1
  <1>10. Entries(new) \subseteq Free /\ IsFiniteSet(Entries(new)) /\ Cardinality(Entries(new)) = want
    BY <1>9, CountOfInjective DEF Entries
  <1>11. Free' = Free \ Entries(new)
    BY <1>1, <1>9, <1>10 DEF Free
  <1>12. Cardinality(Free') = Cardinality(Free) - want
    BY <1>7, <1>10, <1>11, TakeSubset
  <1>13. new \in Seq(Blocks) /\ Len(new) = want
    <2>1. new \in [1..want -> Blocks]
      BY <1>9 DEF Free
    <2>2. QED
      BY <2>1
  <1>14. Len(block_table'[s]) = Len(block_table[s]) + want
    <2>1. block_table'[s] = block_table[s] \o new /\ block_table[s] \in Seq(Blocks)
      BY <1>1, <1>9
    <2>2. Len(block_table[s] \o new) = Len(block_table[s]) + Len(new)
      BY <1>13, <2>1, ConcatProperties
    <2>3. QED
      BY <1>13, <2>1, <2>2
  <1>15. QED
    BY <1>1, <1>2, <1>4, <1>9, <1>12, <1>14

\* acquire_shared_prefix() takes no free block: what it shares is in the cache.
LEMMA AcquireKeepsFree ==
  ASSUME StoreInv, NEW s \in Seqs, NEW toks \in Contexts, AcquireSharedPrefix(s, toks)
  PROVE  /\ Free' = Free
         /\ \E m \in Nat : /\ m * BlockSize \in 0..Len(toks)
                           /\ ctx' = [ctx EXCEPT ![s] = SubSeq(toks, 1, m * BlockSize)]
                           /\ Len(block_table'[s]) = m
         /\ \A t \in Seqs : t # s => block_table'[t] = block_table[t]
         /\ UNCHANGED <<pend, written>>
  <1>1. PICK m \in 0..FullBlocks(toks) :
          /\ \A i \in 1..m : Key(toks, i) \in DOMAIN prefix
          /\ block_table' = [block_table EXCEPT ![s] = [i \in 1..m |-> prefix[Key(toks, i)]]]
          /\ ref_count' = [b \in Blocks |-> ref_count[b]
                             + Cardinality(Refs(s, [i \in 1..m |-> prefix[Key(toks, i)]], b))]
          /\ ctx' = [ctx EXCEPT ![s] = SubSeq(toks, 1, m * BlockSize)]
          /\ UNCHANGED <<pend, written>>
    BY DEF AcquireSharedPrefix
  <1>2. Len(toks) \in Nat /\ FullBlocks(toks) \in Nat
    <2>1. Len(toks) \in Nat
      BY ContextIsBoundedSeq, LenProperties
    <2>2. \A l \in Nat : l \div BlockSize \in Nat
      BY BlockSizeAssumption
    <2>3. QED
      BY <2>1, <2>2 DEF FullBlocks
  <1>3. m \in Nat /\ m * BlockSize \in 0..Len(toks)
    BY <1>2, WholeBlocksFit
  <1>4. PICK q : q = [i \in 1..m |-> prefix[Key(toks, i)]]
    OBVIOUS
  <1>5. DOMAIN q = 1..m /\ Len(q) = m /\ \A i \in 1..m : q[i] = prefix[Key(toks, i)]
    BY <1>3, <1>4
  <1>6. block_table \in [Seqs -> Seq(Blocks)] /\ ref_count \in [Blocks -> Int] /\ Shape
    BY DEF StoreInv, CountInv, Shape
  <1>7. ASSUME NEW b \in Blocks PROVE ref_count'[b] = 0 <=> ref_count[b] = 0
    <2>1. ref_count'[b] = ref_count[b] + Cardinality(Refs(s, q, b))
      BY <1>1, <1>4, <1>6
    <2>2. IsFiniteSet(Refs(s, q, b))
      <3>1. Refs(s, q, b) \in SUBSET ({s} \X (1..m)) /\ m \in Int
        BY <1>3, <1>5 DEF Refs
      <3>2. QED
        BY <3>1, PlacesAreFinite, FS_Subset
    <2>3. Cardinality(Refs(s, q, b)) \in Nat /\ ref_count[b] \in Nat
      BY <2>2, FS_CardinalityType, CountsAreNat DEF StoreInv
    <2>4. ASSUME ref_count[b] = 0 PROVE Cardinality(Refs(s, q, b)) = 0
      <3>1. Cached(b) = {}
        BY <2>4, FreeIsUnused DEF StoreInv
      <3>2. Refs(s, q, b) = {}
        BY <1>1, <1>5, <3>1 DEF Refs, Cached
      <3>3. QED
        BY <3>2, FS_EmptySet
    <2>5. QED
      BY <2>1, <2>3, <2>4
  <1>8. Free' = Free
    BY <1>7 DEF Free
  <1>9. Len(block_table'[s]) = m /\ \A t \in Seqs : t # s => block_table'[t] = block_table[t]
    BY <1>1, <1>4, <1>5, <1>6
  <1>10. QED
    BY <1>1, <1>3, <1>8, <1>9

\* What attention gathers over the rows of a forward is a context or none; with
\* the right rows it is the context and the tokens of the forward.
LEMMA WriteSees ==
  ASSUME StoreInv, NEW s \in Seqs, Write(s), NEW n
  PROVE  n = Len(ctx[s]) + Len(pend[s]) =>
           /\ ContextOf(Gather(s, n)') \in (Contexts \ {<<>>}) \cup {Junk}
           /\ RowInv' => ContextOf(Gather(s, n)') = ctx[s] \o pend[s]
  <1>0. SUFFICES ASSUME n = Len(ctx[s]) + Len(pend[s])
                 PROVE  /\ ContextOf(Gather(s, n)') \in (Contexts \ {<<>>}) \cup {Junk}
                        /\ RowInv' => ContextOf(Gather(s, n)') = ctx[s] \o pend[s]
    OBVIOUS
  <1>1. /\ pend[s] # <<>> /\ UNCHANGED <<ref_count, block_table, ctx, pend, prefix, older>>
        /\ written' = [written EXCEPT ![s] = TRUE]
    BY DEF Write
  <1>2. kv' \in [Blocks -> [1..BlockSize -> Contexts \cup {Junk}]]
    BY WriteEffect
  <1>3. PICK a, b : a = Len(ctx[s]) /\ b = Len(pend[s])
    OBVIOUS
  <1>4. /\ ctx[s] \in Seq(Tokens) /\ pend[s] \in Seq(Tokens) /\ ctx[s] \o pend[s] \in Contexts
        /\ a \in Nat /\ b \in Nat \ {0}
    BY <1>1, <1>3, TokensOf, EmptySeq DEF StoreInv
  <1>5. n = a + b /\ n \in Nat
    <2>1. n = a + b
      BY <1>0, <1>3, Zenon
    <2>2. QED
      BY <1>4, <2>1
  <1>6. PICK g : g = Gather(s, n)'
    OBVIOUS
  <1>7. g = [r \in 1..n |-> kv'[block_table[s][BlockOf(r)]][SlotOf(r)]]
    BY <1>1, <1>6 DEF Gather
  <1>8. ASSUME NEW r \in 1..n
        PROVE  kv'[block_table[s][BlockOf(r)]][SlotOf(r)] \in Contexts \cup {Junk}
    <2>1. r \in 1..(Len(ctx[s]) + Len(pend[s]))
      BY <1>0, <1>8, Zenon
    <2>2. block_table[s][BlockOf(r)] \in Blocks /\ SlotOf(r) \in 1..BlockSize
      BY <2>1, RowPlace
    <2>3. QED
      BY <1>2, <2>2
  <1>9. g \in [1..n -> Contexts \cup {Junk}]
    BY <1>7, <1>8
  <1>10. ContextOf(g) # Junk => ContextOf(g) \in Contexts /\ Len(ContextOf(g)) = n
    BY <1>5, <1>9, GatheredContext
  <1>11. n # 0 /\ n \in 1..n /\ Len(<<>>) = 0
    <2>1. a \in Nat /\ b \in Nat \ {0}
      BY <1>4
    <2>2. n # 0
      BY <1>5, <2>1
    <2>3. n \in 1..n
      BY <1>5, <2>2
    <2>4. QED
      BY <2>2, <2>3
  <1>12. ContextOf(g) \in (Contexts \ {<<>>}) \cup {Junk}
    BY <1>10, <1>11
  <1>13. ASSUME RowInv' PROVE ContextOf(g) = ctx[s] \o pend[s]
    <2>1. PICK c : c = ctx[s] \o pend[s]
      OBVIOUS
    <2>2. c \in Contexts /\ c \in Seq(Tokens) /\ Len(c) = n
      <3>1. Len(c) = Len(ctx[s]) + Len(pend[s])
        BY <1>4, <2>1, ConcatProperties
      <3>2. QED
        BY <1>0, <1>4, <2>1, <3>1, ContextIsBoundedSeq, Zenon
    <2>3. ASSUME NEW r \in 1..n PROVE g[r] = SubSeq(c, 1, r)
      <3>1. g[r] = Row(s, r)'
        BY <1>1, <1>7 DEF Row
      <3>2. CASE r <= a
        <4>1. r \in 1..Len(ctx'[s])
          BY <1>1, <1>3, <1>4, <3>2
        <4>2. Row(s, r)' = SubSeq(ctx[s], 1, r)
          BY <1>1, <1>13, <4>1 DEF RowInv, CommittedOf
        <4>3. r \in 0..a
          BY <1>4, <3>2
        <4>4. r \in 0..Len(ctx[s])
          BY <1>3, <4>3, Zenon
        <4>5. SubSeq(ctx[s] \o pend[s], 1, r) = SubSeq(ctx[s], 1, r)
          BY <1>4, <4>4, PrefixWithin
        <4>6. QED
          BY <2>1, <3>1, <4>2, <4>5, Zenon
      <3>3. CASE r > a
        <4>1. PICK i \in 1..b : r = a + i
          <5>1. a \in Nat /\ b \in Nat \ {0}
            BY <1>4
          <5>2. r - a \in 1..b /\ r = a + (r - a)
            BY <1>5, <3>3, <5>1
          <5>3. QED
            BY <5>2
        <4>2. written'[s]
          BY <1>1 DEF StoreInv, Types
        <4>3. Row(s, a + i)' = ctx[s] \o SubSeq(pend[s], 1, i)
          <5>1. PendingOf(s)'
            BY <1>13 DEF RowInv
          <5>2. i \in 1..Len(pend'[s])
            BY <1>1, <1>3
          <5>3. (Row(s, Len(ctx[s]) + i))' = ctx'[s] \o SubSeq(pend'[s], 1, i)
            BY <4>2, <5>1, <5>2 DEF PendingOf
          <5>4. QED
            BY <1>1, <1>3, <5>3 DEF Row
        <4>4. i \in 0..b
          BY <1>4
        <4>5. i \in 0..Len(pend[s])
          BY <1>3, <4>4, Zenon
        <4>6. SubSeq(ctx[s] \o pend[s], 1, Len(ctx[s]) + i) = ctx[s] \o SubSeq(pend[s], 1, i)
          BY <1>4, <4>5, PrefixBeyond
        <4>7. QED
          BY <1>3, <2>1, <3>1, <4>1, <4>3, <4>6, Zenon
      <3>4. QED
        BY <1>4, <3>2, <3>3
    <2>4. g[n] = c /\ Len(g) = n /\ g # <<>>
      <3>1. n \in 1..n
        BY <1>11, Zenon
      <3>2. g[n] = SubSeq(c, 1, n)
        BY <2>3, <3>1
      <3>3. SubSeq(c, 1, Len(c)) = c
        BY <2>2, SubSeqFull
      <3>4. Len(g) = n /\ DOMAIN g = 1..n
        BY <1>5, <1>7
      <3>5. g # <<>>
        BY <1>11, <3>4
      <3>6. QED
        BY <2>2, <3>2, <3>3, <3>4, <3>5
    <2>5. c # Junk
      BY <2>2, JunkAssumption
    <2>6. \A r \in DOMAIN g : g[r] = SubSeq(g[Len(g)], 1, r)
      BY <1>7, <2>3, <2>4
    <2>7. QED
      BY <2>1, <2>4, <2>5, <2>6 DEF ContextOf
  <1>14. QED
    BY <1>6, <1>12, <1>13

\* The types follow from the invariant.
LEMMA TypesOfStore == StoreInv => TypeOK
  <1> SUFFICES ASSUME StoreInv PROVE TypeOK
    OBVIOUS
  <1>1. \A b \in Blocks : ref_count[b] \in Nat
    BY CountsAreNat DEF StoreInv
  <1>2. QED
    BY <1>1 DEF StoreInv, CountInv, Shape, TokenInv, Types, TypeOK

-----------------------------------------------------------------------------
(* The theorems. *)

\* The state keeps its types: counts are natural numbers, tables name blocks,
\* contexts stay within the bound, and whatever a forward gathers, what it
\* writes is a row of a context or a row of none.
THEOREM PoolTypes == Spec => []TypeOK
  <1>1. StoreInv /\ [Next]_vars => StoreInv'
    BY StepInv
  <1>2. StoreInv => TypeOK
    BY TypesOfStore
  <1>3. QED
    BY <1>1, <1>2, InitInv, PTL DEF Spec

\* The count of every block is exactly the number of block-table entries and
\* cache entries that name it, after any sequence of reserves (also those that
\* evict, and those that throw halfway), writes, commits, frees, shared
\* acquisitions, registrations and clears: nothing leaks and nothing is freed
\* while named.  It holds for every hash, colliding ones included.
THEOREM BlockManagerCounts == Spec => []RefCountExact
  <1>1. StoreInv /\ [Next]_vars => StoreInv'
    BY StepInv
  <1>2. StoreInv => RefCountExact
    BY DEF StoreInv, CountInv
  <1>3. QED
    BY <1>1, <1>2, InitInv, PTL DEF Spec

\* A block of a sequence that is not full of committed rows is named by no other
\* place of any table and by no cache entry: a forward may write it in place.
\* It holds for every hash too: the cache only ever names full blocks.
THEOREM TailsAreExclusive == Spec => []TailExclusive
  <1>1. StoreInv /\ [Next]_vars => StoreInv'
    BY StepInv
  <1>2. StoreInv => TailExclusive
    BY DEF StoreInv
  <1>3. QED
    BY <1>1, <1>2, InitInv, PTL DEF Spec

\* What attention gathers for each sequence.
Gathered == [s \in Seqs |-> Gather(s, Len(ctx[s]))]

\* Where the rows are right, that is the rows of its context.
LEMMA GatheredRows ==
  ASSUME RowInv
  PROVE  Gathered = [s \in Seqs |-> Store!RowsOf(ctx[s])]
  <1>1. ASSUME NEW s \in Seqs PROVE Gather(s, Len(ctx[s])) = Store!RowsOf(ctx[s])
    <2>1. \A r \in 1..Len(ctx[s]) : Row(s, r) = SubSeq(ctx[s], 1, r)
      BY DEF RowInv, CommittedOf
    <2>2. QED
      BY <2>1 DEF Gather, Row, Store!RowsOf
  <1>2. QED
    BY <1>1 DEF Gathered

\* A step leaves the contexts, or lengthens one, or empties one.
LEMMA ContextStep ==
  ASSUME StoreInv, [Next]_vars, ctx' # ctx
  PROVE  \E s \in Seqs : \E c \in Contexts :
           /\ ctx' = [ctx EXCEPT ![s] = c]
           /\ c = <<>> \/ (Len(c) > Len(ctx[s]) /\ SubSeq(c, 1, Len(ctx[s])) = ctx[s])
  <1>1. PICK s \in Seqs : Commit(s) \/ BeginShared(s) \/ Release(s)
    <2>1. ASSUME NEW t \in Seqs, NEW toks, Reserve(t, toks) PROVE ctx' = ctx
      BY <2>1 DEF Reserve
    <2>2. ASSUME NEW t \in Seqs, BeginForward(t) PROVE ctx' = ctx
      BY <2>1, <2>2 DEF BeginForward
    <2>3. ASSUME NEW t \in Seqs, Write(t) \/ AbortForward(t) PROVE ctx' = ctx
      BY <2>3 DEF Write, AbortForward
    <2>4. ASSUME NEW t \in Seqs, Register(t) PROVE ctx' = ctx
      BY <2>4 DEF Register, RegisterPrefix
    <2>5. Clear \/ UNCHANGED vars => ctx' = ctx
      BY DEF Clear, ClearPrefixCache, vars
    <2>6. QED
      BY <2>2, <2>3, <2>4, <2>5 DEF Next
  <1>2. ctx[s] \in Contexts /\ ctx[s] \in Seq(Tokens) /\ pend[s] \in Seq(Tokens)
    BY TokensOf DEF StoreInv
  <1>3. CASE Release(s)
    BY <1>3, EmptyContext DEF Release, FreeSeq
  <1>4. CASE Commit(s)
    <2>1. PICK c : c = ctx[s] \o pend[s]
      OBVIOUS
    <2>2. ctx' = [ctx EXCEPT ![s] = c] /\ written[s]
      BY <1>4, <2>1 DEF Commit
    <2>3. c \in Contexts
      BY <2>1 DEF StoreInv, TokenInv
    <2>4. PICK m, n : m = Len(ctx[s]) /\ n = Len(pend[s])
      OBVIOUS
    <2>5. m \in Nat /\ n \in Nat \ {0} /\ Len(c) = m + n
      <3>1. Len(pend[s]) \in Nat \ {0}
        BY <1>2, <2>2, EmptySeq DEF StoreInv, Covered
      <3>2. Len(c) = Len(ctx[s]) + Len(pend[s]) /\ Len(ctx[s]) \in Nat
        BY <1>2, <2>1
      <3>3. QED
        BY <2>4, <3>1, <3>2
    <2>6. m \in 0..m
      BY <2>5
    <2>7. m \in 0..Len(ctx[s])
      BY <2>4, <2>6, Zenon
    <2>8. SubSeq(c, 1, m) = SubSeq(ctx[s], 1, m)
      BY <1>2, <2>1, <2>7, PrefixWithin
    <2>9. SubSeq(ctx[s], 1, m) = ctx[s]
      BY <1>2, <2>4, SubSeqFull
    <2>10. Len(c) > m
      BY <2>5
    <2>11. QED
      BY <2>2, <2>3, <2>4, <2>8, <2>9, <2>10
  <1>5. CASE BeginShared(s)
    <2>1. PICK toks \in Contexts : AcquireSharedPrefix(s, toks)
      BY <1>5 DEF BeginShared
    <2>2. PICK m \in 0..FullBlocks(toks) : ctx' = [ctx EXCEPT ![s] = SubSeq(toks, 1, m * BlockSize)]
      BY <2>1 DEF AcquireSharedPrefix
    <2>3. PICK c : c = SubSeq(toks, 1, m * BlockSize)
      OBVIOUS
    <2>4. Len(toks) \in Nat
      BY ContextIsBoundedSeq, LenProperties
    <2>5. m * BlockSize \in 0..Len(toks)
      BY <2>4, WholeBlocksFit
    <2>6. c \in Contexts
      BY <2>3, <2>5, PrefixContext
    <2>7. ctx[s] = <<>>
      BY <2>1 DEF AcquireSharedPrefix
    <2>8. Len(ctx[s]) = 0 /\ SubSeq(c, 1, 0) = ctx[s]
      BY <2>7, SubSeqEmpty
    <2>9. c = <<>> \/ Len(c) > 0
      <3>1. c \in Seq(Tokens)
        BY <2>6, ContextIsBoundedSeq
      <3>2. QED
        BY <3>1, EmptySeq
    <2>10. QED
      BY <2>2, <2>3, <2>6, <2>8, <2>9
  <1>6. QED
    BY <1>1, <1>3, <1>4, <1>5

\* The rows of a longer context extend those of the shorter one.
LEMMA RowsOfLonger ==
  ASSUME NEW c \in Contexts, NEW d \in Contexts, Len(d) > Len(c), SubSeq(d, 1, Len(c)) = c
  PROVE  /\ Len(Store!RowsOf(d)) > Len(Store!RowsOf(c))
         /\ SubSeq(Store!RowsOf(d), 1, Len(Store!RowsOf(c))) = Store!RowsOf(c)
  <1>1. /\ c \in Seq(Tokens) /\ d \in Seq(Tokens) /\ Len(c) \in Nat /\ Len(d) \in Nat
    BY ContextIsBoundedSeq, LenProperties
  <1>2. PICK p, q : p = Store!RowsOf(c) /\ q = Store!RowsOf(d)
    OBVIOUS
  <1>3. /\ p = [r \in 1..Len(c) |-> SubSeq(c, 1, r)] /\ q = [r \in 1..Len(d) |-> SubSeq(d, 1, r)]
    BY <1>2 DEF Store!RowsOf
  <1>4. /\ p \in Seq(Seq(Tokens)) /\ Len(p) = Len(c)
        /\ q \in Seq(Seq(Tokens)) /\ Len(q) = Len(d)
    BY <1>1, <1>3
  <1>5. ASSUME NEW r \in 1..Len(c) PROVE q[r] = p[r]
    <2>1. Len(c) \in 0..Len(d) /\ r \in 0..Len(c) /\ r \in 1..Len(d)
      BY <1>1
    <2>2. SubSeq(SubSeq(d, 1, Len(c)), 1, r) = SubSeq(d, 1, r)
      BY <1>1, <2>1, PrefixTwice
    <2>3. QED
      BY <1>3, <2>1, <2>2
  <1>6. /\ SubSeq(q, 1, Len(c)) \in Seq(Seq(Tokens)) /\ Len(SubSeq(q, 1, Len(c))) = Len(c)
        /\ \A r \in 1..Len(c) : SubSeq(q, 1, Len(c))[r] = q[r]
    BY <1>1, <1>4
  <1>7. SubSeq(q, 1, Len(c)) = p
    <2>1. \A r \in 1..Len(c) : SubSeq(q, 1, Len(c))[r] = p[r]
      BY <1>5, <1>6
    <2>2. QED
      BY <1>4, <1>6, <2>1, SeqEqual
  <1>8. QED
    BY <1>1, <1>2, <1>4, <1>7

\* A step of the pool appends rows to one sequence of the store, or empties one,
\* or shows in none.
LEMMA StoreRefines ==
  ASSUME StoreInv, RowInv, RowInv', [Next]_vars
  PROVE  [Store!Next]_Gathered
  <1>1. Gathered = [s \in Seqs |-> Store!RowsOf(ctx[s])]
    BY GatheredRows
  <1>2. Gathered' = [s \in Seqs |-> Store!RowsOf(ctx'[s])]
    <2>1. ASSUME NEW s \in Seqs PROVE Gathered'[s] = Store!RowsOf(ctx'[s])
      <3>1. \A r \in 1..Len(ctx'[s]) : Row(s, r)' = SubSeq(ctx'[s], 1, r)
        BY DEF RowInv, CommittedOf
      <3>2. QED
        BY <3>1 DEF Gathered, Gather, Row, Store!RowsOf
    <2>2. QED
      BY <2>1 DEF Gathered
  <1>3. CASE ctx' = ctx
    BY <1>1, <1>2, <1>3
  <1>4. CASE ctx' # ctx
    <2>1. PICK s \in Seqs : \E c \in Contexts :
           /\ ctx' = [ctx EXCEPT ![s] = c]
           /\ c = <<>> \/ (Len(c) > Len(ctx[s]) /\ SubSeq(c, 1, Len(ctx[s])) = ctx[s])
      BY <1>4, ContextStep
    <2>2. PICK c \in Contexts :
           /\ ctx' = [ctx EXCEPT ![s] = c]
           /\ c = <<>> \/ (Len(c) > Len(ctx[s]) /\ SubSeq(c, 1, Len(ctx[s])) = ctx[s])
      BY <2>1
    <2>3. ctx \in [Seqs -> Contexts]
      BY DEF StoreInv, TokenInv
    <2>4. /\ Gathered'[s] = Store!RowsOf(c) /\ Gathered[s] = Store!RowsOf(ctx[s])
          /\ Gathered' = [Gathered EXCEPT ![s] = Store!RowsOf(c)]
      BY <1>1, <1>2, <2>2, <2>3
    <2>5. CASE c = <<>>
      <3>1. Store!RowsOf(c) = <<>>
        BY <2>5 DEF Store!RowsOf
      <3>2. Store!Reset(s)
        BY <2>4, <3>1 DEF Store!Reset, Gathered
      <3>3. QED
        BY <3>2 DEF Store!Next
    <2>6. CASE c # <<>>
      <3>1. /\ Len(Store!RowsOf(c)) > Len(Store!RowsOf(ctx[s]))
            /\ SubSeq(Store!RowsOf(c), 1, Len(Store!RowsOf(ctx[s]))) = Store!RowsOf(ctx[s])
        BY <2>2, <2>3, <2>6, RowsOfLonger
      <3>2. Store!Extend(s)
        BY <2>4, <3>1 DEF Store!Extend, Gathered
      <3>3. QED
        BY <3>2 DEF Store!Next
    <2>7. QED
      BY <2>5, <2>6
  <1>5. QED
    BY <1>3, <1>4

\* Paging, sharing and eviction implement the private store of rows: at every
\* step what attention gathers for a sequence is the rows of its own context,
\* provided that the chain hash of two different prefixes differs.
THEOREM PoolImplementsStore == NoCollision => (Spec => ImplementsStore)
  <1> SUFFICES ASSUME NoCollision PROVE Spec => ImplementsStore
    OBVIOUS
  <1> DEFINE Inv == StoreInv /\ RowInv
  <1>1. Init => Inv
    BY InitInv
  <1>2. Inv /\ [Next]_vars => Inv'
    BY StepInv
  <1>3. Init => Store!Init
    BY DEF Init, Store!Init, Gather
  <1>4. Inv /\ Inv' /\ [Next]_vars => [Store!Next]_[s \in Seqs |-> Gather(s, Len(ctx[s]))]
    BY StoreRefines DEF Gathered
  <1> HIDE DEF Inv
  <1>5. QED
    BY <1>1, <1>2, <1>3, <1>4, PTL DEF Spec, ImplementsStore, Store!Spec
=============================================================================
