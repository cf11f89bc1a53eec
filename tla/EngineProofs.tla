---------------------------- MODULE EngineProofs ----------------------------
(***************************************************************************)
(* The continuous-batching engine over the pooled KV cache, for any pool,  *)
(* any block size, any number of requests, with or without the prefix      *)
(* cache: its queues are exact, only running sequences hold blocks, the    *)
(* rows of a sequence are those of its context, no reserve of a forward    *)
(* runs out of blocks, and every request is served as if it ran alone.     *)
(*                                                                         *)
(* The argument.  The pool of the engine is a BlockManager, so the         *)
(* invariants BlockManagerProofs shows its operations to keep (P!StoreInv, *)
(* and P!RowInv where no two chains of blocks hash alike) hold here.  On   *)
(* top of them stands what step() is in the middle of: which items of the  *)
(* batch the current phase has been through (Past, Ahead), and so which    *)
(* sequences have rows reserved, written or committed (Holdings); that the *)
(* batch takes a running sequence once, with exactly the tokens its rows   *)
(* lack (Batch); and that what its items still need adds up to no more     *)
(* than the free blocks (Fit).                                             *)
(***************************************************************************)
EXTENDS Engine, SequenceTheorems, WellFoundedInduction, FiniteSetTheorems, TLAPS

P == INSTANCE BlockManagerProofs

Contexts == P!Contexts

Injective(q) == \A i, j \in DOMAIN q : q[i] = q[j] => i = j
Entries(q) == {q[i] : i \in DOMAIN q}

Item == [id : Seqs, tokens : Contexts, register : Contexts,
         seen : (Contexts \ {<<>>}) \cup {Junk}]

Shape == /\ request \in [Seqs -> RequestKinds \cup {NoRequest}]
         /\ output \in [Seqs -> Seq(Tokens)]
         /\ status \in [Seqs -> {"Waiting", "Running", "Finished"}]
         /\ prefilled \in [Seqs -> BOOLEAN]
         /\ waiting \in Seq(Seqs) /\ running \in Seq(Seqs) /\ next_id \in 0..NumRequests
         /\ pc \in {"idle", "admit", "assemble", "reserve", "abort", "write", "commit", "sample"}
         /\ scan \in Nat \ {0} /\ budget \in Int /\ items \in Seq(Item)

\* A request that waits has computed nothing that it keeps; one that is not
\* finished has room for another token; only a running one holds anything.
Life(id) ==
    /\ id < next_id => request[id] \in RequestKinds
    /\ id >= next_id => request[id] = NoRequest /\ status[id] = "Waiting" /\ output[id] = <<>>
    /\ prefilled[id] => output[id] # <<>>
    /\ status[id] = "Waiting" => ~ prefilled[id]
    /\ output[id] # <<>> /\ status[id] # "Finished" => Len(output[id]) < request[id].max_tokens
    /\ status[id] # "Running" => block_table[id] = <<>> /\ ctx[id] = <<>> /\ pend[id] = <<>>

Lives == \A id \in Seqs : Life(id)

\* Every live request is in the queue its status says, once.
Queues ==
    /\ Injective(waiting) /\ Injective(running)
    /\ \A id \in Seqs :
         /\ id \in Entries(waiting) <=> id < next_id /\ status[id] = "Waiting"
         /\ id \in Entries(running) <=>
              \/ status[id] = "Running"
              \/ status[id] = "Finished" /\ pc = "sample" /\ id \in Batched

\* The item at k has been through this phase of the step, or is still to go.
Past(phase, k) == pc = phase /\ k < scan
Ahead(phase, k) == pc = phase /\ k >= scan

\* An item of the batch: a running sequence, looked at by the assembly, with the
\* tokens that no row covers yet.
ItemOk(k) ==
    /\ pc = "assemble" => \E j \in DOMAIN running : j < scan /\ items[k].id = running[j]
    /\ ~ Past("sample", k) => /\ status[items[k].id] = "Running"
                              /\ items[k].register \in {<<>>, Context(items[k].id)}
    /\ pc \in {"assemble", "reserve"} =>
         items[k].tokens # <<>> /\ ctx[items[k].id] \o items[k].tokens = Context(items[k].id)

\* The batch takes each sequence once.
Batch ==
    /\ pc \in {"idle", "admit"} => items = <<>>
    /\ \A k, l \in DOMAIN items : items[k].id = items[l].id => k = l
    /\ \A k \in DOMAIN items : ItemOk(k)

Committed(id) == \E k \in DOMAIN items : items[k].id = id /\ (Past("commit", k) \/ Ahead("sample", k))

Reserved(id) == \E k \in DOMAIN items :
    items[k].id = id /\ (Past("reserve", k) \/ pc = "write" \/ Ahead("commit", k))

Written(id) == \E k \in DOMAIN items : items[k].id = id /\ (Past("write", k) \/ Ahead("commit", k))

\* What the committed rows of a running sequence cover.
Rows(id) ==
    IF Committed(id) THEN ctx[id] = Context(id)
    ELSE IF prefilled[id] THEN ctx[id] = SubSeq(Context(id), 1, Len(Context(id)) - 1)
    ELSE ctx[id] = SubSeq(Context(id), 1, Len(ctx[id])) /\ Len(ctx[id]) < Len(Context(id))

\* What the forward has appended to it, and how many blocks it may hold.
Pending(id) ==
    /\ written[id] <=> Written(id)
    /\ pc # "abort" => IF Reserved(id) THEN pend[id] # <<>> /\ ctx[id] \o pend[id] = Context(id)
                       ELSE pend[id] = <<>>
    /\ Len(block_table[id]) <= P!BlocksFor(Len(Context(id)))

Holdings == \A id \in Seqs : status[id] = "Running" => Rows(id) /\ Pending(id)

\* Blocks a running sequence still needs for its context.
Need(id) == P!BlocksFor(Len(Context(id))) - Len(block_table[id])

\* f[k] is what the first k items need.
Sums(f) ==
    /\ f \in [0..Len(items) -> Int]
    /\ \A k \in DOMAIN items : ~ Past("reserve", k) => f[k] = f[k - 1] + Need(items[k].id)
    /\ \A i, j \in 0..Len(items) : i <= j => f[i] <= f[j]

\* What the items need adds up to no more than the free blocks, and the budget is
\* what they leave.
Fit == pc \in {"assemble", "reserve"} => \E f : Sums(f) /\
    /\ pc = "assemble" => budget >= 0 /\ f[Len(items)] - f[0] + budget = NumFree
    /\ pc = "reserve" /\ scan <= Len(items) => f[Len(items)] - f[scan - 1] <= NumFree

\* An item of which the forward is over saw its own context.
Seen == \A k \in DOMAIN items :
    Past("write", k) \/ pc = "commit" \/ Ahead("sample", k) => items[k].seen = Context(items[k].id)

EInv == P!StoreInv /\ Shape /\ Lives /\ Queues /\ Batch /\ Holdings /\ Fit

\* Where no two chains of blocks hash alike, every row is right as well.
Right == P!NoCollision => P!RowInv /\ Seen

-----------------------------------------------------------------------------
(* The pool of the engine is a BlockManager: what BlockManagerProofs states *)
(* of its operations holds of the engine's.                                 *)

\* The constants of the engine satisfy what BlockManager assumes of its own.
LEMMA SamePool ==
  /\ Pool!Contexts = P!Contexts
  /\ P!BlocksAssumption /\ P!SeqsAssumption /\ P!BlockSizeAssumption
  /\ P!MaxLenAssumption /\ P!JunkAssumption
  <1>1. Pool!Contexts = P!Contexts
    BY Zenon DEF Pool!Contexts, P!Contexts
  <1>2. IsFiniteSet(Seqs)
    BY NumRequestsAssumption, FS_Interval DEF Seqs
  <1>3. IsFiniteSet(Blocks) <=> P!IsFiniteSet(Blocks)
    BY Zenon DEF IsFiniteSet, P!IsFiniteSet
  <1>4. IsFiniteSet(Seqs) <=> P!IsFiniteSet(Seqs)
    BY Zenon DEF IsFiniteSet, P!IsFiniteSet
  <1>5. QED
    BY <1>1, <1>2, <1>3, <1>4, PoolAssumption, Zenon
    DEF P!BlocksAssumption, P!SeqsAssumption, P!BlockSizeAssumption, P!MaxLenAssumption, P!JunkAssumption

\* Cardinality is the same operator in every instance.
LEMMA SameCount ==
  ASSUME NEW S
  PROVE  Cardinality(S) = P!Cardinality(S) /\ Pool!Cardinality(S) = P!Cardinality(S)
  BY Zenon DEF Cardinality, P!Cardinality, Pool!Cardinality

\* The helpers of the pool are the same.
LEMMA SameHelpers ==
  /\ \A s, n : Pool!Deficit(s, n) = P!Deficit(s, n)
  /\ Pool!Free = P!Free
  /\ Pool!Evictable = P!Evictable
  /\ \A c, i : Pool!Key(c, i) = P!Key(c, i)
  /\ \A c : Pool!FullBlocks(c) = P!FullBlocks(c)
  /\ \A s, q, b : Pool!Refs(s, q, b) = P!Refs(s, q, b)
  /\ \A m, n : Pool!Least(m, n) = P!Least(m, n)
  /\ Pool!Blank = P!Blank
  /\ \A n : Pool!BlocksFor(n) = P!BlocksFor(n)
  /\ \A g : Pool!ContextOf(g) = P!ContextOf(g)
  BY Zenon DEF Pool!Deficit, P!Deficit, Pool!BlocksFor, P!BlocksFor, Pool!Free, P!Free,
     Pool!Evictable, P!Evictable, Pool!Key, P!Key, Pool!FullBlocks, P!FullBlocks,
     Pool!Refs, P!Refs, Pool!Least, P!Least, Pool!Blank, P!Blank, Pool!ContextOf, P!ContextOf

\* So are its initial states and its operations: Pool!Op is P!Op.
LEMMA SameInit == Pool!Init => P!Init
  BY SameHelpers, Zenon DEF Pool!Init, P!Init, Pool!Blank, P!Blank

\* reserve().
LEMMA SameReserve ==
  ASSUME NEW s, NEW toks, Pool!Reserve(s, toks)
  PROVE  P!Reserve(s, toks)
  BY Zenon DEF Pool!Reserve, P!Reserve, Pool!Deficit, P!Deficit, Pool!BlocksFor, P!BlocksFor,
     Pool!Free, P!Free, Pool!Evictable, P!Evictable, Pool!Least, P!Least, Pool!Blank, P!Blank,
     Pool!Cardinality, P!Cardinality, Pool!Injective, P!Injective, Pool!Entries, P!Entries,
     Pool!Rest, P!Rest

\* write().
LEMMA SameWrite ==
  ASSUME NEW s, Pool!Write(s)
  PROVE  P!Write(s)
  BY Zenon DEF Pool!Write, P!Write, Pool!BlockOf, P!BlockOf, Pool!SlotOf, P!SlotOf,
     Pool!Attend, P!Attend, Pool!ContextOf, P!ContextOf, Pool!Gather, P!Gather

\* commit().
LEMMA SameCommit ==
  ASSUME NEW s, Pool!Commit(s)
  PROVE  P!Commit(s)
  BY Zenon DEF Pool!Commit, P!Commit

\* free().
LEMMA SameFreeSeq ==
  ASSUME NEW s, Pool!FreeSeq(s)
  PROVE  P!FreeSeq(s)
  BY Zenon DEF Pool!FreeSeq, P!FreeSeq, Pool!Cardinality, P!Cardinality, Pool!Held, P!Held,
     Pool!Refs, P!Refs, Pool!Blank, P!Blank

\* acquire_shared_prefix().
LEMMA SameAcquire ==
  ASSUME NEW s, NEW toks, Pool!AcquireSharedPrefix(s, toks)
  PROVE  P!AcquireSharedPrefix(s, toks)
  BY Zenon DEF Pool!AcquireSharedPrefix, P!AcquireSharedPrefix, Pool!FullBlocks, P!FullBlocks,
     Pool!Key, P!Key, Pool!Refs, P!Refs, Pool!Cardinality, P!Cardinality

\* register_prefix().
LEMMA SameRegister ==
  ASSUME NEW s, NEW toks, Pool!RegisterPrefix(s, toks)
  PROVE  P!RegisterPrefix(s, toks)
  BY Zenon DEF Pool!RegisterPrefix, P!RegisterPrefix, Pool!FullBlocks, P!FullBlocks,
     Pool!Key, P!Key, Pool!Least, P!Least, Pool!Cardinality, P!Cardinality

\* What attention gathers after a step.
LEMMA SameGather ==
  ASSUME NEW s, NEW n
  PROVE  Pool!Gather(s, n)' = P!Gather(s, n)'
  BY Zenon DEF Pool!Gather, P!Gather, Pool!BlockOf, P!BlockOf, Pool!SlotOf, P!SlotOf

-----------------------------------------------------------------------------
(* Removing entries from a queue.  The library's induction theorems take an *)
(* operator, so induction is on the least number without the property.      *)

\* A set of numbers that is not empty has a least element.
LEMMA LeastExists ==
  ASSUME NEW T, T \subseteq Nat, T # {}
  PROVE  \E x \in T : \A y \in T : x <= y
  <1> DEFINE R == {ss \in Nat \X Nat : ss[1] < ss[2]}
  <1>1. R = OpToRel(<, Nat)
    BY Zenon DEF OpToRel
  <1> HIDE DEF R
  <1>2. IsWellFoundedOn(R, Nat)
    BY <1>1, NatLessThanWellFounded, Zenon
  <1>3. PICK x \in T : \A y \in T : ~ (<<y, x>> \in R)
    BY <1>2, WFMin, Zenon
  <1>4. ASSUME NEW y \in T PROVE x <= y
    <2>1. <<y, x>> \in Nat \X Nat /\ <<y, x>> \notin R
      BY <1>3
    <2>2. ~ (<<y, x>>[1] < <<y, x>>[2])
      BY <2>1 DEF R
    <2>3. QED
      BY <2>2
  <1>5. QED
    BY <1>4

\* What is left of the first n entries, from what is left of those before the last.
Kept(q, S, f, n) == IF n = 0 THEN <<>>
                    ELSE IF q[n] \in S THEN f[n - 1] ELSE Append(f[n - 1], q[n])

\* The recursion of Without() defines a function.
LEMMA KeptExists ==
  ASSUME NEW q, NEW S, NEW m \in Nat
  PROVE  \E f : f = [n \in 0..m |-> Kept(q, S, f, n)]
  <1> DEFINE Undefined(n) == ~ \E f : f = [k \in 0..n |-> Kept(q, S, f, k)]
             T == {n \in Nat : Undefined(n)}
  <1> SUFFICES ASSUME T # {} PROVE FALSE
    OBVIOUS
  <1>1. PICK n \in T : \A k \in T : n <= k
    BY LeastExists
  <1>2. CASE n = 0
    <2> DEFINE f == [k \in 0..0 |-> <<>>]
    <2>1. f = [k \in 0..0 |-> Kept(q, S, f, k)]
      BY DEF Kept
    <2>2. QED
      BY <1>1, <1>2, <2>1
  <1>3. CASE n # 0
    <2>1. n - 1 \in Nat /\ n - 1 \notin T
      BY <1>1, <1>3
    <2>2. PICK f : f = [k \in 0..(n - 1) |-> Kept(q, S, f, k)]
      BY <2>1
    <2> DEFINE g == [k \in 0..n |-> IF k = n THEN Kept(q, S, f, n) ELSE f[k]]
    <2>3. ASSUME NEW k \in 0..n PROVE g[k] = Kept(q, S, g, k)
      <3>1. CASE k = n
        BY <1>3, <3>1 DEF Kept
      <3>2. CASE k # n
        <4>1. k \in 0..(n - 1) /\ g[k] = f[k]
          BY <3>2
        <4>2. f[k] = Kept(q, S, f, k)
          BY <2>2, <4>1
        <4>3. k # 0 => g[k - 1] = f[k - 1]
          BY <4>1
        <4>4. QED
          BY <4>1, <4>2, <4>3 DEF Kept
      <3>3. QED
        BY <3>1, <3>2
    <2>4. g = [k \in 0..n |-> Kept(q, S, g, k)]
      BY <2>3
    <2>5. QED
      BY <1>1, <2>4
  <1>4. QED
    BY <1>2, <1>3

\* Without() removes what it is told to, and keeps the rest, once each.
LEMMA WithoutProperties ==
  ASSUME NEW Q, NEW q \in Seq(Q), NEW S
  PROVE  /\ Without(q, S) \in Seq(Q)
         /\ Entries(Without(q, S)) = Entries(q) \ S
         /\ Injective(q) => Injective(Without(q, S))
  <1> DEFINE m == Len(q)
             kept == CHOOSE f : f = [n \in 0..m |-> Kept(q, S, f, n)]
             First(n) == {q[i] : i \in 1..n}
             Good(n) == /\ kept[n] \in Seq(Q) /\ Entries(kept[n]) = First(n) \ S
                        /\ Injective(q) => Injective(kept[n])
             T == {n \in Nat : n <= m /\ ~ Good(n)}
  <1>1. m \in Nat
    OBVIOUS
  <1>2. kept = [n \in 0..m |-> Kept(q, S, kept, n)]
    BY <1>1, KeptExists
  <1>3. Without(q, S) = kept[m]
    BY Zenon DEF Without, Kept
  <1> HIDE DEF kept
  <1>4. T = {}
    <2> SUFFICES ASSUME T # {} PROVE FALSE
      OBVIOUS
    <2>1. PICK n \in T : \A k \in T : n <= k
      BY LeastExists
    <2>2. n \in 0..m /\ kept[n] = Kept(q, S, kept, n) /\ ~ Good(n)
      BY <1>2, <2>1
    <2>3. n # 0
      <3> SUFFICES ASSUME n = 0 PROVE FALSE
        OBVIOUS
      <3>1. kept[n] = <<>>
        BY <2>2 DEF Kept
      <3>2. <<>> \in Seq(Q) /\ Entries(<<>>) = {} /\ Injective(<<>>) /\ First(0) = {}
        BY DEF Entries, Injective
      <3>3. QED
        BY <2>2, <3>1, <3>2
    <2> DEFINE p == kept[n - 1]
    <2>4. n - 1 \in Nat /\ Good(n - 1) /\ n - 1 <= m
      <3> HIDE DEF Good
      <3>1. n - 1 \in Nat /\ n - 1 <= m /\ ~ (n <= n - 1)
        BY <1>1, <2>2, <2>3
      <3>2. n - 1 \notin T
        BY <2>1, <3>1
      <3>3. QED
        BY <3>1, <3>2
    <2>5. First(n) = First(n - 1) \cup {q[n]}
      <3>1. 1..n = 1..(n - 1) \cup {n}
        BY <2>2, <2>3
      <3>2. QED
        BY <3>1
    <2>6. CASE q[n] \in S
      BY <2>2, <2>3, <2>4, <2>5, <2>6 DEF Kept
    <2>7. CASE q[n] \notin S
      <3>1. kept[n] = Append(p, q[n]) /\ q[n] \in Q /\ p \in Seq(Q)
        BY <2>2, <2>3, <2>4, <2>7 DEF Kept
      <3>2. /\ kept[n] \in Seq(Q) /\ Len(kept[n]) = Len(p) + 1
            /\ DOMAIN kept[n] = DOMAIN p \cup {Len(p) + 1} /\ DOMAIN p = 1..Len(p)
            /\ \A i \in DOMAIN p : kept[n][i] = p[i]
            /\ kept[n][Len(p) + 1] = q[n]
        BY <3>1
      <3>3. Entries(kept[n]) = Entries(p) \cup {q[n]}
        BY <3>2 DEF Entries
      <3>4. Injective(q) => q[n] \notin First(n - 1)
        BY <1>1, <2>2, <2>3 DEF Injective
      <3>5. Injective(q) => Injective(kept[n])
        <4> SUFFICES ASSUME Injective(q), NEW i \in DOMAIN kept[n], NEW j \in DOMAIN kept[n],
                            kept[n][i] = kept[n][j]
                     PROVE  i = j
          BY DEF Injective
        <4>1. q[n] \notin Entries(p) /\ Injective(p)
          BY <2>4, <3>4
        <4>2. CASE i \in DOMAIN p /\ j \in DOMAIN p
          BY <3>2, <4>1, <4>2 DEF Injective
        <4>3. CASE i \in DOMAIN p /\ j = Len(p) + 1
          BY <3>2, <4>1, <4>3 DEF Entries
        <4>4. CASE i = Len(p) + 1 /\ j \in DOMAIN p
          BY <3>2, <4>1, <4>4 DEF Entries
        <4>5. QED
          BY <3>2, <4>2, <4>3, <4>4
      <3>6. QED
        BY <2>2, <2>4, <2>5, <2>7, <3>2, <3>3, <3>5
    <2>8. QED
      BY <2>6, <2>7
  <1>5. Good(m)
    <2> HIDE DEF Good
    <2>1. QED
      BY <1>1, <1>4
  <1>6. First(m) = Entries(q)
    BY DEF Entries
  <1>7. QED
    BY <1>3, <1>5, <1>6

-----------------------------------------------------------------------------
(* Queues, and the rows of a context. *)

\* The entries of a queue.
LEMMA EntriesIn ==
  ASSUME NEW T, NEW q \in Seq(T)
  PROVE  Entries(q) \subseteq T /\ Entries(q) = {q[k] : k \in 1..Len(q)}
  BY DEF Entries

\* Two queues hold every entry once when each does and they share none.
LEMMA DistinctConcat ==
  ASSUME NEW T, NEW p \in Seq(T), NEW q \in Seq(T)
  PROVE  Injective(p \o q) <=> Injective(p) /\ Injective(q) /\ Entries(p) \cap Entries(q) = {}
  <1> DEFINE m == Len(p)
             n == Len(q)
  <1>1. /\ p \o q \in Seq(T) /\ m \in Nat /\ n \in Nat
        /\ DOMAIN p = 1..m /\ DOMAIN q = 1..n /\ DOMAIN (p \o q) = 1..(m + n)
        /\ \A k \in 1..m : (p \o q)[k] = p[k]
        /\ \A k \in 1..n : (p \o q)[m + k] = q[k]
    OBVIOUS
  <1>2. ASSUME Injective(p \o q)
        PROVE  Injective(p) /\ Injective(q) /\ Entries(p) \cap Entries(q) = {}
    <2>1. \A i, j \in 1..(m + n) : (p \o q)[i] = (p \o q)[j] => i = j
      BY <1>1, <1>2 DEF Injective
    <2> HIDE DEF m, n
    <2>2. \A i, j \in 1..m : p[i] = p[j] => i = j
      BY <1>1, <2>1
    <2>3. ASSUME NEW i \in 1..n, NEW j \in 1..n, q[i] = q[j] PROVE i = j
      <3>1. m + i \in 1..(m + n) /\ m + j \in 1..(m + n)
        BY <1>1
      <3>2. (p \o q)[m + i] = (p \o q)[m + j]
        BY <1>1, <2>3
      <3>3. m + i = m + j
        BY <2>1, <3>1, <3>2
      <3>4. QED
        BY <1>1, <3>3
    <2>4. ASSUME NEW i \in 1..m, NEW j \in 1..n PROVE p[i] # q[j]
      <3>1. i \in 1..(m + n) /\ m + j \in 1..(m + n) /\ i # m + j
        BY <1>1
      <3>2. (p \o q)[i] # (p \o q)[m + j]
        BY <2>1, <3>1
      <3>3. QED
        BY <1>1, <3>2
    <2>5. QED
      BY <1>1, <2>2, <2>3, <2>4 DEF Injective, Entries
  <1>3. ASSUME Injective(p), Injective(q), Entries(p) \cap Entries(q) = {},
               NEW i \in DOMAIN (p \o q), NEW j \in DOMAIN (p \o q), (p \o q)[i] = (p \o q)[j]
        PROVE  i = j
    <2> HIDE DEF m, n
    <2>1. \A k \in 1..(m + n) : k > m => k - m \in 1..n /\ (p \o q)[k] = q[k - m]
      <3> SUFFICES ASSUME NEW k \in 1..(m + n), k > m
                   PROVE  k - m \in 1..n /\ (p \o q)[k] = q[k - m]
        OBVIOUS
      <3>1. k - m \in 1..n /\ m + (k - m) = k
        BY <1>1
      <3>2. QED
        BY <1>1, <3>1
    <2>2. \A a \in 1..m, b \in 1..n : p[a] # q[b]
      BY <1>1, <1>3 DEF Entries
    <2>3. CASE i <= m /\ j <= m
      BY <1>1, <1>3, <2>3 DEF Injective
    <2>4. CASE i > m /\ j > m
      <3>1. i - m = j - m
        BY <1>1, <1>3, <2>1, <2>4 DEF Injective
      <3>2. QED
        BY <1>1, <3>1
    <2>5. CASE i <= m /\ j > m
      BY <1>1, <1>3, <2>1, <2>2, <2>5
    <2>6. CASE i > m /\ j <= m
      BY <1>1, <1>3, <2>1, <2>2, <2>6
    <2>7. QED
      BY <1>1, <2>3, <2>4, <2>5, <2>6
  <1>4. QED
    BY <1>2, <1>3 DEF Injective

\* A new entry at the back.
LEMMA AppendQueue ==
  ASSUME NEW T, NEW q \in Seq(T), NEW x \in T, Injective(q), x \notin Entries(q)
  PROVE  /\ Append(q, x) \in Seq(T) /\ Injective(Append(q, x))
         /\ Entries(Append(q, x)) = Entries(q) \cup {x}
  <1>1. /\ Append(q, x) \in Seq(T) /\ Len(q) \in Nat
        /\ DOMAIN q = 1..Len(q) /\ DOMAIN Append(q, x) = 1..(Len(q) + 1)
        /\ \A k \in 1..Len(q) : Append(q, x)[k] = q[k]
        /\ Append(q, x)[Len(q) + 1] = x
    OBVIOUS
  <1>2. 1..(Len(q) + 1) = 1..Len(q) \cup {Len(q) + 1}
    BY <1>1
  <1>3. Entries(Append(q, x)) = Entries(q) \cup {x}
    BY <1>1, <1>2 DEF Entries
  <1>4. Injective(Append(q, x))
    BY <1>1, <1>2 DEF Injective, Entries
  <1>5. QED
    BY <1>1, <1>3, <1>4

\* The head leaves.
LEMMA TailQueue ==
  ASSUME NEW T, NEW q \in Seq(T), q # <<>>, Injective(q)
  PROVE  /\ Head(q) \in T /\ Head(q) \in Entries(q) /\ Tail(q) \in Seq(T) /\ Injective(Tail(q))
         /\ Entries(Tail(q)) = Entries(q) \ {Head(q)}
  <1> DEFINE m == Len(q)
  <1>1. /\ m \in Nat \ {0} /\ Head(q) = q[1] /\ Head(q) \in T /\ Tail(q) \in Seq(T)
        /\ DOMAIN q = 1..m /\ DOMAIN Tail(q) = 1..(m - 1)
        /\ \A k \in 1..(m - 1) : Tail(q)[k] = q[k + 1]
    OBVIOUS
  <1> HIDE DEF m
  <1>2. \A i, j \in 1..m : q[i] = q[j] => i = j
    BY <1>1 DEF Injective
  <1>3. ASSUME NEW i \in 1..(m - 1), NEW j \in 1..(m - 1), Tail(q)[i] = Tail(q)[j] PROVE i = j
    <2>1. i + 1 \in 1..m /\ j + 1 \in 1..m /\ q[i + 1] = q[j + 1]
      BY <1>1, <1>3
    <2>2. i + 1 = j + 1
      BY <1>2, <2>1
    <2>3. QED
      BY <2>2
  <1>4. ASSUME NEW x PROVE x \in Entries(Tail(q)) <=> x \in Entries(q) \ {Head(q)}
    <2>1. ASSUME NEW i \in 1..(m - 1), x = Tail(q)[i] PROVE x \in Entries(q) \ {Head(q)}
      <3>1. i + 1 \in 1..m /\ i + 1 # 1 /\ x = q[i + 1] /\ 1 \in 1..m
        BY <1>1, <2>1
      <3>2. x # q[1]
        BY <1>2, <3>1
      <3>3. QED
        BY <1>1, <3>1, <3>2 DEF Entries
    <2>2. ASSUME NEW i \in 1..m, x = q[i], x # q[1] PROVE x \in Entries(Tail(q))
      <3>1. i - 1 \in 1..(m - 1) /\ (i - 1) + 1 = i
        BY <1>1, <2>2
      <3>2. Tail(q)[i - 1] = q[i]
        BY <1>1, <3>1
      <3>3. QED
        BY <1>1, <2>2, <3>1, <3>2 DEF Entries
    <2>3. QED
      BY <1>1, <2>1, <2>2 DEF Entries
  <1>5. Entries(Tail(q)) = Entries(q) \ {Head(q)}
    BY <1>4
  <1>6. Injective(Tail(q))
    BY <1>1, <1>3 DEF Injective
  <1>7. Head(q) \in Entries(q)
    BY <1>1 DEF Entries
  <1>8. QED
    BY <1>1, <1>5, <1>6, <1>7

-----------------------------------------------------------------------------
(* Contexts, and what the pool keeps of a sequence. *)

\* Types of what a sequence holds.
LEMMA PoolTypes ==
  ASSUME P!StoreInv
  PROVE  /\ block_table \in [Seqs -> Seq(Blocks)] /\ ctx \in [Seqs -> Contexts]
         /\ pend \in [Seqs -> Contexts] /\ written \in [Seqs -> BOOLEAN]
  BY SamePool DEF P!StoreInv, P!CountInv, P!Shape, P!TokenInv, P!Types, Contexts

\* A context is a sequence of tokens within the bound.
LEMMA ContextTypes ==
  ASSUME NEW c \in Contexts
  PROVE  c \in Seq(Tokens) /\ Len(c) \in Nat /\ Len(c) <= MaxLen
  <1>1. c \in Seq(Tokens) /\ Len(c) <= MaxLen
    BY SamePool, P!ContextIsBoundedSeq DEF Contexts
  <1>2. QED
    BY <1>1, LenProperties

\* A sequence of tokens within the bound is a context.
LEMMA ContextWithin ==
  ASSUME NEW c \in Seq(Tokens), Len(c) <= MaxLen
  PROVE  c \in Contexts
  BY SamePool, P!ContextIsBoundedSeq DEF Contexts

\* So is the empty one.
LEMMA EmptyInContexts == <<>> \in Contexts
  BY SamePool, P!EmptyContext DEF Contexts

\* The free blocks are finitely many, and NumFree is their number.
LEMMA FreeIsCounted ==
  ASSUME P!StoreInv
  PROVE  NumFree \in Nat /\ NumFree = P!Cardinality(P!Free)
  <1>1. P!Cardinality(P!Free) \in Nat
    BY SamePool, P!FreeAndEvictableAreFinite DEF P!StoreInv, P!CountInv
  <1>2. Pool!Free = P!Free
    BY SameHelpers
  <1>3. NumFree = P!Cardinality(P!Free)
    BY <1>2, SameCount DEF NumFree
  <1>4. QED
    BY <1>1, <1>3

\* A live request that is not finished has a context, and it may grow by a token.
LEMMA LiveContext ==
  ASSUME Shape, Lives, NEW id \in Seqs, id < next_id, status[id] # "Finished"
  PROVE  /\ request[id] \in RequestKinds /\ request[id].prompt \in Seq(Tokens)
         /\ request[id].prompt # <<>> /\ output[id] \in Seq(Tokens)
         /\ Context(id) \in Contexts /\ Context(id) # <<>>
         /\ Len(Context(id)) \in Nat \ {0}
  <1>1. request[id] \in RequestKinds /\ output[id] \in Seq(Tokens)
    BY DEF Lives, Life, Shape
  <1>2. PICK p, o, m : p = request[id].prompt /\ o = output[id] /\ m = request[id].max_tokens
    OBVIOUS
  <1>3. p \in Contexts /\ p # <<>> /\ m \in Int /\ Len(p) + m <= MaxLen
    BY <1>1, <1>2, RequestAssumption, SamePool DEF Contexts
  <1>4. p \in Seq(Tokens) /\ o \in Seq(Tokens) /\ Len(p) \in Nat \ {0} /\ Len(p) <= MaxLen
    BY <1>1, <1>2, <1>3, ContextTypes, EmptySeq
  <1>5. /\ p \o o \in Seq(Tokens) /\ Len(p \o o) = Len(p) + Len(o)
        /\ Len(o) \in Nat
    BY <1>4, ConcatProperties, LenProperties
  <1>6. Len(p \o o) <= MaxLen
    <2>1. CASE o = <<>>
      BY <1>4, <1>5, <2>1
    <2>2. CASE o # <<>>
      <3>1. Len(o) < m
        BY <1>2, <2>2 DEF Lives, Life
      <3>2. MaxLen \in Nat
        BY PoolAssumption
      <3>3. QED
        BY <1>3, <1>4, <1>5, <3>1, <3>2
    <2>3. QED
      BY <2>1, <2>2
  <1>7. p \o o \in Contexts
    BY <1>5, <1>6, ContextWithin
  <1>8. Len(p \o o) \in Nat \ {0} /\ p \o o # <<>>
    <2>1. Len(p \o o) \in Nat \ {0}
      BY <1>4, <1>5
    <2>2. QED
      BY <1>5, <2>1, EmptySeq
  <1>9. QED
    BY <1>1, <1>2, <1>3, <1>4, <1>7, <1>8 DEF Context

\* A running sequence is such a request.
LEMMA RunningContext ==
  ASSUME Shape, Lives, NEW id \in Seqs, status[id] = "Running"
  PROVE  /\ id < next_id
         /\ request[id] \in RequestKinds /\ request[id].prompt \in Seq(Tokens)
         /\ request[id].prompt # <<>> /\ output[id] \in Seq(Tokens)
         /\ Context(id) \in Contexts /\ Context(id) # <<>>
         /\ Len(Context(id)) \in Nat \ {0} /\ Context(id) \in Seq(Tokens)
  <1>1. id < next_id
    BY NumRequestsAssumption DEF Lives, Life, Shape, Seqs
  <1>2. QED
    BY <1>1, LiveContext, ContextTypes

-----------------------------------------------------------------------------
(* Sequences of tokens. *)

\* A sequence is what comes before its last element, and that element.
LEMMA FrontAndLast ==
  ASSUME NEW T, NEW c \in Seq(T), c # <<>>
  PROVE  /\ Len(c) \in Nat \ {0} /\ c[Len(c)] \in T
         /\ SubSeq(c, 1, Len(c) - 1) \o <<c[Len(c)]>> = c
  <1>1. Len(c) \in Nat \ {0} /\ Len(c) \in 1..Len(c) /\ 1 \in 1..Len(c)
    BY EmptySeq
  <1>2. c[Len(c)] \in T
    BY <1>1, ElementOfSeq
  <1>3. SubSeq(c, 1, Len(c)) = SubSeq(c, 1, Len(c) - 1) \o <<c[Len(c)]>>
    BY <1>1, SubSeqRecursiveSecond
  <1>4. QED
    BY <1>1, <1>2, <1>3, SubSeqFull

\* The same of a context, whose last token is the last of the output.
LEMMA LastOfConcat ==
  ASSUME NEW T, NEW p \in Seq(T), NEW o \in Seq(T), o # <<>>, NEW t, t = <<o[Len(o)]>>
  PROVE  SubSeq(p \o o, 1, Len(p \o o) - 1) \o t = p \o o /\ t \in Seq(T)
  <1> DEFINE c == p \o o
  <1>1. Len(p) \in Nat /\ Len(o) \in Nat \ {0} /\ o[Len(o)] \in T
    BY FrontAndLast, LenProperties
  <1>2. /\ c \in Seq(T) /\ Len(c) = Len(p) + Len(o)
        /\ c[Len(p) + Len(o)] = o[Len(o)]
    BY <1>1, ConcatProperties
  <1> HIDE DEF c
  <1>3. Len(c) \in Nat \ {0} /\ c # <<>>
    <2>1. Len(c) \in Nat \ {0}
      BY <1>1, <1>2
    <2>2. QED
      BY <2>1, EmptySeq
  <1>4. t = <<c[Len(c)]>>
    BY <1>2
  <1>5. SubSeq(c, 1, Len(c) - 1) \o t = c
    BY <1>2, <1>3, <1>4, FrontAndLast
  <1>6. t \in Seq(T)
    BY <1>1
  <1>7. QED
    BY <1>5, <1>6 DEF c

\* A sequence is its first n elements and the rest.
LEMMA SplitAt ==
  ASSUME NEW T, NEW c \in Seq(T), NEW n \in Nat
  PROVE  n < Len(c) =>
           /\ SubSeq(c, 1, n) \in Seq(T) /\ Len(SubSeq(c, 1, n)) = n
           /\ SubSeq(c, n + 1, Len(c)) \in Seq(T) /\ SubSeq(c, n + 1, Len(c)) # <<>>
           /\ SubSeq(c, 1, n) \o SubSeq(c, n + 1, Len(c)) = c
  <1> SUFFICES ASSUME NEW l, l = Len(c), n < l
               PROVE  /\ SubSeq(c, 1, n) \in Seq(T) /\ Len(SubSeq(c, 1, n)) = n
                      /\ SubSeq(c, n + 1, l) \in Seq(T) /\ SubSeq(c, n + 1, l) # <<>>
                      /\ SubSeq(c, 1, n) \o SubSeq(c, n + 1, l) = c
    OBVIOUS
  <1> DEFINE a == SubSeq(c, 1, n)
             b == SubSeq(c, n + 1, l)
  <1>0. l = Len(c) /\ l \in Nat
    OBVIOUS
  <1>1. l \in Nat /\ n < l /\ n + 1 \in Int /\ n + 1 \in 1..l
    BY <1>0
  <1>2. \A i \in 1..l : c[i] \in T
    BY <1>0
  <1>3. a \in Seq(T) /\ Len(a) = n /\ \A i \in 1..n : a[i] = c[i]
    BY <1>1, <1>2, SubSeqProperties
  <1>4. b \in Seq(T) /\ Len(b) = l - n /\ \A i \in 1..(l - n) : b[i] = c[n + i]
    <2>1. \A i \in (n + 1)..l : c[i] \in T
      BY <1>1, <1>2
    <2>2. PICK m : m = n + 1
      OBVIOUS
    <2>3. m \in Int /\ l \in Int /\ m <= l /\ b = SubSeq(c, m, l)
      BY <1>0, <1>1, <2>2
    <2>4. /\ SubSeq(c, m, l) \in Seq(T) /\ Len(SubSeq(c, m, l)) = l - m + 1
          /\ \A i \in 1..(l - m + 1) : SubSeq(c, m, l)[i] = c[m + i - 1]
      BY <2>1, <2>2, <2>3, SubSeqProperties
    <2>5. l - m + 1 = l - n /\ \A i \in Int : m + i - 1 = n + i
      BY <1>1, <2>2
    <2>6. \A i \in 1..(l - n) : m + i - 1 = n + i
      BY <2>5
    <2>7. QED
      BY <2>3, <2>4, <2>5, <2>6
  <1> HIDE DEF a, b
  <1>5. b # <<>>
    <2>1. Len(b) # 0
      BY <1>1, <1>4
    <2>2. QED
      BY <2>1
  <1>6. a \o b = c
    <2>1. /\ a \o b \in Seq(T) /\ Len(a \o b) = Len(a) + Len(b)
          /\ \A i \in 1..(Len(a) + Len(b)) :
               (a \o b)[i] = IF i <= Len(a) THEN a[i] ELSE b[i - Len(a)]
      BY <1>3, <1>4, ConcatProperties
    <2>2. Len(a) + Len(b) = l
      BY <1>1, <1>3, <1>4
    <2>3. ASSUME NEW i \in 1..l PROVE (a \o b)[i] = c[i]
      <3>1. CASE i <= n
        <4>1. i \in 1..n
          BY <1>1, <3>1
        <4>2. (a \o b)[i] = a[i]
          BY <1>3, <2>1, <2>2, <3>1
        <4>3. QED
          BY <1>3, <4>1, <4>2
      <3>2. CASE i > n
        <4>1. PICK j \in 1..(l - n) : j = i - n /\ n + j = i
          <5>1. i - n \in 1..(l - n) /\ n + (i - n) = i
            BY <1>1, <3>2
          <5>2. QED
            BY <5>1
        <4>2. ~ (i <= n) /\ i \in 1..(Len(a) + Len(b))
          BY <1>1, <2>2, <3>2
        <4>3. (a \o b)[i] = b[j]
          BY <1>3, <2>1, <4>1, <4>2
        <4>4. b[j] = c[i]
          BY <1>4, <4>1
        <4>5. QED
          BY <4>3, <4>4
      <3>3. i <= n \/ i > n
        BY <1>1
      <3>4. QED
        BY <3>1, <3>2, <3>3
    <2>4. QED
      BY <1>0, <2>1, <2>2, <2>3, SeqEqual
  <1>7. QED
    BY <1>3, <1>4, <1>5, <1>6 DEF a, b

\* A token more at the end of the output is a token more at the end of the context.
LEMMA ContextGrows ==
  ASSUME NEW T, NEW p \in Seq(T), NEW o \in Seq(T), NEW t \in T
  PROVE  /\ p \o Append(o, t) = Append(p \o o, t)
         /\ Len(p \o Append(o, t)) = Len(p \o o) + 1
         /\ SubSeq(p \o Append(o, t), 1, Len(p \o o)) = p \o o
  <1>1. p \o o \in Seq(T) /\ <<t>> \in Seq(T) /\ Append(o, t) \in Seq(T)
    OBVIOUS
  <1>2. Append(o, t) = o \o <<t>> /\ Append(p \o o, t) = (p \o o) \o <<t>>
    BY <1>1, AppendIsConcat
  <1>3. (p \o o) \o <<t>> = p \o (o \o <<t>>)
    BY <1>1, ConcatAssociative
  <1>4. p \o Append(o, t) = Append(p \o o, t)
    BY <1>2, <1>3
  <1>5. ASSUME NEW c \in Seq(T) PROVE Len(Append(c, t)) = Len(c) + 1 /\ SubSeq(Append(c, t), 1, Len(c)) = c
    <2>1. PICK d, m : d = Append(c, t) /\ m = Len(c)
      OBVIOUS
    <2>2. d \in Seq(T) /\ Len(d) = m + 1 /\ m \in Nat /\ \A i \in 1..m : d[i] = c[i]
      BY <2>1, AppendProperties
    <2>3. \A i \in 1..m : d[i] \in T
      BY <2>2
    <2>4. /\ SubSeq(d, 1, m) \in Seq(T) /\ Len(SubSeq(d, 1, m)) = m
          /\ \A i \in 1..m : SubSeq(d, 1, m)[i] = d[i]
      BY <2>2, <2>3, SubSeqProperties
    <2>5. SubSeq(d, 1, m) = c
      BY <2>1, <2>2, <2>4, SeqEqual
    <2>6. QED
      BY <2>1, <2>2, <2>5
  <1>6. QED
    BY <1>1, <1>4, <1>5

\* More rows need no fewer blocks.
LEMMA BlocksMonotone ==
  ASSUME NEW m \in Nat, NEW n \in Nat, m <= n
  PROVE  P!BlocksFor(m) \in Nat /\ P!BlocksFor(n) \in Nat /\ P!BlocksFor(m) <= P!BlocksFor(n)
  <1>1. P!BlocksFor(m) \in Nat /\ P!BlocksFor(n) \in Nat
    BY SamePool, P!Covers
  <1>2. PICK k \in Nat : k = P!BlocksFor(n)
    BY <1>1
  <1>3. n <= k * BlockSize
    BY <1>2, SamePool, P!Covers
  <1>4. k * BlockSize \in Int
    BY <1>2, PoolAssumption
  <1>5. m <= k * BlockSize
    BY <1>3, <1>4
  <1>6. P!BlocksFor(m) <= k
    BY <1>5, SamePool, P!Covers
  <1>7. QED
    BY <1>1, <1>2, <1>6

\* A sequence of whole blocks needs no more of them than a longer one.
LEMMA WholeBlocks ==
  ASSUME NEW m \in Nat, NEW n \in Nat, m * BlockSize <= n
  PROVE  m <= P!BlocksFor(n)
  <1>1. PICK k \in Nat : k = P!BlocksFor(n)
    BY SamePool, P!Covers
  <1>2. n <= k * BlockSize
    BY <1>1, SamePool, P!Covers
  <1>3. k * BlockSize \in Int /\ m * BlockSize \in Int
    BY PoolAssumption
  <1>4. m * BlockSize <= k * BlockSize
    BY <1>2, <1>3
  <1>5. m <= k
    <2>1. m \in Int /\ k \in Int
      OBVIOUS
    <2>2. QED
      BY <1>4, <2>1, SamePool, P!Scale
  <1>6. QED
    BY <1>1, <1>5

-----------------------------------------------------------------------------
(* Steps that leave the pool alone. *)

\* Without an operation on it the pool keeps its invariants.
LEMMA PoolKept ==
  ASSUME P!StoreInv, UNCHANGED poolVars
  PROVE  P!StoreInv' /\ (P!RowInv => P!RowInv')
  <1>1. UNCHANGED <<ref_count, block_table, ctx, written, kv, prefix, older>> /\ pend' = pend
    BY DEF poolVars
  <1>2. pend' \in [Seqs -> P!Contexts] /\ \A t \in Seqs : pend'[t] = pend[t]
    BY <1>1, PoolTypes DEF Contexts
  <1>3. QED
    BY <1>1, <1>2, SamePool, P!DropInv

\* What a sequence holds stays right while neither it nor its context changes, and
\* its item stays on the same side of the forward.
LEMMA HoldingKept ==
  ASSUME NEW id, Rows(id), Pending(id),
         Context(id)' = Context(id), prefilled'[id] = prefilled[id],
         block_table'[id] = block_table[id], ctx'[id] = ctx[id], pend'[id] = pend[id],
         written'[id] = written[id],
         Committed(id)' <=> Committed(id), Reserved(id)' <=> Reserved(id),
         Written(id)' <=> Written(id), pc = "abort" => pc' = "abort"
  PROVE  Rows(id)' /\ Pending(id)'
  <1>1. Rows(id)'
    BY DEF Rows
  <1>2. Pending(id)'
    <2>1. written'[id] <=> Written(id)'
      BY DEF Pending
    <2>2. ASSUME pc' # "abort"
          PROVE  IF Reserved(id)' THEN pend'[id] # <<>> /\ ctx'[id] \o pend'[id] = Context(id)'
                 ELSE pend'[id] = <<>>
      BY <2>2 DEF Pending
    <2>3. Len(block_table'[id]) <= P!BlocksFor(Len(Context(id)'))
      BY DEF Pending
    <2>4. (P!BlocksFor(Len(Context(id))))' = P!BlocksFor(Len(Context(id)'))
      BY DEF P!BlocksFor
    <2>5. QED
      BY <2>1, <2>2, <2>3, <2>4 DEF Pending
  <1>3. QED
    BY <1>1, <1>2

\* The step goes from one phase to another.
LEMMA PhaseInv ==
  ASSUME EInv, UNCHANGED <<poolVars, seqVars, waiting, running, next_id>>, Shape', Batch', Fit',
         pc # "sample",
         \A id \in Seqs : status[id] = "Finished" => ~ (pc' = "sample" /\ id \in Batched'),
         \A id \in Seqs : status[id] = "Running" =>
            /\ Committed(id)' <=> Committed(id)
            /\ Written(id)' <=> Written(id)
            /\ pc' # "abort" => pc # "abort" /\ (Reserved(id)' <=> Reserved(id))
  PROVE  EInv'
  <1>1. P!StoreInv'
    BY PoolKept DEF EInv
  <1>2. /\ block_table' = block_table /\ ctx' = ctx /\ pend' = pend /\ written' = written
        /\ request' = request /\ output' = output /\ status' = status /\ prefilled' = prefilled
        /\ waiting' = waiting /\ running' = running /\ next_id' = next_id
    BY DEF poolVars, seqVars
  <1>3. Lives'
    BY <1>2 DEF EInv, Lives, Life
  <1>4. Queues'
    BY <1>2 DEF EInv, Queues
  <1>5. ASSUME NEW id \in Seqs, status[id] = "Running" PROVE Rows(id)' /\ Pending(id)'
    <2>1. Rows(id) /\ Pending(id) /\ Context(id)' = Context(id)
      BY <1>2, <1>5 DEF EInv, Holdings, Context
    <2>2. Rows(id)'
      BY <1>2, <1>5, <2>1 DEF Rows
    <2>3. Pending(id)'
      <3>1. (P!BlocksFor(Len(Context(id))))' = P!BlocksFor(Len(Context(id)))
        BY <2>1 DEF P!BlocksFor
      <3>2. QED
        BY <1>2, <1>5, <2>1, <3>1 DEF Pending
    <2>4. QED
      BY <2>2, <2>3
  <1>6. Holdings'
    BY <1>2, <1>5 DEF Holdings
  <1>7. QED
    BY <1>1, <1>3, <1>4, <1>6 DEF EInv

\* The initial states satisfy the invariant.
LEMMA InitInv == Init => EInv /\ Right
  <1> SUFFICES ASSUME Init PROVE EInv /\ Right
    OBVIOUS
  <1>1. P!StoreInv /\ P!RowInv
    BY SameInit, SamePool, P!InitInv DEF Init
  <1>2. Shape
    BY NumRequestsAssumption DEF Init, Shape
  <1>3. block_table = [id \in Seqs |-> <<>>] /\ ctx = [id \in Seqs |-> <<>>] /\ pend = [id \in Seqs |-> <<>>]
    BY DEF Init, Pool!Init
  <1>4. Lives
    BY <1>3, NumRequestsAssumption DEF Init, Lives, Life, Seqs
  <1>5. Queues
    BY NumRequestsAssumption DEF Init, Queues, Injective, Entries, Seqs
  <1>6. Batch /\ Holdings /\ Fit /\ Seen
    BY DEF Init, Batch, Holdings, Fit, Seen
  <1>7. QED
    BY <1>1, <1>2, <1>4, <1>5, <1>6 DEF EInv, Right

\* A step begins.
LEMMA BeginStepInv ==
  ASSUME EInv, BeginStep
  PROVE  EInv' /\ (Right => Right')
  <1>1. /\ pc = "idle" /\ pc' = "admit" /\ items' = items /\ scan' = scan /\ budget' = budget
        /\ UNCHANGED <<poolVars, seqVars, waiting, running, next_id>> /\ items = <<>>
    BY DEF BeginStep, stepVars, EInv, Batch
  <1>2. Shape' /\ Batch' /\ Fit' /\ Seen'
    BY <1>1 DEF EInv, Shape, Batch, Fit, Seen, seqVars
  <1>3. \A id : ~ Committed(id)' /\ ~ Committed(id) /\ ~ Written(id)' /\ ~ Written(id)
                /\ ~ Reserved(id)' /\ ~ Reserved(id)
    BY <1>1 DEF Committed, Written, Reserved
  <1>4. EInv'
    BY <1>1, <1>2, <1>3, PhaseInv
  <1>5. QED
    BY <1>1, <1>2, <1>4, PoolKept DEF Right, EInv, P!NoCollision

\* GiveUp, and the other ways to the end of a step without a batch.
LEMMA GiveUpInv ==
  ASSUME EInv, GiveUp
  PROVE  EInv' /\ (Right => Right')
  <1>1. /\ pc = "assemble" /\ pc' = "idle" /\ items' = items /\ scan' = 1 /\ budget' = 0
        /\ UNCHANGED <<poolVars, seqVars, waiting, running, next_id>> /\ items = <<>>
    BY DEF GiveUp
  <1>2. Shape' /\ Batch' /\ Fit' /\ Seen'
    BY <1>1 DEF EInv, Shape, Batch, Fit, Seen, seqVars
  <1>3. \A id : ~ Committed(id)' /\ ~ Committed(id) /\ ~ Written(id)' /\ ~ Written(id)
                /\ ~ Reserved(id)' /\ ~ Reserved(id)
    BY <1>1 DEF Committed, Written, Reserved
  <1>4. EInv'
    BY <1>1, <1>2, <1>3, PhaseInv
  <1>5. QED
    BY <1>1, <1>2, <1>4, PoolKept DEF Right, EInv, P!NoCollision

\* Admission ends: nothing is in the batch, and every free block in its budget.
LEMMA BeginAssemblyInv ==
  ASSUME EInv, BeginAssembly
  PROVE  EInv' /\ (Right => Right')
  <1>1. /\ pc = "admit" /\ pc' = "assemble" /\ items' = <<>> /\ scan' = 1 /\ budget' = NumFree
        /\ UNCHANGED <<poolVars, seqVars, waiting, running, next_id>> /\ items = <<>>
    BY DEF BeginAssembly, EInv, Batch
  <1>2. NumFree \in Nat /\ NumFree' = NumFree
    <2>1. NumFree \in Nat
      BY FreeIsCounted DEF EInv
    <2>2. ref_count' = ref_count
      BY <1>1 DEF poolVars
    <2>3. QED
      BY <2>1, <2>2 DEF NumFree, Pool!Free
  <1>3. Shape' /\ Batch' /\ Seen'
    BY <1>1, <1>2 DEF EInv, Shape, Batch, Seen, seqVars
  <1>4. Fit'
    <2> DEFINE f == [k \in 0..0 |-> 0]
    <2>1. Len(items') = 0 /\ DOMAIN items' = {}
      BY <1>1
    <2>2. Sums(f)'
      BY <2>1 DEF Sums
    <2>3. budget' >= 0 /\ f[Len(items')] - f[0] + budget' = NumFree'
      BY <1>1, <1>2, <2>1
    <2> HIDE DEF f
    <2>4. QED
      BY <1>1, <2>2, <2>3 DEF Fit
  <1>5. \A id : ~ Committed(id)' /\ ~ Committed(id) /\ ~ Written(id)' /\ ~ Written(id)
                /\ ~ Reserved(id)' /\ ~ Reserved(id)
    BY <1>1 DEF Committed, Written, Reserved
  <1>6. EInv'
    BY <1>1, <1>3, <1>4, <1>5, PhaseInv
  <1>7. QED
    BY <1>1, <1>3, <1>6, PoolKept DEF Right, EInv, P!NoCollision

\* The places of the batch, and the running sequences they name.
LEMMA ItemTypes ==
  ASSUME Shape, NEW k \in DOMAIN items
  PROVE  /\ Len(items) \in Nat /\ DOMAIN items = 1..Len(items) /\ k \in 1..Len(items)
         /\ items[k] \in Item /\ items[k].id \in Seqs /\ items[k].tokens \in Contexts
         /\ items[k].register \in Contexts
         /\ items[k].seen \in (Contexts \ {<<>>}) \cup {Junk}
  <1>1. items \in Seq(Item)
    BY DEF Shape
  <1>2. Len(items) \in Nat /\ DOMAIN items = 1..Len(items) /\ k \in 1..Len(items)
    BY <1>1, LenProperties
  <1>3. items[k] \in Item
    BY <1>1, <1>2, ElementOfSeq
  <1>4. /\ items[k].id \in Seqs /\ items[k].tokens \in Contexts /\ items[k].register \in Contexts
        /\ items[k].seen \in (Contexts \ {<<>>}) \cup {Junk}
    BY <1>3 DEF Item
  <1>5. QED
    BY <1>2, <1>3, <1>4

\* The batch goes to the forward, which may still reserve what the budget counted.
LEMMA BeginForwardInv ==
  ASSUME EInv, BeginForward
  PROVE  EInv' /\ (Right => Right')
  <1>1. /\ pc = "assemble" /\ pc' = "reserve" /\ items' = items /\ scan' = 1 /\ budget' = budget
        /\ UNCHANGED <<poolVars, seqVars, waiting, running, next_id>>
        /\ ctx' = ctx /\ block_table' = block_table /\ status' = status
        /\ request' = request /\ output' = output
    BY DEF BeginForward, poolVars, seqVars
  <1>2. /\ \A k \in DOMAIN items : k \in Nat \ {0} /\ ~ (k < 1)
        /\ Len(items) \in Nat /\ DOMAIN items = 1..Len(items)
    BY DEF EInv, Shape
  <1>3. NumFree' = NumFree /\ NumFree \in Nat
    BY <1>1, FreeIsCounted DEF EInv, NumFree, Pool!Free, poolVars
  <1>4. Shape' /\ Seen'
    BY <1>1, <1>2 DEF EInv, Shape, Seen, Past, Ahead, seqVars
  <1>5. Batch'
    <2>1. ASSUME NEW k \in DOMAIN items PROVE ItemOk(k)'
      <3>1. ItemOk(k) /\ ~ Past("sample", k)
        BY <1>1 DEF EInv, Batch, Past
      <3>2. QED
        BY <1>1, <3>1 DEF ItemOk, Context
    <2>2. QED
      BY <1>1, <2>1 DEF EInv, Batch
  <1>6. Fit'
    <2>1. PICK f : Sums(f) /\ budget >= 0 /\ f[Len(items)] - f[0] + budget = NumFree
      BY <1>1 DEF EInv, Fit
    <2>2. Sums(f)'
      <3>1. ASSUME NEW k \in DOMAIN items PROVE f[k] = f[k - 1] + Need(items[k].id)
        BY <1>1, <2>1 DEF Sums, Past
      <3>2. ASSUME NEW id PROVE Need(id)' = Need(id)
        BY <1>1 DEF Need, Context, P!BlocksFor
      <3>3. QED
        BY <1>1, <2>1, <3>1, <3>2 DEF Sums
    <2>3. f[Len(items)] - f[0] <= NumFree
      <3>1. f[Len(items)] \in Int /\ f[0] \in Int /\ budget \in Int
        <4>1. 0 \in 0..Len(items) /\ Len(items) \in 0..Len(items)
          BY <1>2
        <4>2. QED
          BY <2>1, <4>1 DEF Sums, EInv, Shape
      <3>2. PICK a, b, n : a = f[Len(items)] /\ b = f[0] /\ n = NumFree
        OBVIOUS
      <3>3. a \in Int /\ b \in Int /\ n \in Nat /\ a - b + budget = n /\ budget >= 0 /\ budget \in Int
        BY <1>3, <2>1, <3>1, <3>2
      <3>4. a - b <= n
        BY <3>3
      <3>5. QED
        BY <3>2, <3>4
    <2>4. 1 - 1 = 0
      OBVIOUS
    <2>5. f[Len(items)] - f[1 - 1] <= NumFree
      BY <2>3, <2>4
    <2>6. QED
      BY <1>1, <1>3, <2>2, <2>5 DEF Fit
  <1>7. \A id : ~ Committed(id)' /\ ~ Committed(id) /\ ~ Written(id)' /\ ~ Written(id)
                /\ ~ Reserved(id)' /\ ~ Reserved(id)
    BY <1>1, <1>2 DEF Committed, Written, Reserved, Past, Ahead
  <1>8. EInv'
    BY <1>1, <1>4, <1>5, <1>6, <1>7, PhaseInv
  <1>9. QED
    BY <1>1, <1>4, <1>8, PoolKept DEF Right, EInv, P!NoCollision

\* Every item has its blocks; the embedding may still throw.
LEMMA EmbedInv ==
  ASSUME EInv, Embed
  PROVE  EInv' /\ (Right => Right')
  <1>1. /\ pc = "reserve" /\ pc' \in {"write", "abort"} /\ items' = items /\ scan' = 1
        /\ budget' = budget /\ scan > Len(items)
        /\ UNCHANGED <<poolVars, seqVars, waiting, running, next_id>>
        /\ ctx' = ctx /\ block_table' = block_table /\ status' = status
        /\ request' = request /\ output' = output
    BY DEF Embed, poolVars, seqVars
  <1>2. \A k \in DOMAIN items : k \in Nat \ {0} /\ ~ (k < 1) /\ k < scan
    <2>1. DOMAIN items = 1..Len(items) /\ Len(items) \in Nat /\ scan \in Nat
      BY DEF EInv, Shape
    <2>2. PICK l : l = Len(items)
      OBVIOUS
    <2>3. l \in Nat /\ scan > l /\ DOMAIN items = 1..l
      BY <1>1, <2>1, <2>2
    <2>4. QED
      BY <2>1, <2>3
  <1>3. Shape' /\ Seen' /\ Fit'
    BY <1>1, <1>2 DEF EInv, Shape, Seen, Fit, Past, Ahead, seqVars
  <1>4. Batch'
    <2>1. ASSUME NEW k \in DOMAIN items PROVE ItemOk(k)'
      <3>1. ItemOk(k) /\ ~ Past("sample", k)
        BY <1>1 DEF EInv, Batch, Past
      <3>2. QED
        BY <1>1, <3>1 DEF ItemOk, Context
    <2>2. QED
      BY <1>1, <2>1 DEF EInv, Batch
  <1>5. \A id : ~ Committed(id)' /\ ~ Committed(id) /\ ~ Written(id)' /\ ~ Written(id)
    BY <1>1, <1>2 DEF Committed, Written, Past, Ahead
  <1>6. \A id : pc' # "abort" => (Reserved(id)' <=> Reserved(id))
    BY <1>1, <1>2 DEF Reserved, Past, Ahead
  <1>7. EInv'
    BY <1>1, <1>3, <1>4, <1>5, <1>6, PhaseInv
  <1>8. QED
    BY <1>1, <1>3, <1>7, PoolKept DEF Right, EInv, P!NoCollision

\* Every item has its rows.
LEMMA BeginCommitInv ==
  ASSUME EInv, BeginCommit
  PROVE  EInv' /\ (Right => Right')
  <1>1. /\ pc = "write" /\ pc' = "commit" /\ items' = items /\ scan' = 1
        /\ budget' = budget /\ scan > Len(items)
        /\ UNCHANGED <<poolVars, seqVars, waiting, running, next_id>>
        /\ ctx' = ctx /\ block_table' = block_table /\ status' = status
        /\ request' = request /\ output' = output
    BY DEF BeginCommit, poolVars, seqVars
  <1>2. \A k \in DOMAIN items : k \in Nat \ {0} /\ ~ (k < 1) /\ k < scan /\ k >= 1
    <2>1. DOMAIN items = 1..Len(items) /\ Len(items) \in Nat /\ scan \in Nat
      BY DEF EInv, Shape
    <2>2. PICK l : l = Len(items)
      OBVIOUS
    <2>3. l \in Nat /\ scan > l /\ DOMAIN items = 1..l
      BY <1>1, <2>1, <2>2
    <2>4. QED
      BY <2>1, <2>3
  <1>3. Shape' /\ Fit' /\ (Seen => Seen')
    <2>1. Shape' /\ Fit'
      BY <1>1 DEF EInv, Shape, Fit, seqVars
    <2>2. ASSUME Seen, NEW k \in DOMAIN items PROVE items[k].seen = Context(items[k].id)
      BY <1>1, <1>2, <2>2 DEF Seen, Past
    <2>3. Seen => Seen'
      BY <1>1, <2>2 DEF Seen, Context
    <2>4. QED
      BY <2>1, <2>3
  <1>4. Batch'
    <2>1. ASSUME NEW k \in DOMAIN items PROVE ItemOk(k)'
      <3>1. ItemOk(k) /\ ~ Past("sample", k)
        BY <1>1 DEF EInv, Batch, Past
      <3>2. QED
        BY <1>1, <3>1 DEF ItemOk, Context
    <2>2. QED
      BY <1>1, <2>1 DEF EInv, Batch
  <1>5. \A id : /\ ~ Committed(id)' /\ ~ Committed(id) /\ (Written(id)' <=> Written(id))
                /\ (Reserved(id)' <=> Reserved(id))
    BY <1>1, <1>2 DEF Committed, Written, Reserved, Past, Ahead
  <1>6. EInv'
    BY <1>1, <1>3, <1>4, <1>5, PhaseInv
  <1>7. QED
    BY <1>1, <1>3, <1>6, PoolKept DEF Right, EInv, P!NoCollision

\* Every item is committed.
LEMMA BeginSamplingInv ==
  ASSUME EInv, BeginSampling
  PROVE  EInv' /\ (Right => Right')
  <1>1. /\ pc = "commit" /\ pc' = "sample" /\ items' = items /\ scan' = 1
        /\ budget' = budget /\ scan > Len(items)
        /\ UNCHANGED <<poolVars, seqVars, waiting, running, next_id>>
        /\ ctx' = ctx /\ block_table' = block_table /\ status' = status
        /\ request' = request /\ output' = output
    BY DEF BeginSampling, poolVars, seqVars
  <1>2. \A k \in DOMAIN items : k \in Nat \ {0} /\ ~ (k < 1) /\ k < scan /\ k >= 1 /\ ~ (k >= scan)
    <2>1. DOMAIN items = 1..Len(items) /\ Len(items) \in Nat /\ scan \in Nat
      BY DEF EInv, Shape
    <2>2. PICK l : l = Len(items)
      OBVIOUS
    <2>3. l \in Nat /\ scan > l /\ DOMAIN items = 1..l
      BY <1>1, <2>1, <2>2
    <2>4. QED
      BY <2>1, <2>3
  <1>3. Shape' /\ Fit' /\ (Seen => Seen')
    <2>1. Shape' /\ Fit'
      BY <1>1 DEF EInv, Shape, Fit, seqVars
    <2>2. ASSUME Seen, NEW k \in DOMAIN items PROVE items[k].seen = Context(items[k].id)
      BY <1>1, <1>2, <2>2 DEF Seen, Past
    <2>3. Seen => Seen'
      BY <1>1, <2>2 DEF Seen, Context
    <2>4. QED
      BY <2>1, <2>3
  <1>4. \A k \in DOMAIN items : ItemOk(k) /\ ~ Past("sample", k) /\ status[items[k].id] = "Running"
    BY <1>1 DEF EInv, Batch, Past, ItemOk
  <1>5. Batch'
    <2>1. ASSUME NEW k \in DOMAIN items PROVE ItemOk(k)'
      <3>1. ItemOk(k) /\ ~ Past("sample", k)
        BY <1>4
      <3>2. QED
        BY <1>1, <3>1 DEF ItemOk, Context
    <2>2. QED
      BY <1>1, <2>1 DEF EInv, Batch
  <1>6. \A id : /\ (Committed(id)' <=> Committed(id)) /\ ~ Written(id)' /\ ~ Written(id)
                /\ ~ Reserved(id)' /\ ~ Reserved(id)
    BY <1>1, <1>2 DEF Committed, Written, Reserved, Past, Ahead
  <1>7. \A id \in Seqs : status[id] = "Finished" => ~ (id \in Batched')
    BY <1>1, <1>4 DEF Batched
  <1>8. EInv'
    BY <1>1, <1>3, <1>5, <1>6, <1>7, PhaseInv
  <1>9. QED
    BY <1>1, <1>3, <1>8, PoolKept DEF Right, EInv, P!NoCollision

\* Finished sequences leave the running set.
LEMMA RetireInv ==
  ASSUME EInv, Retire
  PROVE  EInv' /\ (Right => Right')
  <1> DEFINE gone == {id \in Seqs : status[id] = "Finished"}
  <1>1. /\ pc = "sample" /\ scan > Len(items) /\ running' = Without(running, gone)
        /\ pc' = "idle" /\ scan' = 1 /\ items' = <<>> /\ budget' = 0
        /\ UNCHANGED <<poolVars, seqVars, waiting, next_id>>
        /\ ctx' = ctx /\ block_table' = block_table /\ pend' = pend /\ written' = written
        /\ status' = status /\ request' = request /\ output' = output /\ prefilled' = prefilled
    BY DEF Retire, poolVars, seqVars
  <1>2. /\ running' \in Seq(Seqs) /\ Injective(running')
        /\ Entries(running') = Entries(running) \ gone
    <2>1. running \in Seq(Seqs) /\ Injective(running)
      BY DEF EInv, Shape, Queues
    <2>2. /\ Without(running, gone) \in Seq(Seqs)
          /\ Entries(Without(running, gone)) = Entries(running) \ gone
          /\ Injective(Without(running, gone))
      BY <2>1, WithoutProperties
    <2>3. QED
      BY <1>1, <2>2
  <1>3. Shape' /\ Batch' /\ Fit' /\ Seen'
    BY <1>1, <1>2 DEF EInv, Shape, Batch, Fit, Seen, seqVars
  <1>4. Lives'
    BY <1>1 DEF EInv, Lives, Life
  <1>5. Queues'
    <2>1. ASSUME NEW id \in Seqs
          PROVE  /\ id \in Entries(waiting) <=> id < next_id /\ status[id] = "Waiting"
                 /\ id \in Entries(running') <=> status[id] = "Running"
      BY <1>2 DEF EInv, Queues, gone
    <2>2. Injective(waiting)
      BY DEF EInv, Queues
    <2>3. waiting' = waiting /\ next_id' = next_id
      BY <1>1
    <2>4. QED
      BY <1>1, <1>2, <2>1, <2>2, <2>3 DEF Queues
  <1>6. Holdings'
    <2>1. \A k \in DOMAIN items : ~ (k >= scan)
      <3>1. DOMAIN items = 1..Len(items) /\ Len(items) \in Nat /\ scan \in Nat
        BY DEF EInv, Shape
      <3>2. PICK l : l = Len(items)
        OBVIOUS
      <3>3. l \in Nat /\ scan > l /\ DOMAIN items = 1..l
        BY <1>1, <3>1, <3>2
      <3>4. QED
        BY <3>1, <3>3
    <2>2. \A id : /\ ~ Committed(id)' /\ ~ Committed(id) /\ ~ Written(id)' /\ ~ Written(id)
                  /\ ~ Reserved(id)' /\ ~ Reserved(id)
      BY <1>1, <2>1 DEF Committed, Written, Reserved, Past, Ahead
    <2>3. ASSUME NEW id \in Seqs, status'[id] = "Running" PROVE Rows(id)' /\ Pending(id)'
      <3>1. Rows(id) /\ Pending(id) /\ Context(id)' = Context(id)
        BY <1>1, <2>3 DEF EInv, Holdings, Context
      <3>2. QED
        BY <1>1, <2>2, <3>1, HoldingKept
    <2>4. QED
      BY <2>3 DEF Holdings
  <1>7. P!StoreInv' /\ (P!RowInv => P!RowInv')
    BY <1>1, PoolKept DEF EInv
  <1>8. QED
    BY <1>3, <1>4, <1>5, <1>6, <1>7 DEF EInv, Right, P!NoCollision

\* A new request holds nothing and waits.
LEMMA AddRequestInv ==
  ASSUME EInv, NEW r \in RequestKinds, AddRequest(r)
  PROVE  EInv' /\ (Right => Right')
  <1>1. /\ pc = "idle" /\ next_id \in Seqs /\ next_id + 1 \in 0..NumRequests
        /\ next_id \in Nat /\ Seqs \subseteq Nat
    BY NumRequestsAssumption DEF AddRequest, EInv, Shape, Seqs
  <1>2. /\ request' = [request EXCEPT ![next_id] = r] /\ waiting' = Append(waiting, next_id)
        /\ next_id' = next_id + 1 /\ pc' = pc /\ running' = running
        /\ UNCHANGED poolVars /\ items' = items /\ scan' = scan /\ budget' = budget
        /\ ctx' = ctx /\ block_table' = block_table /\ pend' = pend /\ written' = written
        /\ output' = output /\ status' = status /\ prefilled' = prefilled
    BY DEF AddRequest, poolVars, stepVars
  <1>3. status[next_id] = "Waiting" /\ output[next_id] = <<>> /\ items = <<>>
    BY <1>1 DEF EInv, Lives, Life, Batch
  <1>4. next_id \notin Entries(waiting) /\ next_id \notin Entries(running)
    BY <1>1, <1>3 DEF EInv, Queues
  <1>5. /\ Append(waiting, next_id) \in Seq(Seqs) /\ Injective(Append(waiting, next_id))
        /\ Entries(Append(waiting, next_id)) = Entries(waiting) \cup {next_id}
    BY <1>1, <1>4, AppendQueue DEF EInv, Shape, Queues
  <1>6. Shape'
    BY <1>1, <1>2, <1>5 DEF EInv, Shape
  <1>7. \A q \in Seqs : request'[q] = IF q = next_id THEN r ELSE request[q]
    BY <1>1, <1>2 DEF EInv, Shape
  <1>8. Lives'
    <2>1. ASSUME NEW id \in Seqs PROVE Life(id)'
      <3>1. Life(id)
        BY DEF EInv, Lives
      <3>2. CASE id = next_id
        <4>1. id < next_id' /\ request'[id] \in RequestKinds
          BY <1>1, <1>2, <1>7, <3>2
        <4>2. ~ (id >= next_id')
          BY <1>1, <1>2, <3>2
        <4>3. QED
          BY <1>2, <1>3, <3>1, <3>2, <4>1, <4>2 DEF Life
      <3>3. CASE id # next_id
        <4>1. (id < next_id' <=> id < next_id) /\ (id >= next_id' => id >= next_id)
          BY <1>1, <1>2, <3>3
        <4>2. request'[id] = request[id]
          BY <1>7, <3>3
        <4>3. QED
          BY <1>2, <3>1, <4>1, <4>2 DEF Life
      <3>4. QED
        BY <3>2, <3>3
    <2>2. QED
      BY <2>1 DEF Lives
  <1>9. Queues'
    <2>1. ASSUME NEW id \in Seqs, id # next_id PROVE id < next_id + 1 <=> id < next_id
      BY <1>1, <2>1
    <2>2. Injective(waiting)' /\ Injective(running)'
      BY <1>2, <1>5 DEF EInv, Queues
    <2>3. ASSUME NEW id \in Seqs
          PROVE  id \in Entries(waiting') <=> id < next_id + 1 /\ status[id] = "Waiting"
      BY <1>1, <1>2, <1>3, <1>5, <2>1 DEF EInv, Queues
    <2>4. QED
      BY <1>1, <1>2, <2>2, <2>3 DEF EInv, Queues
  <1>10. Batch' /\ Fit' /\ Seen'
    BY <1>1, <1>2, <1>3 DEF Batch, Fit, Seen
  <1>11. Holdings'
    <2>1. \A id : /\ ~ Committed(id)' /\ ~ Committed(id) /\ ~ Written(id)' /\ ~ Written(id)
                  /\ ~ Reserved(id)' /\ ~ Reserved(id)
      BY <1>2, <1>3 DEF Committed, Written, Reserved
    <2>2. ASSUME NEW id \in Seqs, status'[id] = "Running" PROVE Rows(id)' /\ Pending(id)'
      <3>1. Rows(id) /\ Pending(id) /\ id # next_id
        BY <1>2, <1>3, <2>2 DEF EInv, Holdings
      <3>2. Context(id)' = Context(id)
        BY <1>2, <1>7, <3>1 DEF Context
      <3>3. QED
        BY <1>1, <1>2, <2>1, <3>1, <3>2, HoldingKept
    <2>3. QED
      BY <2>2 DEF Holdings
  <1>12. P!StoreInv' /\ (P!RowInv => P!RowInv')
    BY <1>2, PoolKept DEF EInv
  <1>13. QED
    BY <1>6, <1>8, <1>9, <1>10, <1>11, <1>12 DEF EInv, Right, P!NoCollision

\* The head of the queue joins the running set.
LEMMA AdmitInv ==
  ASSUME EInv, Admit
  PROVE  EInv' /\ (Right => Right')
  <1>0. PICK id : id = Head(waiting)
    OBVIOUS
  <1>1. /\ pc = "admit" /\ waiting # <<>>
        /\ status' = [status EXCEPT ![id] = "Running"]
        /\ running' = Append(running, id) /\ waiting' = Tail(waiting)
        /\ UNCHANGED poolVars /\ pc' = pc /\ next_id' = next_id
        /\ items' = items /\ scan' = scan /\ budget' = budget
        /\ ctx' = ctx /\ block_table' = block_table /\ pend' = pend /\ written' = written
        /\ output' = output /\ request' = request /\ prefilled' = prefilled
    BY <1>0 DEF Admit, Admissible, poolVars, stepVars
  <1>2. /\ id \in Seqs /\ id \in Entries(waiting) /\ Tail(waiting) \in Seq(Seqs)
        /\ Injective(Tail(waiting)) /\ Entries(Tail(waiting)) = Entries(waiting) \ {id}
    BY <1>0, <1>1, TailQueue DEF EInv, Shape, Queues
  <1>3. status[id] = "Waiting" /\ id < next_id
    BY <1>2 DEF EInv, Queues
  <1>4. id \notin Entries(running)
    BY <1>2, <1>3 DEF EInv, Queues
  <1>5. /\ Append(running, id) \in Seq(Seqs) /\ Injective(Append(running, id))
        /\ Entries(Append(running, id)) = Entries(running) \cup {id}
    BY <1>2, <1>4, AppendQueue DEF EInv, Shape, Queues
  <1>6. \A q \in Seqs : status'[q] = IF q = id THEN "Running" ELSE status[q]
    BY <1>1, <1>2 DEF EInv, Shape
  <1>7. Shape'
    BY <1>1, <1>2, <1>5 DEF EInv, Shape
  <1>8. Life(id)
    BY <1>2 DEF EInv, Lives
  <1>9. id \in Nat /\ next_id \in Nat
    BY <1>2 DEF Seqs, EInv, Shape
  <1>10. Lives'
    <2>1. ASSUME NEW q \in Seqs PROVE Life(q)'
      <3>1. Life(q)
        BY DEF EInv, Lives
      <3>2. CASE q = id
        <4>1. ~ (id >= next_id)
          BY <1>3, <1>9
        <4>2. QED
          BY <1>1, <1>3, <1>6, <1>8, <3>2, <4>1 DEF Life
      <3>3. CASE q # id
        BY <1>1, <1>6, <3>1, <3>3 DEF Life
      <3>4. QED
        BY <3>2, <3>3
    <2>2. QED
      BY <2>1 DEF Lives
  <1>11. Queues'
    <2>1. ASSUME NEW q \in Seqs
          PROVE  /\ q \in Entries(waiting') <=> q < next_id /\ status'[q] = "Waiting"
                 /\ q \in Entries(running') <=> status'[q] = "Running"
      BY <1>1, <1>2, <1>3, <1>5, <1>6 DEF EInv, Queues
    <2>2. QED
      BY <1>1, <1>2, <1>5, <2>1 DEF Queues
  <1>12. items = <<>>
    BY <1>1 DEF EInv, Batch
  <1>13. Batch' /\ Fit' /\ Seen'
    BY <1>1, <1>12 DEF Batch, Fit, Seen
  <1>14. \A q : /\ ~ Committed(q)' /\ ~ Committed(q) /\ ~ Written(q)' /\ ~ Written(q)
                /\ ~ Reserved(q)' /\ ~ Reserved(q) /\ Context(q)' = Context(q)
    BY <1>1, <1>12 DEF Committed, Written, Reserved, Context
  <1>15. Holdings'
    <2>1. ASSUME NEW q \in Seqs, status'[q] = "Running", q # id PROVE Rows(q)' /\ Pending(q)'
      <3>1. Rows(q) /\ Pending(q)
        BY <1>6, <2>1 DEF EInv, Holdings
      <3>2. QED
        BY <1>1, <1>14, <3>1, HoldingKept
    <2>2. Rows(id)' /\ Pending(id)'
      <3>1. /\ block_table[id] = <<>> /\ ctx[id] = <<>> /\ pend[id] = <<>> /\ ~ prefilled[id]
        BY <1>3, <1>8 DEF Life
      <3>2. ~ written[id]
        BY <1>2, <3>1 DEF EInv, P!StoreInv, P!Covered
      <3>3. Context(id) \in Contexts /\ Len(Context(id)) \in Nat \ {0}
        BY <1>2, <1>3, LiveContext DEF EInv
      <3>4. Len(<<>>) = 0 /\ SubSeq(Context(id), 1, 0) = <<>>
        BY SubSeqEmpty
      <3>5. Rows(id)'
        BY <1>1, <1>14, <3>1, <3>3, <3>4 DEF Rows
      <3>6. Pending(id)'
        <4>1. PICK n \in Nat : n = Len(Context(id))
          BY <3>3
        <4>2. P!BlocksFor(n) \in Nat
          BY SamePool, P!Covers
        <4>3. Len(block_table'[id]) <= P!BlocksFor(n)
          BY <1>1, <3>1, <3>4, <4>2
        <4>4. (P!BlocksFor(Len(Context(id))))' = P!BlocksFor(n)
          BY <1>14, <4>1 DEF P!BlocksFor
        <4>5. QED
          BY <1>1, <1>14, <3>1, <3>2, <4>3, <4>4 DEF Pending
      <3>7. QED
        BY <3>5, <3>6
    <2>3. QED
      BY <2>1, <2>2 DEF Holdings
  <1>16. P!StoreInv' /\ (P!RowInv => P!RowInv')
    BY <1>1, PoolKept DEF EInv
  <1>17. QED
    BY <1>7, <1>10, <1>11, <1>13, <1>15, <1>16 DEF EInv, Right, P!NoCollision

\* Steps that change nothing.
LEMMA StutterInv ==
  ASSUME EInv, UNCHANGED vars
  PROVE  EInv' /\ (Right => Right')
  <1>1. /\ UNCHANGED poolVars /\ UNCHANGED seqVars /\ UNCHANGED stepVars
        /\ UNCHANGED <<waiting, running, next_id, pc>>
    BY DEF vars
  <1>2. /\ ctx' = ctx /\ block_table' = block_table /\ pend' = pend /\ written' = written
        /\ ref_count' = ref_count
        /\ output' = output /\ request' = request /\ prefilled' = prefilled /\ status' = status
        /\ scan' = scan /\ budget' = budget /\ items' = items
        /\ waiting' = waiting /\ running' = running /\ next_id' = next_id /\ pc' = pc
    BY <1>1 DEF poolVars, seqVars, stepVars
  <1>3. \A id : /\ (Committed(id)' <=> Committed(id)) /\ (Written(id)' <=> Written(id))
                /\ (Reserved(id)' <=> Reserved(id)) /\ Context(id)' = Context(id)
                /\ Need(id)' = Need(id)
    BY <1>2 DEF Committed, Written, Reserved, Past, Ahead, Context, Need, P!BlocksFor
  <1>4. Shape' /\ Lives' /\ Queues'
    BY <1>2 DEF EInv, Shape, Lives, Life, Queues, Batched
  <1>5. Batch' /\ (Seen => Seen')
    BY <1>2 DEF EInv, Batch, ItemOk, Context, Past, Seen, Ahead
  <1>6. Fit'
    BY <1>2, <1>3 DEF EInv, Fit, Sums, Past, NumFree, Pool!Free
  <1>7. Holdings'
    <2>1. ASSUME NEW id \in Seqs, status'[id] = "Running" PROVE Rows(id)' /\ Pending(id)'
      <3>1. Rows(id) /\ Pending(id)
        BY <1>2, <2>1 DEF EInv, Holdings
      <3>2. QED
        BY <1>2, <1>3, <3>1, HoldingKept
    <2>2. QED
      BY <2>1 DEF Holdings
  <1>8. P!StoreInv' /\ (P!RowInv => P!RowInv')
    BY <1>1, PoolKept DEF EInv
  <1>9. QED
    BY <1>4, <1>5, <1>6, <1>7, <1>8 DEF EInv, Right, P!NoCollision

-----------------------------------------------------------------------------
(* The forward. *)

\* The item the forward is at.
LEMMA CurrentItem ==
  ASSUME Shape, Batch, scan <= Len(items)
  PROVE  /\ scan \in DOMAIN items /\ items[scan].id \in Seqs /\ items[scan].tokens \in Contexts
         /\ ItemOk(scan)
         /\ \A k \in DOMAIN items : items[k].id = items[scan].id => k = scan
         /\ \A k \in DOMAIN items : k \in Nat \ {0}
         /\ scan \in Nat \ {0}
  <1>1. items \in Seq(Item) /\ scan \in Nat \ {0}
    BY DEF Shape
  <1>2. scan \in DOMAIN items /\ DOMAIN items = 1..Len(items)
    BY <1>1
  <1>3. QED
    BY <1>1, <1>2, ItemTypes DEF Batch

\* Of the batch only its place changes, or what one item saw.
LEMMA SameItems ==
  ASSUME Batch, DOMAIN items' = DOMAIN items, pc' = pc,
         pc \in {"reserve", "write", "commit"},
         running' = running, status' = status,
         \A q : Context(q)' = Context(q),
         \A k \in DOMAIN items : /\ items'[k].id = items[k].id /\ items'[k].tokens = items[k].tokens
                                 /\ items'[k].register = items[k].register,
         pc = "reserve" => ctx' = ctx
  PROVE  Batch'
  <1>1. ASSUME NEW k \in DOMAIN items PROVE ItemOk(k)'
    <2>1. ItemOk(k)
      BY DEF Batch
    <2>2. PICK q : q = items[k].id
      OBVIOUS
    <2>3. items'[k].id = q /\ Context(q)' = Context(q) /\ Context(items[k].id) = Context(q)
      BY <2>2
    <2>4. Context(items[k].id)' = Context(q)
      BY <2>3 DEF Context
    <2>5. ~ Past("sample", k) /\ pc \notin {"idle", "admit", "assemble"}
      BY DEF Past
    <2>6. status[q] = "Running" /\ items[k].register \in {<<>>, Context(q)}
      BY <2>1, <2>2, <2>5 DEF ItemOk
    <2>7. pc = "reserve" => items[k].tokens # <<>> /\ ctx[q] \o items[k].tokens = Context(q)
      BY <2>1, <2>2 DEF ItemOk
    <2>8. QED
      BY <2>3, <2>4, <2>5, <2>6, <2>7 DEF ItemOk
  <1>2. QED
    BY <1>1 DEF Batch

\* reserve() of the forward finds the blocks it needs: it neither throws nor evicts.
LEMMA ReserveFitsHere ==
  ASSUME EInv, pc = "reserve", scan <= Len(items)
  PROVE  /\ Need(items[scan].id) \in Nat /\ Need(items[scan].id) <= NumFree
         /\ P!Deficit(items[scan].id, Len(items[scan].tokens)) = Need(items[scan].id)
         /\ P!CanAppend(items[scan].id, Len(items[scan].tokens))
  <1>1. PICK id, toks : id = items[scan].id /\ toks = items[scan].tokens
    OBVIOUS
  <1>2. /\ scan \in DOMAIN items /\ id \in Seqs /\ toks \in Contexts /\ ItemOk(scan)
        /\ scan \in Nat \ {0}
    BY <1>1, CurrentItem DEF EInv
  <1>3. status[id] = "Running" /\ ctx[id] \o toks = Context(id)
    BY <1>1, <1>2 DEF ItemOk, Past
  <1>4. Rows(id) /\ Pending(id)
    BY <1>2, <1>3 DEF EInv, Holdings
  <1>5. /\ ctx[id] \in Seq(Tokens) /\ toks \in Seq(Tokens) /\ block_table[id] \in Seq(Blocks)
    <2>1. ctx[id] \in Contexts /\ block_table[id] \in Seq(Blocks)
      BY <1>2, PoolTypes DEF EInv
    <2>2. QED
      BY <1>2, <2>1, ContextTypes
  <1>6. Len(Context(id)) = Len(ctx[id]) + Len(toks)
    BY <1>3, <1>5, ConcatProperties
  <1>7. P!Deficit(id, Len(toks)) = Need(id)
    BY <1>6 DEF P!Deficit, Need
  <1>8. Need(id) \in Nat
    <2>1. PICK n, l : n = Len(Context(id)) /\ l = Len(block_table[id])
      OBVIOUS
    <2>2. n \in Nat
      BY <1>2, <1>3, <2>1, RunningContext DEF EInv
    <2>3. l \in Nat /\ P!BlocksFor(n) \in Nat /\ l <= P!BlocksFor(n)
      <3>1. P!BlocksFor(n) \in Nat
        BY <2>2, SamePool, P!Covers
      <3>2. QED
        BY <1>4, <1>5, <2>1, <3>1 DEF Pending
    <2>4. P!BlocksFor(n) - l \in Nat
      BY <2>3
    <2>5. QED
      BY <2>1, <2>4 DEF Need
  <1>9. Need(id) <= NumFree
    <2>1. PICK f : Sums(f) /\ f[Len(items)] - f[scan - 1] <= NumFree
      BY DEF EInv, Fit
    <2>2. f[scan] = f[scan - 1] + Need(id)
      BY <1>1, <1>2, <2>1 DEF Sums, Past
    <2>3. PICK l : l = Len(items)
      OBVIOUS
    <2>4. l \in Nat /\ scan <= l
      BY <2>3 DEF EInv, Shape
    <2>5. scan \in 0..l /\ scan - 1 \in 0..l /\ l \in 0..l
      BY <1>2, <2>4
    <2>6. f \in [0..l -> Int] /\ f[scan] <= f[l]
      BY <2>1, <2>3, <2>4, <2>5 DEF Sums
    <2>7. PICK a, b, c, n, m : a = f[scan] /\ b = f[scan - 1] /\ c = f[l] /\ n = Need(id) /\ m = NumFree
      OBVIOUS
    <2>8. a \in Int /\ b \in Int /\ c \in Int /\ n \in Nat /\ m \in Nat
      BY <1>8, <2>5, <2>6, <2>7, FreeIsCounted DEF EInv
    <2>9. a = b + n /\ a <= c /\ c - b <= m
      BY <2>1, <2>2, <2>3, <2>6, <2>7, Zenon
    <2>10. n <= m
      BY <2>8, <2>9
    <2>11. QED
      BY <2>7, <2>10
  <1>10. P!CanAppend(id, Len(toks))
    BY <1>7, <1>9, FreeIsCounted DEF P!CanAppend, EInv
  <1>11. QED
    BY <1>1, <1>7, <1>8, <1>9, <1>10

\* One reserve: the rows of an item get their blocks.
LEMMA ForwardReserveInv ==
  ASSUME EInv, ForwardReserve
  PROVE  EInv' /\ (Right => Right')
  <1>1. PICK id, toks : id = items[scan].id /\ toks = items[scan].tokens
    OBVIOUS
  <1>2. /\ pc = "reserve" /\ scan <= Len(items) /\ Pool!Reserve(id, toks)
        /\ pc' = (IF pend'[id] = <<>> THEN "abort" ELSE pc) /\ scan' = scan + 1
        /\ items' = items /\ budget' = budget /\ waiting' = waiting /\ running' = running
        /\ next_id' = next_id /\ status' = status /\ request' = request /\ output' = output
        /\ prefilled' = prefilled
    BY <1>1 DEF ForwardReserve, seqVars
  <1>3. /\ scan \in DOMAIN items /\ id \in Seqs /\ toks \in Contexts /\ ItemOk(scan)
        /\ scan \in Nat \ {0} /\ \A k \in DOMAIN items : k \in Nat \ {0}
        /\ \A k \in DOMAIN items : items[k].id = id => k = scan
    BY <1>1, <1>2, CurrentItem DEF EInv
  <1>4. status[id] = "Running" /\ toks # <<>> /\ ctx[id] \o toks = Context(id)
    BY <1>1, <1>2, <1>3 DEF ItemOk, Past
  <1>5. Rows(id) /\ Pending(id)
    BY <1>3, <1>4 DEF EInv, Holdings
  <1>6. pend[id] = <<>>
    <2>1. ~ Reserved(id)
      BY <1>2, <1>3 DEF Reserved, Past, Ahead
    <2>2. QED
      BY <1>2, <1>5, <2>1 DEF Pending
  <1>7. ctx[id] \o toks \in Contexts
    BY <1>3, <1>4, RunningContext DEF EInv
  <1>8. P!Reserve(id, toks)
    BY <1>2, SameReserve
  <1>9. PICK need : need = Need(id) /\ need \in Nat /\ need <= NumFree
                    /\ P!Deficit(id, Len(toks)) = need /\ P!CanAppend(id, Len(toks))
    BY <1>1, <1>2, ReserveFitsHere
  <1>10. P!StoreInv' /\ (P!RowInv => P!RowInv')
    BY <1>3, <1>4, <1>6, <1>7, <1>8, SamePool, P!ReserveInv DEF EInv, Contexts
  <1>11. /\ pend' = [pend EXCEPT ![id] = toks] /\ ctx' = ctx /\ written' = written
         /\ \A t \in Seqs : t # id => block_table'[t] = block_table[t]
         /\ \E want \in Nat :
              /\ want = IF P!Deficit(id, Len(toks)) > 0 THEN P!Deficit(id, Len(toks)) ELSE 0
              /\ Len(block_table'[id]) = Len(block_table[id]) + want
              /\ P!Cardinality(P!Free') = P!Cardinality(P!Free) - want
    BY <1>3, <1>8, <1>9, SamePool, P!ReserveFromFree DEF EInv, Contexts
  <1>12. /\ Len(block_table'[id]) = Len(block_table[id]) + need
         /\ P!Cardinality(P!Free') = P!Cardinality(P!Free) - need
    <2>1. need = IF need > 0 THEN need ELSE 0
      BY <1>9
    <2>2. PICK want \in Nat :
              /\ want = IF P!Deficit(id, Len(toks)) > 0 THEN P!Deficit(id, Len(toks)) ELSE 0
              /\ Len(block_table'[id]) = Len(block_table[id]) + want
              /\ P!Cardinality(P!Free') = P!Cardinality(P!Free) - want
      BY <1>11
    <2>3. want = need
      BY <1>9, <2>1, <2>2, Zenon
    <2>4. QED
      BY <2>2, <2>3, Zenon
  <1>13. NumFree' = NumFree - need
    <2>1. NumFree = P!Cardinality(P!Free)
      BY FreeIsCounted DEF EInv
    <2>2. NumFree' = P!Cardinality(P!Free')
      <3>1. Pool!Free' = P!Free'
        BY DEF Pool!Free, P!Free
      <3>2. QED
        BY <3>1, SameCount DEF NumFree
    <2>3. QED
      BY <1>12, <2>1, <2>2
  <1>14. pend'[id] = toks /\ \A q \in Seqs : q # id => pend'[q] = pend[q]
    BY <1>3, <1>11, PoolTypes DEF EInv
  <1>15. pc' = "reserve"
    BY <1>2, <1>4, <1>14
  <1>16. Shape'
    BY <1>2, <1>3, <1>15 DEF EInv, Shape
  <1>17. \A q : Context(q)' = Context(q)
    BY <1>2 DEF Context
  <1>18. Lives'
    <2>1. ASSUME NEW q \in Seqs PROVE Life(q)'
      <3>1. Life(q)
        BY DEF EInv, Lives
      <3>2. CASE q = id
        BY <1>2, <1>4, <3>1, <3>2 DEF Life
      <3>3. CASE q # id
        BY <1>2, <1>11, <1>14, <3>1, <3>3 DEF Life
      <3>4. QED
        BY <3>2, <3>3
    <2>2. QED
      BY <2>1 DEF Lives
  <1>19. Queues'
    BY <1>2, <1>15 DEF EInv, Queues
  <1>20. Batch'
    BY <1>2, <1>11, <1>15, <1>17, SameItems DEF EInv
  <1>21. Holdings'
    <2>1. \A q : ~ Committed(q)' /\ ~ Committed(q) /\ ~ Written(q)' /\ ~ Written(q)
      BY <1>2, <1>15 DEF Committed, Written, Past, Ahead
    <2>2. ASSUME NEW q \in Seqs, status'[q] = "Running", q # id PROVE Rows(q)' /\ Pending(q)'
      <3>1. Rows(q) /\ Pending(q)
        BY <1>2, <2>2 DEF EInv, Holdings
      <3>2. Reserved(q)' <=> Reserved(q)
        <4>1. ASSUME NEW k \in DOMAIN items, items[k].id = q PROVE k < scan + 1 <=> k < scan
          BY <1>1, <1>3, <2>2, <4>1
        <4>2. QED
          BY <1>2, <1>15, <4>1 DEF Reserved, Past, Ahead
      <3>3. QED
        BY <1>2, <1>11, <1>14, <1>15, <1>17, <2>1, <2>2, <3>1, <3>2, HoldingKept
    <2>3. Rows(id)'
      BY <1>2, <1>5, <1>11, <1>17, <2>1 DEF Rows
    <2>4. Pending(id)'
      <3>1. Reserved(id)'
        <4>1. scan < scan + 1
          BY <1>3
        <4>2. QED
          BY <1>1, <1>2, <1>3, <1>15, <4>1 DEF Reserved, Past
      <3>2. PICK n, l, m : n = Len(Context(id)) /\ l = Len(block_table[id]) /\ m = Len(block_table'[id])
        OBVIOUS
      <3>3. l \in Nat /\ P!BlocksFor(n) \in Nat
        <4>1. n \in Nat
          BY <1>3, <1>4, <3>2, RunningContext DEF EInv
        <4>2. block_table[id] \in Seq(Blocks)
          BY <1>3, PoolTypes DEF EInv
        <4>3. QED
          BY <3>2, <4>1, <4>2, SamePool, P!Covers
      <3>4. need = P!BlocksFor(n) - l /\ m = l + need
        BY <1>9, <1>12, <3>2, Zenon DEF Need
      <3>5. m <= P!BlocksFor(n)
        BY <3>3, <3>4
      <3>6. (P!BlocksFor(Len(Context(id))))' = P!BlocksFor(n)
        BY <1>17, <3>2 DEF P!BlocksFor
      <3>7. written'[id] <=> Written(id)'
        BY <1>5, <1>11, <2>1 DEF Pending
      <3>8. QED
        BY <1>4, <1>11, <1>14, <1>17, <3>1, <3>2, <3>5, <3>6, <3>7 DEF Pending
    <2>5. QED
      BY <2>2, <2>3, <2>4 DEF Holdings
  <1>22. Fit'
    <2>1. PICK f : Sums(f) /\ f[Len(items)] - f[scan - 1] <= NumFree
      BY <1>2 DEF EInv, Fit
    <2>2. Sums(f)'
      <3>1. ASSUME NEW k \in DOMAIN items, ~ (k < scan + 1)
            PROVE  f[k] = f[k - 1] + Need(items[k].id)'
        <4>1. ~ (k < scan) /\ k # scan
          BY <1>3, <3>1
        <4>2. items[k].id # id /\ items[k].id \in Seqs
          BY <1>3, <4>1, ItemTypes DEF EInv
        <4>3. Need(items[k].id)' = Need(items[k].id)
          <5>1. PICK q : q = items[k].id
            OBVIOUS
          <5>2. block_table'[q] = block_table[q]
            BY <1>11, <4>2, <5>1
          <5>3. Need(q)' = Need(q)
            BY <1>17, <5>2 DEF Need, P!BlocksFor
          <5>4. QED
            BY <1>2, <5>1, <5>3 DEF Need, Context
        <4>4. f[k] = f[k - 1] + Need(items[k].id)
          BY <1>2, <2>1, <4>1 DEF Sums, Past
        <4>5. QED
          BY <4>3, <4>4
      <3>2. QED
        BY <1>2, <1>15, <2>1, <3>1 DEF Sums, Past
    <2>3. f[Len(items)] - f[scan] <= NumFree'
      <3>1. f[scan] = f[scan - 1] + need
        BY <1>1, <1>2, <1>3, <1>9, <2>1 DEF Sums, Past
      <3>2. PICK l : l = Len(items)
        OBVIOUS
      <3>3. l \in Nat /\ scan <= l
        BY <1>2, <3>2 DEF EInv, Shape
      <3>4. scan \in 0..l /\ scan - 1 \in 0..l /\ l \in 0..l
        BY <1>3, <3>3
      <3>5. f \in [0..l -> Int]
        BY <2>1, <3>2 DEF Sums
      <3>6. PICK a, b, c, m : a = f[scan] /\ b = f[scan - 1] /\ c = f[l] /\ m = NumFree
        OBVIOUS
      <3>7. a \in Int /\ b \in Int /\ c \in Int /\ need \in Nat /\ m \in Nat
        BY <1>9, <3>4, <3>5, <3>6, FreeIsCounted DEF EInv
      <3>8. a = b + need /\ c - b <= m
        BY <2>1, <3>1, <3>2, <3>6, Zenon
      <3>9. c - a <= m - need
        BY <3>7, <3>8
      <3>10. QED
        BY <1>13, <3>2, <3>6, <3>9, Zenon
    <2>4. (scan + 1) - 1 = scan
      BY <1>3
    <2>5. QED
      BY <1>2, <1>15, <2>2, <2>3, <2>4 DEF Fit
  <1>23. Seen'
    BY <1>2, <1>15 DEF Seen, Past, Ahead
  <1>24. QED
    BY <1>10, <1>16, <1>18, <1>19, <1>20, <1>21, <1>22, <1>23 DEF EInv, Right, P!NoCollision

\* The exception: what the forward had appended is dropped, its blocks stay.
LEMMA AbortInv ==
  ASSUME EInv, Abort
  PROVE  EInv' /\ (Right => Right')
  <1>1. /\ pc = "abort" /\ pend' = [id \in Seqs |-> <<>>]
        /\ pc' = "idle" /\ scan' = 1 /\ items' = <<>> /\ budget' = 0
        /\ UNCHANGED <<ref_count, block_table, ctx, written, kv, prefix, older>>
        /\ UNCHANGED <<seqVars, waiting, running, next_id>>
        /\ ctx' = ctx /\ block_table' = block_table /\ written' = written
        /\ status' = status /\ request' = request /\ output' = output /\ prefilled' = prefilled
        /\ waiting' = waiting /\ running' = running /\ next_id' = next_id
    BY DEF Abort, seqVars
  <1>2. \A id : /\ ~ Committed(id)' /\ ~ Committed(id) /\ ~ Written(id)' /\ ~ Written(id)
                /\ ~ Reserved(id)' /\ Context(id)' = Context(id)
    BY <1>1 DEF Committed, Written, Reserved, Past, Ahead, Context
  <1>3. \A t \in Seqs : pend'[t] = <<>>
    BY <1>1
  <1>4. ASSUME NEW t \in Seqs PROVE pend'[t] = pend[t] \/ (pend'[t] = <<>> /\ ~ written[t])
    <2>1. CASE status[t] = "Running"
      BY <1>2, <1>3, <2>1 DEF EInv, Holdings, Pending
    <2>2. CASE status[t] # "Running"
      BY <1>3, <2>2 DEF EInv, Lives, Life
    <2>3. QED
      BY <2>1, <2>2
  <1>5. pend' \in [Seqs -> P!Contexts]
    BY <1>1, EmptyInContexts DEF Contexts
  <1>6. P!StoreInv' /\ (P!RowInv => P!RowInv')
    BY <1>1, <1>4, <1>5, SamePool, P!DropInv DEF EInv
  <1>7. Shape' /\ Batch' /\ Fit' /\ Seen'
    BY <1>1 DEF EInv, Shape, Batch, Fit, Seen
  <1>8. Lives'
    BY <1>1, <1>3 DEF EInv, Lives, Life
  <1>9. Queues'
    BY <1>1 DEF EInv, Queues
  <1>10. Holdings'
    <2>1. ASSUME NEW id \in Seqs, status'[id] = "Running" PROVE Rows(id)' /\ Pending(id)'
      <3>1. Rows(id) /\ Pending(id)
        BY <1>1, <2>1 DEF EInv, Holdings
      <3>2. Rows(id)'
        BY <1>1, <1>2, <3>1 DEF Rows
      <3>3. (P!BlocksFor(Len(Context(id))))' = P!BlocksFor(Len(Context(id)))
        BY <1>2 DEF P!BlocksFor
      <3>4. Pending(id)'
        BY <1>1, <1>2, <1>3, <3>1, <3>3 DEF Pending
      <3>5. QED
        BY <3>2, <3>4
    <2>2. QED
      BY <2>1 DEF Holdings
  <1>11. QED
    BY <1>6, <1>7, <1>8, <1>9, <1>10 DEF EInv, Right, P!NoCollision

\* The rows of one item are written, and all its rows gathered.
LEMMA ForwardWriteInv ==
  ASSUME EInv, ForwardWrite
  PROVE  EInv' /\ (Right => Right')
  <1>0. PICK id, n, seen :
          /\ id = items[scan].id /\ n = Len(ctx[id]) + Len(pend[id])
          /\ pc = "write" /\ scan <= Len(items) /\ Pool!Write(id)
          /\ items' = [items EXCEPT ![scan].seen = seen]
          /\ seen = Pool!ContextOf(Pool!Gather(id, Len(ctx[id]) + Len(pend[id]))')
          /\ scan' = scan + 1 /\ pc' = pc
          /\ UNCHANGED <<seqVars, waiting, running, next_id, budget>>
    BY DEF ForwardWrite
  <1>1. /\ id = items[scan].id /\ n = Len(ctx[id]) + Len(pend[id])
        /\ pc = "write" /\ scan <= Len(items) /\ Pool!Write(id)
        /\ items' = [items EXCEPT ![scan].seen = seen]
        /\ seen = Pool!ContextOf(Pool!Gather(id, n)')
        /\ scan' = scan + 1 /\ pc' = pc
        /\ UNCHANGED <<seqVars, waiting, running, next_id, budget>>
    <2>1. (Len(ctx[id]) + Len(pend[id]))' = n
      BY <1>0 DEF Pool!Write
    <2>2. Pool!Gather(id, Len(ctx[id]) + Len(pend[id]))' = Pool!Gather(id, n)'
      BY <2>1 DEF Pool!Gather
    <2>3. QED
      BY <1>0, <2>2
  <1>2. /\ scan \in DOMAIN items /\ id \in Seqs /\ ItemOk(scan) /\ scan \in Nat \ {0}
        /\ \A k \in DOMAIN items : k \in Nat \ {0}
        /\ \A k \in DOMAIN items : items[k].id = id => k = scan
    BY <1>1, CurrentItem DEF EInv
  <1>3. /\ status' = status /\ request' = request /\ output' = output /\ prefilled' = prefilled
        /\ waiting' = waiting /\ running' = running /\ next_id' = next_id /\ budget' = budget
    BY <1>1 DEF seqVars
  <1>4. P!Write(id)
    BY <1>1, SameWrite
  <1>5. /\ ref_count' = ref_count /\ block_table' = block_table /\ ctx' = ctx /\ pend' = pend
        /\ written' = [written EXCEPT ![id] = TRUE]
    BY <1>4 DEF P!Write
  <1>6. P!StoreInv' /\ (P!RowInv => P!RowInv')
    BY <1>2, <1>4, SamePool, P!WriteInv DEF EInv
  <1>7. seen = P!ContextOf(P!Gather(id, n)')
    BY <1>1, SameGather, SameHelpers
  <1>8. /\ seen \in (Contexts \ {<<>>}) \cup {Junk}
        /\ P!RowInv' => seen = ctx[id] \o pend[id]
    BY <1>1, <1>2, <1>4, <1>7, SamePool, P!WriteSees DEF EInv, Contexts
  <1>9. status[id] = "Running"
    BY <1>1, <1>2 DEF ItemOk, Past
  <1>10. Rows(id) /\ Pending(id)
    BY <1>2, <1>9 DEF EInv, Holdings
  <1>11. ctx[id] \o pend[id] = Context(id)
    <2>1. Reserved(id)
      BY <1>1, <1>2 DEF Reserved
    <2>2. QED
      BY <1>1, <1>10, <2>1 DEF Pending
  <1>12. /\ DOMAIN items' = DOMAIN items /\ Len(items') = Len(items) /\ items' \in Seq(Item)
         /\ \A k \in DOMAIN items :
              /\ items'[k].id = items[k].id /\ items'[k].tokens = items[k].tokens
              /\ items'[k].register = items[k].register
              /\ k # scan => items'[k] = items[k]
         /\ items'[scan].seen = seen
    <2>1. items \in Seq(Item) /\ DOMAIN items = 1..Len(items)
      BY DEF EInv, Shape
    <2>2. items[scan] \in Item
      BY <1>2, <2>1
    <2>3. [items[scan] EXCEPT !.seen = seen] \in Item
      BY <1>8, <2>2 DEF Item
    <2>4. items' = [items EXCEPT ![scan] = [items[scan] EXCEPT !.seen = seen]]
      BY <1>1
    <2>5. items' \in Seq(Item) /\ Len(items') = Len(items) /\ DOMAIN items' = DOMAIN items
      BY <1>2, <2>1, <2>3, <2>4
    <2>6. /\ \A k \in DOMAIN items : k # scan => items'[k] = items[k]
          /\ items'[scan] = [items[scan] EXCEPT !.seen = seen]
      BY <1>2, <2>4
    <2>7. /\ [items[scan] EXCEPT !.seen = seen].id = items[scan].id
          /\ [items[scan] EXCEPT !.seen = seen].tokens = items[scan].tokens
          /\ [items[scan] EXCEPT !.seen = seen].register = items[scan].register
          /\ [items[scan] EXCEPT !.seen = seen].seen = seen
      BY <2>2 DEF Item
    <2>8. QED
      BY <2>5, <2>6, <2>7
  <1>13. \A q : Context(q)' = Context(q)
    BY <1>3 DEF Context
  <1>14. Shape'
    BY <1>1, <1>2, <1>3, <1>12 DEF EInv, Shape
  <1>15. Lives'
    BY <1>3, <1>5 DEF EInv, Lives, Life
  <1>16. Queues'
    BY <1>1, <1>3 DEF EInv, Queues
  <1>17. Batch'
    BY <1>1, <1>3, <1>12, <1>13, SameItems DEF EInv
  <1>18. Holdings'
    <2>1. \A q : ~ Committed(q)' /\ ~ Committed(q)
      BY <1>1 DEF Committed, Past, Ahead
    <2>2. \A q : Reserved(q)' <=> Reserved(q)
      BY <1>1, <1>12 DEF Reserved, Past, Ahead
    <2>3. written[id]' /\ \A q \in Seqs : q # id => written'[q] = written[q]
      BY <1>2, <1>5, PoolTypes DEF EInv
    <2>4. ASSUME NEW q \in Seqs, status'[q] = "Running", q # id PROVE Rows(q)' /\ Pending(q)'
      <3>1. Rows(q) /\ Pending(q)
        BY <1>3, <2>4 DEF EInv, Holdings
      <3>2. Written(q)' <=> Written(q)
        <4>1. ASSUME NEW k \in DOMAIN items, items[k].id = q PROVE k < scan + 1 <=> k < scan
          BY <1>1, <1>2, <2>4, <4>1
        <4>2. QED
          BY <1>1, <1>12, <4>1 DEF Written, Past, Ahead
      <3>3. QED
        BY <1>1, <1>3, <1>5, <1>13, <2>1, <2>2, <2>3, <2>4, <3>1, <3>2, HoldingKept
    <2>5. Rows(id)'
      BY <1>3, <1>5, <1>10, <1>13, <2>1 DEF Rows
    <2>6. Pending(id)'
      <3>1. Written(id)'
        <4>1. scan < scan + 1
          BY <1>2
        <4>2. QED
          BY <1>1, <1>2, <1>12, <4>1 DEF Written, Past
      <3>2. (P!BlocksFor(Len(Context(id))))' = P!BlocksFor(Len(Context(id)))
        BY <1>13 DEF P!BlocksFor
      <3>3. QED
        BY <1>1, <1>5, <1>10, <1>13, <2>2, <2>3, <3>1, <3>2 DEF Pending
    <2>7. QED
      BY <2>4, <2>5, <2>6 DEF Holdings
  <1>19. Fit'
    BY <1>1 DEF Fit
  <1>20. Right => Right'
    <2> SUFFICES ASSUME P!NoCollision, P!RowInv, Seen PROVE P!RowInv' /\ Seen'
      BY DEF Right, P!NoCollision
    <2>1. P!RowInv' /\ seen = Context(id)
      BY <1>6, <1>8, <1>11
    <2>2. ASSUME NEW k \in DOMAIN items, k < scan + 1 PROVE (items[k].seen = Context(items[k].id))'
      <3>1. PICK q : q = items[k].id /\ items'[k].id = q /\ Context(q)' = Context(q)
        BY <1>12, <1>13
      <3>2. CASE k = scan
        <4>1. q = id /\ items'[k].seen = Context(q)
          BY <1>1, <1>12, <2>1, <3>1, <3>2
        <4>2. QED
          BY <3>1, <4>1 DEF Context
      <3>3. CASE k # scan
        <4>1. k < scan
          BY <1>2, <2>2, <3>3
        <4>2. items[k].seen = Context(q) /\ items'[k] = items[k]
          BY <1>1, <1>12, <3>1, <3>3, <4>1 DEF Seen, Past
        <4>3. QED
          BY <3>1, <4>2 DEF Context
      <3>4. QED
        BY <3>2, <3>3
    <2>3. Seen'
      BY <1>1, <1>12, <2>2 DEF Seen, Past, Ahead
    <2>4. QED
      BY <2>1, <2>3
  <1>21. QED
    BY <1>6, <1>14, <1>15, <1>16, <1>17, <1>18, <1>19, <1>20 DEF EInv

\* The rows of one item become part of its sequence.
LEMMA ForwardCommitInv ==
  ASSUME EInv, ForwardCommit
  PROVE  EInv' /\ (Right => Right')
  <1>1. PICK id :
          /\ id = items[scan].id
          /\ pc = "commit" /\ scan <= Len(items) /\ Pool!Commit(id)
          /\ items' = items /\ scan' = scan + 1 /\ pc' = pc
          /\ UNCHANGED <<seqVars, waiting, running, next_id, budget>>
    BY DEF ForwardCommit
  <1>2. /\ scan \in DOMAIN items /\ id \in Seqs /\ ItemOk(scan) /\ scan \in Nat \ {0}
        /\ \A k \in DOMAIN items : k \in Nat \ {0}
        /\ \A k \in DOMAIN items : items[k].id = id => k = scan
    BY <1>1, CurrentItem DEF EInv
  <1>3. /\ status' = status /\ request' = request /\ output' = output /\ prefilled' = prefilled
        /\ waiting' = waiting /\ running' = running /\ next_id' = next_id /\ budget' = budget
    BY <1>1 DEF seqVars
  <1>4. P!Commit(id)
    BY <1>1, SameCommit
  <1>5. /\ ref_count' = ref_count /\ block_table' = block_table
        /\ ctx' = [ctx EXCEPT ![id] = @ \o pend[id]]
        /\ pend' = [pend EXCEPT ![id] = <<>>]
        /\ written' = [written EXCEPT ![id] = FALSE]
    BY <1>4 DEF P!Commit
  <1>6. P!StoreInv' /\ (P!RowInv => P!RowInv')
    BY <1>2, <1>4, SamePool, P!CommitInv DEF EInv
  <1>7. status[id] = "Running"
    BY <1>1, <1>2 DEF ItemOk, Past
  <1>8. Rows(id) /\ Pending(id)
    BY <1>2, <1>7 DEF EInv, Holdings
  <1>9. ctx[id] \o pend[id] = Context(id)
    <2>1. Reserved(id)
      BY <1>1, <1>2 DEF Reserved, Ahead
    <2>2. QED
      BY <1>1, <1>8, <2>1 DEF Pending
  <1>10. /\ ctx'[id] = Context(id) /\ pend'[id] = <<>> /\ ~ written'[id]
         /\ \A q \in Seqs : q # id => ctx'[q] = ctx[q] /\ pend'[q] = pend[q] /\ written'[q] = written[q]
    BY <1>2, <1>5, <1>9, PoolTypes DEF EInv
  <1>11. \A q : Context(q)' = Context(q)
    BY <1>3 DEF Context
  <1>12. Shape'
    BY <1>1, <1>2, <1>3 DEF EInv, Shape
  <1>13. Lives'
    <2>1. ASSUME NEW q \in Seqs PROVE Life(q)'
      <3>1. Life(q)
        BY DEF EInv, Lives
      <3>2. CASE q = id
        BY <1>3, <1>7, <3>1, <3>2 DEF Life
      <3>3. CASE q # id
        BY <1>3, <1>5, <1>10, <3>1, <3>3 DEF Life
      <3>4. QED
        BY <3>2, <3>3
    <2>2. QED
      BY <2>1 DEF Lives
  <1>14. Queues'
    BY <1>1, <1>3 DEF EInv, Queues
  <1>15. Batch'
    BY <1>1, <1>3, <1>11, SameItems DEF EInv
  <1>16. Holdings'
    <2>1. ASSUME NEW q \in Seqs, status'[q] = "Running", q # id PROVE Rows(q)' /\ Pending(q)'
      <3>1. Rows(q) /\ Pending(q)
        BY <1>3, <2>1 DEF EInv, Holdings
      <3>2. /\ Written(q)' <=> Written(q)
            /\ Committed(q)' <=> Committed(q)
            /\ Reserved(q)' <=> Reserved(q)
        <4>1. ASSUME NEW k \in DOMAIN items, items[k].id = q
              PROVE  (k < scan + 1 <=> k < scan) /\ (k >= scan + 1 <=> k >= scan)
          BY <1>1, <1>2, <2>1, <4>1
        <4>2. QED
          BY <1>1, <4>1 DEF Written, Committed, Reserved, Past, Ahead
      <3>3. QED
        BY <1>1, <1>3, <1>5, <1>10, <1>11, <2>1, <3>1, <3>2, HoldingKept
    <2>2. Committed(id)' /\ ~ Reserved(id)' /\ ~ Written(id)'
      <3>1. scan < scan + 1 /\ ~ (scan >= scan + 1)
        BY <1>2
      <3>2. QED
        BY <1>1, <1>2, <3>1 DEF Committed, Reserved, Written, Past, Ahead
    <2>3. Rows(id)'
      BY <1>10, <1>11, <2>2 DEF Rows
    <2>4. Pending(id)'
      <3>1. (P!BlocksFor(Len(Context(id))))' = P!BlocksFor(Len(Context(id)))
        BY <1>11 DEF P!BlocksFor
      <3>2. QED
        BY <1>5, <1>8, <1>10, <1>11, <2>2, <3>1 DEF Pending
    <2>5. QED
      BY <2>1, <2>3, <2>4 DEF Holdings
  <1>17. Fit'
    BY <1>1 DEF Fit
  <1>18. Seen => Seen'
    <2> SUFFICES ASSUME Seen, NEW k \in DOMAIN items PROVE items[k].seen = (Context(items[k].id))'
      BY <1>1 DEF Seen
    <2>1. items[k].seen = Context(items[k].id)
      BY <1>1 DEF Seen
    <2>2. QED
      BY <1>1, <1>11, <2>1 DEF Context
  <1>19. QED
    BY <1>6, <1>12, <1>13, <1>14, <1>15, <1>16, <1>17, <1>18 DEF EInv, Right, P!NoCollision

-----------------------------------------------------------------------------
(* Sampling. *)

\* What sampling an item does to the pool: a sequence that stops gives all back,
\* one that goes on keeps its rows.
LEMMA SamplePool ==
  ASSUME EInv, pc = "sample", scan <= Len(items), NEW id, id = items[scan].id, NEW token,
         IF Stops(id, token) THEN Pool!FreeSeq(id)
         ELSE IF items[scan].register # <<>> THEN Pool!RegisterPrefix(id, items[scan].register)
         ELSE UNCHANGED poolVars
  PROVE  /\ P!StoreInv' /\ (P!RowInv => P!RowInv')
         /\ \A q \in Seqs : q # id => /\ block_table'[q] = block_table[q] /\ ctx'[q] = ctx[q]
                                      /\ pend'[q] = pend[q] /\ written'[q] = written[q]
         /\ status[id] = "Running" /\ ctx[id] = Context(id)
         /\ pend'[id] = <<>> /\ ~ written'[id]
         /\ IF Stops(id, token) THEN ctx'[id] = <<>> /\ block_table'[id] = <<>>
            ELSE ctx'[id] = ctx[id] /\ block_table'[id] = block_table[id]
  <1>1. /\ scan \in DOMAIN items /\ id \in Seqs /\ ItemOk(scan) /\ scan \in Nat \ {0}
        /\ \A k \in DOMAIN items : k \in Nat \ {0}
        /\ items[scan].id = id
    BY CurrentItem DEF EInv
  <1>2. /\ status[id] = "Running" /\ items[scan].register \in {<<>>, Context(id)}
    BY <1>1 DEF ItemOk, Past
  <1>3. Rows(id) /\ Pending(id)
    BY <1>1, <1>2 DEF EInv, Holdings
  <1>4. Committed(id) /\ ~ Reserved(id) /\ ~ Written(id)
    BY <1>1 DEF Committed, Reserved, Written, Past, Ahead
  <1>5. ctx[id] = Context(id) /\ pend[id] = <<>> /\ ~ written[id]
    BY <1>3, <1>4 DEF Rows, Pending
  <1>6. /\ block_table \in [Seqs -> Seq(Blocks)] /\ ctx \in [Seqs -> Contexts]
        /\ pend \in [Seqs -> Contexts] /\ written \in [Seqs -> BOOLEAN]
    BY PoolTypes DEF EInv
  <1>7. CASE Stops(id, token)
    <2>1. P!FreeSeq(id)
      BY <1>7, SameFreeSeq
    <2>2. P!StoreInv' /\ (P!RowInv => P!RowInv')
      BY <1>1, <2>1, SamePool, P!FreeSeqInv DEF EInv
    <2>3. /\ block_table' = [block_table EXCEPT ![id] = <<>>] /\ ctx' = [ctx EXCEPT ![id] = <<>>]
          /\ pend' = [pend EXCEPT ![id] = <<>>] /\ written' = [written EXCEPT ![id] = FALSE]
      BY <2>1 DEF P!FreeSeq
    <2>4. QED
      BY <1>1, <1>2, <1>5, <1>6, <1>7, <2>2, <2>3
  <1>8. CASE ~ Stops(id, token) /\ items[scan].register # <<>>
    <2>1. Pool!RegisterPrefix(id, ctx[id])
      BY <1>2, <1>5, <1>8
    <2>2. P!RegisterPrefix(id, ctx[id])
      BY <2>1, SameRegister
    <2>3. P!StoreInv' /\ (P!RowInv => P!RowInv')
      BY <1>1, <2>2, SamePool, P!RegisterInv DEF EInv
    <2>4. UNCHANGED <<block_table, ctx, pend, written>>
      BY <2>1 DEF Pool!RegisterPrefix
    <2>5. QED
      BY <1>2, <1>5, <1>8, <2>3, <2>4
  <1>9. CASE ~ Stops(id, token) /\ items[scan].register = <<>>
    <2>1. UNCHANGED poolVars
      BY <1>9
    <2>2. UNCHANGED <<block_table, ctx, pend, written>>
      BY <2>1 DEF poolVars
    <2>3. P!StoreInv' /\ (P!RowInv => P!RowInv')
      BY <2>1, PoolKept DEF EInv
    <2>4. QED
      BY <1>2, <1>5, <1>9, <2>2, <2>3
  <1>10. QED
    BY <1>7, <1>8, <1>9

\* A token drawn for an item is a token.
LEMMA DrawnToken ==
  ASSUME Shape, NEW k \in DOMAIN items,
         NEW token \in IF items[k].seen = Junk THEN Vocab ELSE Sample(items[k].seen)
  PROVE  token \in Tokens
  <1>1. items[k].seen \in (Contexts \ {<<>>}) \cup {Junk}
    BY ItemTypes
  <1>2. QED
    BY <1>1, SamePool, TokensAssumption DEF Contexts

\* A token is drawn for one item.
LEMMA SampleItemInv ==
  ASSUME EInv, SampleItem
  PROVE  EInv' /\ (Right => Right')
  <1>1. PICK id, token :
          /\ id = items[scan].id
          /\ token \in IF items[scan].seen = Junk THEN Vocab ELSE Sample(items[scan].seen)
          /\ pc = "sample" /\ scan <= Len(items)
          /\ output' = [output EXCEPT ![id] = Append(@, token)]
          /\ prefilled' = [prefilled EXCEPT ![id] = TRUE]
          /\ status' = IF Stops(id, token) THEN [status EXCEPT ![id] = "Finished"] ELSE status
          /\ IF Stops(id, token) THEN Pool!FreeSeq(id)
             ELSE IF items[scan].register # <<>> THEN Pool!RegisterPrefix(id, items[scan].register)
             ELSE UNCHANGED poolVars
          /\ scan' = scan + 1
          /\ request' = request /\ waiting' = waiting /\ running' = running
          /\ next_id' = next_id /\ pc' = pc /\ budget' = budget /\ items' = items
    BY DEF SampleItem
  <1>2. /\ scan \in DOMAIN items /\ id \in Seqs /\ scan \in Nat \ {0}
        /\ \A k \in DOMAIN items : k \in Nat \ {0}
        /\ \A k \in DOMAIN items : items[k].id = id => k = scan
    BY <1>1, CurrentItem DEF EInv
  <1>3. /\ P!StoreInv' /\ (P!RowInv => P!RowInv')
        /\ \A q \in Seqs : q # id => /\ block_table'[q] = block_table[q] /\ ctx'[q] = ctx[q]
                                     /\ pend'[q] = pend[q] /\ written'[q] = written[q]
        /\ status[id] = "Running" /\ ctx[id] = Context(id)
        /\ pend'[id] = <<>> /\ ~ written'[id]
        /\ IF Stops(id, token) THEN ctx'[id] = <<>> /\ block_table'[id] = <<>>
           ELSE ctx'[id] = ctx[id] /\ block_table'[id] = block_table[id]
    BY <1>1, SamplePool
  <1>4. token \in Tokens
    BY <1>1, <1>2, DrawnToken DEF EInv
  <1>5. /\ id < next_id /\ request[id] \in RequestKinds /\ request[id].prompt \in Seq(Tokens)
        /\ output[id] \in Seq(Tokens) /\ Len(Context(id)) \in Nat
    BY <1>2, <1>3, RunningContext DEF EInv
  <1>6. /\ output'[id] = Append(output[id], token) /\ prefilled'[id]
        /\ status'[id] = IF Stops(id, token) THEN "Finished" ELSE "Running"
        /\ \A q \in Seqs : q # id => /\ output'[q] = output[q] /\ prefilled'[q] = prefilled[q]
                                     /\ status'[q] = status[q]
    BY <1>1, <1>2, <1>3 DEF EInv, Shape
  <1>7. Append(output[id], token) \in Seq(Tokens)
    BY <1>4, <1>5
  <1>8. /\ Context(id)' = Append(Context(id), token)
        /\ (Len(Context(id)))' = Len(Context(id)) + 1
        /\ (SubSeq(Context(id), 1, Len(Context(id)) - 1))' = Context(id)
    <2>1. PICK p, o, q : p = request[id].prompt /\ o = output[id] /\ q = Append(o, token)
      OBVIOUS
    <2>2. /\ p \o q = Append(p \o o, token) /\ Len(p \o q) = Len(p \o o) + 1
          /\ SubSeq(p \o q, 1, Len(p \o o)) = p \o o
      BY <1>4, <1>5, <2>1, ContextGrows
    <2>3. Context(id) = p \o o /\ Context(id)' = p \o q
      BY <1>1, <1>6, <2>1 DEF Context
    <2>4. PICK n, m : n = Len(p \o o) /\ m = Len(p \o q)
      OBVIOUS
    <2>5. m - 1 = n
      <3>1. n \in Nat
        BY <1>5, <2>3, <2>4
      <3>2. m = n + 1
        BY <2>2, <2>4
      <3>3. QED
        BY <3>1, <3>2
    <2>6. SubSeq(p \o q, 1, Len(p \o q) - 1) = p \o o
      BY <2>2, <2>4, <2>5
    <2>7. (SubSeq(Context(id), 1, Len(Context(id)) - 1))' = SubSeq(p \o q, 1, Len(p \o q) - 1)
      BY <2>3
    <2>8. QED
      BY <2>2, <2>3, <2>6, <2>7
  <1>9. \A q \in Seqs : q # id => Context(q)' = Context(q)
    BY <1>1, <1>6 DEF Context
  <1>10. Shape'
    <2>1. output' \in [Seqs -> Seq(Tokens)]
      BY <1>1, <1>2, <1>7 DEF EInv, Shape
    <2>2. QED
      BY <1>1, <1>2, <2>1 DEF EInv, Shape
  <1>11. Lives'
    <2>1. ASSUME NEW q \in Seqs PROVE Life(q)'
      <3>1. Life(q)
        BY DEF EInv, Lives
      <3>2. CASE q = id
        <4>1. ~ (id >= next_id)
          <5>1. id \in Nat /\ next_id \in Nat
            BY <1>2, NumRequestsAssumption DEF EInv, Shape, Seqs
          <5>2. QED
            BY <1>5, <5>1
        <4>2. output'[id] # <<>>
          BY <1>5, <1>6
        <4>3. ~ Stops(id, token) => Len(output'[id]) < request[id].max_tokens
          <5>1. PICK n, m : n = Len(output[id]) /\ m = request[id].max_tokens
            OBVIOUS
          <5>2. n \in Nat /\ m \in Int
            BY <1>5, <5>1, RequestAssumption
          <5>3. Len(output'[id]) = n + 1
            BY <1>4, <1>5, <1>6, <5>1
          <5>4. ~ Stops(id, token) => ~ (n + 1 >= m)
            BY <5>1 DEF Stops
          <5>5. QED
            BY <5>1, <5>2, <5>3, <5>4
        <4>4. CASE Stops(id, token)
          BY <1>1, <1>3, <1>5, <1>6, <3>2, <4>1, <4>2, <4>4 DEF Life
        <4>5. CASE ~ Stops(id, token)
          BY <1>1, <1>3, <1>5, <1>6, <3>2, <4>1, <4>2, <4>3, <4>5 DEF Life
        <4>6. QED
          BY <4>4, <4>5
      <3>3. CASE q # id
        BY <1>1, <1>3, <1>6, <3>1, <3>3 DEF Life
      <3>4. QED
        BY <3>2, <3>3
    <2>2. QED
      BY <2>1 DEF Lives
  <1>12. Queues'
    <2>1. id \in Batched /\ Batched' = Batched
      BY <1>1, <1>2 DEF Batched
    <2>2. ASSUME NEW q \in Seqs
          PROVE  /\ q \in Entries(waiting) <=> q < next_id /\ status'[q] = "Waiting"
                 /\ q \in Entries(running) <=>
                      status'[q] = "Running" \/ (status'[q] = "Finished" /\ q \in Batched)
      <3>1. /\ q \in Entries(waiting) <=> q < next_id /\ status[q] = "Waiting"
            /\ q \in Entries(running) <=>
                      status[q] = "Running" \/ (status[q] = "Finished" /\ q \in Batched)
        BY <1>1 DEF EInv, Queues
      <3>2. CASE q = id
        BY <1>3, <1>6, <2>1, <3>1, <3>2
      <3>3. CASE q # id
        BY <1>6, <3>1, <3>3
      <3>4. QED
        BY <3>2, <3>3
    <2>3. Injective(waiting) /\ Injective(running)
      BY DEF EInv, Queues
    <2>4. QED
      BY <1>1, <2>1, <2>2, <2>3 DEF Queues
  <1>13. Batch'
    <2>1. ASSUME NEW k \in DOMAIN items PROVE ItemOk(k)'
      <3>1. ItemOk(k)
        BY DEF EInv, Batch
      <3>2. ASSUME ~ (k < scan + 1)
            PROVE  /\ status'[items[k].id] = "Running"
                   /\ (items[k].register \in {<<>>, Context(items[k].id)})'
        <4>1. PICK q : q = items[k].id
          OBVIOUS
        <4>2. ~ (k < scan) /\ q # id
          <5>1. ~ (k < scan) /\ k # scan
            BY <1>2, <3>2
          <5>2. QED
            BY <1>2, <4>1, <5>1
        <4>3. q \in Seqs
          BY <4>1, ItemTypes DEF EInv
        <4>4. status[q] = "Running" /\ items[k].register \in {<<>>, Context(q)}
          BY <3>1, <4>1, <4>2 DEF ItemOk, Past
        <4>5. Context(q)' = Context(q) /\ status'[q] = "Running"
          BY <1>6, <1>9, <4>2, <4>3, <4>4
        <4>6. QED
          BY <1>1, <4>1, <4>4, <4>5 DEF Context
      <3>3. QED
        BY <1>1, <3>2 DEF ItemOk, Past
    <2>2. QED
      BY <1>1, <2>1 DEF EInv, Batch
  <1>14. Holdings'
    <2>1. \A q : ~ Written(q)' /\ ~ Written(q) /\ ~ Reserved(q)' /\ ~ Reserved(q)
      BY <1>1 DEF Written, Reserved, Past, Ahead
    <2>2. ASSUME NEW q \in Seqs, status'[q] = "Running", q # id PROVE Rows(q)' /\ Pending(q)'
      <3>1. Rows(q) /\ Pending(q)
        BY <1>6, <2>2 DEF EInv, Holdings
      <3>2. Committed(q)' <=> Committed(q)
        <4>1. ASSUME NEW k \in DOMAIN items, items[k].id = q
              PROVE  k >= scan + 1 <=> k >= scan
          BY <1>1, <1>2, <2>2, <4>1
        <4>2. QED
          BY <1>1, <4>1 DEF Committed, Past, Ahead
      <3>3. QED
        BY <1>1, <1>3, <1>6, <1>9, <2>1, <2>2, <3>1, <3>2, HoldingKept
    <2>3. ASSUME status'[id] = "Running" PROVE Rows(id)' /\ Pending(id)'
      <3>1. ~ Stops(id, token)
        BY <1>6, <2>3
      <3>2. ctx'[id] = Context(id) /\ block_table'[id] = block_table[id]
        BY <1>3, <3>1
      <3>3. ~ Committed(id)'
        <4>1. ~ (scan >= scan + 1)
          BY <1>2
        <4>2. QED
          BY <1>1, <1>2, <4>1 DEF Committed, Past, Ahead
      <3>4. Rows(id)'
        BY <1>6, <1>8, <3>2, <3>3 DEF Rows
      <3>5. Pending(id)
        BY <1>2, <1>3 DEF EInv, Holdings
      <3>6. (Len(block_table[id]) <= P!BlocksFor(Len(Context(id))))'
        <4>1. PICK n \in Nat : n = Len(Context(id))
          BY <1>5
        <4>2. PICK l \in Nat : l = Len(block_table[id])
          BY <1>2, PoolTypes DEF EInv
        <4>3. l <= P!BlocksFor(n)
          BY <3>5, <4>1, <4>2 DEF Pending
        <4>4. n + 1 \in Nat /\ n <= n + 1
          OBVIOUS
        <4>5. P!BlocksFor(n) \in Nat /\ P!BlocksFor(n + 1) \in Nat /\ P!BlocksFor(n) <= P!BlocksFor(n + 1)
          BY <4>4, BlocksMonotone
        <4>6. l <= P!BlocksFor(n + 1)
          BY <4>3, <4>5
        <4>7. (P!BlocksFor(Len(Context(id))))' = P!BlocksFor(n + 1)
          BY <1>8, <4>1 DEF P!BlocksFor
        <4>8. QED
          BY <3>2, <4>2, <4>6, <4>7
      <3>7. Pending(id)'
        BY <1>1, <1>3, <2>1, <3>6 DEF Pending
      <3>8. QED
        BY <3>4, <3>7
    <2>4. QED
      BY <2>2, <2>3 DEF Holdings
  <1>15. Fit'
    BY <1>1 DEF Fit
  <1>16. Seen => Seen'
    <2> SUFFICES ASSUME Seen, NEW k \in DOMAIN items, k >= scan + 1
                 PROVE  (items[k].seen = Context(items[k].id))'
      BY <1>1 DEF Seen, Past, Ahead
    <2>1. PICK q : q = items[k].id
      OBVIOUS
    <2>2. k >= scan /\ k # scan
      BY <1>2
    <2>3. q \in Seqs /\ q # id
      BY <1>2, <2>1, <2>2, ItemTypes DEF EInv
    <2>4. items[k].seen = Context(q)
      BY <1>1, <2>1, <2>2 DEF Seen, Ahead
    <2>5. Context(q)' = Context(q)
      BY <1>9, <2>3
    <2>6. QED
      BY <1>1, <2>1, <2>4, <2>5 DEF Context
  <1>17. QED
    BY <1>3, <1>10, <1>11, <1>12, <1>13, <1>14, <1>15, <1>16 DEF EInv, Right, P!NoCollision

-----------------------------------------------------------------------------
(* The assembly. *)

\* The sequence the assembly is at.
LEMMA ScannedSequence ==
  ASSUME EInv, pc = "assemble", scan <= Len(running), NEW id, id = running[scan]
  PROVE  /\ id \in Seqs /\ scan \in DOMAIN running /\ scan \in Nat \ {0} /\ status[id] = "Running"
         /\ \A k \in DOMAIN items : items[k].id # id
         /\ \A k \in DOMAIN items : \E j \in DOMAIN running : j < scan /\ items[k].id = running[j]
         /\ pend[id] = <<>> /\ ~ written[id] /\ Rows(id) /\ Pending(id)
         /\ \A q : ~ Committed(q) /\ ~ Reserved(q) /\ ~ Written(q)
         /\ Context(id) \in Contexts /\ Context(id) \in Seq(Tokens) /\ Context(id) # <<>>
         /\ Len(Context(id)) \in Nat \ {0}
  <1>1. running \in Seq(Seqs) /\ scan \in Nat \ {0}
    BY DEF EInv, Shape
  <1>2. scan \in DOMAIN running /\ id \in Seqs
    BY <1>1
  <1>3. id \in Entries(running)
    BY <1>2 DEF Entries
  <1>4. status[id] = "Running"
    BY <1>2, <1>3 DEF EInv, Queues
  <1>5. ASSUME NEW k \in DOMAIN items
        PROVE \E j \in DOMAIN running : j < scan /\ items[k].id = running[j]
    BY DEF EInv, Batch, ItemOk
  <1>6. ASSUME NEW k \in DOMAIN items PROVE items[k].id # id
    <2>1. PICK j \in DOMAIN running : j < scan /\ items[k].id = running[j]
      BY <1>5
    <2>2. j # scan
      BY <1>1, <2>1
    <2>3. QED
      BY <1>2, <2>1, <2>2 DEF EInv, Queues, Injective
  <1>7. \A q : ~ Committed(q) /\ ~ Reserved(q) /\ ~ Written(q)
    BY DEF Committed, Reserved, Written, Past, Ahead
  <1>8. Rows(id) /\ Pending(id)
    BY <1>2, <1>4 DEF EInv, Holdings
  <1>9. pend[id] = <<>> /\ ~ written[id]
    BY <1>7, <1>8 DEF Pending
  <1>10. QED
    BY <1>1, <1>2, <1>4, <1>5, <1>6, <1>7, <1>8, <1>9, RunningContext DEF EInv

\* The rows a sequence may have when it joins a batch: all but the last token of
\* a prefilled one, some of the context of another.
RowsToExtend(id, x) ==
    /\ x \in Seq(Tokens)
    /\ prefilled[id] => x = SubSeq(Context(id), 1, Len(Context(id)) - 1)
    /\ ~ prefilled[id] => \E n \in Nat : n < Len(Context(id)) /\ x = SubSeq(Context(id), 1, n)

\* step_tokens() is what such rows lack of the context.
LEMMA StepTokensComplete ==
  ASSUME Shape, Lives, NEW id \in Seqs, status[id] = "Running", NEW x, RowsToExtend(id, x)
  PROVE  /\ StepTokens(id, Len(x)) \in Contexts /\ StepTokens(id, Len(x)) # <<>>
         /\ x \o StepTokens(id, Len(x)) = Context(id)
         /\ Len(x) + Len(StepTokens(id, Len(x))) = Len(Context(id))
  <1>1. PICK t, c : t = StepTokens(id, Len(x)) /\ c = Context(id)
    OBVIOUS
  <1>2. /\ request[id].prompt \in Seq(Tokens) /\ output[id] \in Seq(Tokens)
        /\ c \in Contexts /\ c \in Seq(Tokens) /\ Len(c) \in Nat \ {0}
    BY <1>1, RunningContext
  <1>3. x \o t = c /\ t \in Seq(Tokens) /\ t # <<>>
    <2>1. CASE prefilled[id]
      <3>1. PICK p, o : p = request[id].prompt /\ o = output[id]
        OBVIOUS
      <3>2. o # <<>> /\ p \in Seq(Tokens) /\ o \in Seq(Tokens)
        BY <1>2, <2>1, <3>1 DEF Lives, Life
      <3>3. t = <<o[Len(o)]>>
        BY <1>1, <2>1, <3>1 DEF StepTokens
      <3>4. SubSeq(p \o o, 1, Len(p \o o) - 1) \o t = p \o o /\ t \in Seq(Tokens)
        BY <3>2, <3>3, LastOfConcat
      <3>5. c = p \o o /\ x = SubSeq(p \o o, 1, Len(p \o o) - 1)
        BY <1>1, <2>1, <3>1 DEF Context, RowsToExtend
      <3>6. t # <<>>
        BY <3>3
      <3>7. QED
        BY <3>4, <3>5, <3>6
    <2>2. CASE ~ prefilled[id]
      <3>1. PICK n \in Nat : n < Len(c) /\ x = SubSeq(c, 1, n)
        BY <1>1, <2>2 DEF RowsToExtend
      <3>2. /\ Len(SubSeq(c, 1, n)) = n
            /\ SubSeq(c, n + 1, Len(c)) \in Seq(Tokens) /\ SubSeq(c, n + 1, Len(c)) # <<>>
            /\ SubSeq(c, 1, n) \o SubSeq(c, n + 1, Len(c)) = c
        BY <1>2, <3>1, SplitAt
      <3>3. t = SubSeq(c, n + 1, Len(c))
        <4>1. Len(x) = n
          BY <3>1, <3>2
        <4>2. QED
          BY <1>1, <2>2, <4>1 DEF StepTokens
      <3>4. QED
        BY <3>1, <3>2, <3>3
    <2>3. QED
      BY <2>1, <2>2
  <1>4. x \in Seq(Tokens)
    BY DEF RowsToExtend
  <1>5. Len(x) + Len(t) = Len(c)
    <2>1. Len(x \o t) = Len(x) + Len(t)
      BY <1>3, <1>4, ConcatProperties
    <2>2. QED
      BY <1>3, <2>1
  <1>6. t \in Contexts
    <2>1. PICK a, b, d : a = Len(x) /\ b = Len(t) /\ d = Len(c)
      OBVIOUS
    <2>2. a \in Nat /\ b \in Nat /\ d \in Nat
      BY <1>2, <1>3, <1>4, <2>1, LenProperties
    <2>3. a + b = d
      BY <1>5, <2>1
    <2>4. d <= MaxLen /\ MaxLen \in Nat
      BY <1>2, <2>1, ContextTypes, PoolAssumption
    <2>5. b <= MaxLen
      BY <2>2, <2>3, <2>4
    <2>6. QED
      BY <1>3, <2>1, <2>5, ContextWithin
  <1>7. QED
    BY <1>1, <1>3, <1>5, <1>6

\* What the cache can give a sequence: some whole blocks, short of its context.
LEMMA ShareablePart ==
  ASSUME NEW c \in Contexts, NEW l, l = Len(c), l # 0
  PROVE  \E n \in Nat : n < l /\ n \in 0..l /\ Shareable(c) = SubSeq(c, 1, n) /\ Shareable(c) \in Contexts
                        /\ Len(Shareable(c)) = n
  <1>1. l \in Nat /\ l - 1 \in Nat /\ BlockSize \in Nat \ {0}
    BY ContextTypes, PoolAssumption
  <1>2. PICK d : d = (l - 1) \div BlockSize
    OBVIOUS
  <1>3. \A m \in Nat : m \div BlockSize \in Nat /\ (m \div BlockSize) * BlockSize <= m
                       /\ (m \div BlockSize) * BlockSize \in Nat
    BY <1>1
  <1>4. d * BlockSize <= l - 1 /\ d * BlockSize \in Nat
    BY <1>1, <1>2, <1>3
  <1>5. PICK n : n = d * BlockSize
    OBVIOUS
  <1>6. n \in Nat /\ n < l /\ n \in 0..l
    BY <1>1, <1>4, <1>5
  <1>7. Shareable(c) = SubSeq(c, 1, n)
    BY <1>2, <1>5 DEF Shareable
  <1>8. n \in 0..Len(c)
    BY <1>6
  <1>9. SubSeq(c, 1, n) \in Contexts /\ Len(SubSeq(c, 1, n)) = n
    BY <1>8, SamePool, P!PrefixContext DEF Contexts
  <1>10. QED
    BY <1>6, <1>7, <1>9

\* What the assembly does to the pool, before it counts blocks.
LEMMA AssemblePool ==
  ASSUME EInv, pc = "assemble", scan <= Len(running), NEW id, id = running[scan],
         NEW fresh, fresh => ~ prefilled[id],
         IF fresh /\ Shareable(Context(id)) # <<>>
         THEN Pool!AcquireSharedPrefix(id, Shareable(Context(id)))
         ELSE UNCHANGED poolVars
  PROVE  /\ P!StoreInv' /\ (P!NoCollision /\ P!RowInv => P!RowInv')
         /\ P!Free' = P!Free /\ pend' = pend /\ written' = written
         /\ \A q \in Seqs : q # id => block_table'[q] = block_table[q] /\ ctx'[q] = ctx[q]
         /\ RowsToExtend(id, ctx'[id])
         /\ Len(block_table'[id]) \in Nat
         /\ Len(block_table'[id]) <= P!BlocksFor(Len(Context(id)))
  <1>1. /\ id \in Seqs /\ status[id] = "Running" /\ pend[id] = <<>> /\ Rows(id) /\ Pending(id)
        /\ ~ Committed(id)
        /\ Context(id) \in Contexts /\ Context(id) \in Seq(Tokens) /\ Len(Context(id)) \in Nat \ {0}
    BY ScannedSequence
  <1>2. ctx \in [Seqs -> Contexts] /\ block_table \in [Seqs -> Seq(Blocks)]
    BY PoolTypes DEF EInv
  <1>3. CASE UNCHANGED poolVars
    <2>1. /\ ctx' = ctx /\ block_table' = block_table /\ pend' = pend /\ written' = written
          /\ ref_count' = ref_count
      BY <1>3 DEF poolVars
    <2>2. P!StoreInv' /\ (P!RowInv => P!RowInv')
      BY <1>3, PoolKept DEF EInv
    <2>3. RowsToExtend(id, ctx[id])
      <3>1. ctx[id] \in Seq(Tokens) /\ Len(ctx[id]) \in Nat
        BY <1>1, <1>2, ContextTypes
      <3>2. QED
        BY <1>1, <3>1 DEF RowsToExtend, Rows
    <2>4. Len(block_table[id]) \in Nat /\ Len(block_table[id]) <= P!BlocksFor(Len(Context(id)))
      BY <1>1, <1>2 DEF Pending
    <2>5. P!Free' = P!Free
      BY <2>1 DEF P!Free
    <2>6. QED
      BY <2>1, <2>2, <2>3, <2>4, <2>5
  <1>4. CASE fresh /\ Pool!AcquireSharedPrefix(id, Shareable(Context(id)))
    <2>1. PICK c, l, share : c = Context(id) /\ l = Len(c) /\ share = Shareable(c)
      OBVIOUS
    <2>2. c \in Contexts /\ l \in Nat \ {0} /\ c \in Seq(Tokens)
      BY <1>1, <2>1
    <2>3. PICK n \in Nat : /\ n < l /\ n \in 0..l /\ share = SubSeq(c, 1, n) /\ share \in Contexts
                           /\ Len(share) = n
      BY <2>1, <2>2, ShareablePart
    <2>4. P!AcquireSharedPrefix(id, share)
      BY <1>4, <2>1, SameAcquire
    <2>5. P!StoreInv' /\ (P!NoCollision /\ P!RowInv => P!RowInv')
      BY <1>1, <2>3, <2>4, SamePool, P!AcquireInv DEF EInv, Contexts
    <2>6. PICK m \in Nat : /\ P!Free' = P!Free
                           /\ m * BlockSize \in 0..Len(share)
                           /\ ctx' = [ctx EXCEPT ![id] = SubSeq(share, 1, m * BlockSize)]
                           /\ Len(block_table'[id]) = m
                           /\ \A t \in Seqs : t # id => block_table'[t] = block_table[t]
                           /\ UNCHANGED <<pend, written>>
      BY <1>1, <2>3, <2>4, SamePool, P!AcquireKeepsFree DEF EInv, Contexts
    <2>7. PICK k : k = m * BlockSize
      OBVIOUS
    <2>8. k \in 0..n
      BY <2>3, <2>6, <2>7
    <2>9. ctx'[id] = SubSeq(share, 1, k) /\ \A t \in Seqs : t # id => ctx'[t] = ctx[t]
      BY <1>1, <1>2, <2>6, <2>7
    <2>10. ctx'[id] = SubSeq(c, 1, k)
      <3>1. n \in 0..Len(c)
        BY <2>1, <2>3
      <3>2. SubSeq(SubSeq(c, 1, n), 1, k) = SubSeq(c, 1, k)
        BY <2>2, <2>8, <3>1, SamePool, P!PrefixTwice
      <3>3. QED
        BY <2>3, <2>9, <3>2
    <2>11. k \in Nat /\ k < l /\ k <= l
      BY <2>2, <2>3, <2>8
    <2>12. RowsToExtend(id, ctx'[id])
      <3>1. k \in 0..Len(c)
        BY <2>1, <2>2, <2>11
      <3>2. SubSeq(c, 1, k) \in Contexts
        BY <2>2, <3>1, SamePool, P!PrefixContext DEF Contexts
      <3>3. SubSeq(c, 1, k) \in Seq(Tokens)
        BY <3>2, ContextTypes
      <3>4. ~ prefilled[id]
        BY <1>4
      <3>5. k < Len(Context(id)) /\ ctx'[id] = SubSeq(Context(id), 1, k)
        BY <2>1, <2>10, <2>11
      <3>6. QED
        BY <2>10, <2>11, <3>3, <3>4, <3>5 DEF RowsToExtend
    <2>13. m <= P!BlocksFor(l)
      <3>1. m * BlockSize <= l
        BY <2>7, <2>11
      <3>2. l \in Nat
        BY <2>2
      <3>3. QED
        BY <3>1, <3>2, WholeBlocks
    <2>14. QED
      BY <2>1, <2>5, <2>6, <2>9, <2>12, <2>13
  <1>5. QED
    BY <1>3, <1>4

\* The assembly looks at one running sequence.
LEMMA AssembleInv ==
  ASSUME EInv, Assemble
  PROVE  EInv' /\ (Right => Right')
  <1> DEFINE fresh(id) == PrefixCache /\ ~ prefilled[id] /\ block_table[id] = <<>>
             item(id, tokens) == [id |-> id, tokens |-> tokens,
                                  register |-> IF PrefixCache /\ ~ prefilled[id]
                                               THEN Context(id) ELSE <<>>,
                                  seen |-> Junk]
  <1>1. PICK id, x, tokens, l, delta :
          /\ id = running[scan] /\ pc = "assemble" /\ scan <= Len(running)
          /\ IF fresh(id) /\ Shareable(Context(id)) # <<>>
             THEN Pool!AcquireSharedPrefix(id, Shareable(Context(id)))
             ELSE UNCHANGED poolVars
          /\ x = ctx'[id] /\ tokens = StepTokens(id, Len(x)) /\ l = Len(block_table'[id])
          /\ delta = Pool!BlocksFor(Len(x) + Len(tokens)) - l
          /\ IF ~ Affordable(delta) THEN UNCHANGED <<budget, items>>
             ELSE budget' = Remaining(delta) /\ items' = Append(items, item(id, tokens))
          /\ scan' = scan + 1
          /\ UNCHANGED <<seqVars, waiting, running, next_id, pc>>
    BY DEF Assemble
  <1>2. /\ status' = status /\ request' = request /\ output' = output /\ prefilled' = prefilled
        /\ waiting' = waiting /\ running' = running /\ next_id' = next_id /\ pc' = pc
    BY <1>1 DEF seqVars
  <1>3. /\ id \in Seqs /\ scan \in DOMAIN running /\ scan \in Nat \ {0} /\ status[id] = "Running"
        /\ \A k \in DOMAIN items : items[k].id # id
        /\ \A k \in DOMAIN items : \E j \in DOMAIN running : j < scan /\ items[k].id = running[j]
        /\ pend[id] = <<>> /\ ~ written[id] /\ Rows(id) /\ Pending(id)
        /\ \A q : ~ Committed(q) /\ ~ Reserved(q) /\ ~ Written(q)
        /\ Context(id) \in Contexts /\ Len(Context(id)) \in Nat \ {0}
    BY <1>1, ScannedSequence
  <1>4. /\ P!StoreInv' /\ (P!NoCollision /\ P!RowInv => P!RowInv')
        /\ P!Free' = P!Free /\ pend' = pend /\ written' = written
        /\ \A q \in Seqs : q # id => block_table'[q] = block_table[q] /\ ctx'[q] = ctx[q]
        /\ RowsToExtend(id, x) /\ l \in Nat /\ l <= P!BlocksFor(Len(Context(id)))
    <2>1. PICK new : new = fresh(id)
      OBVIOUS
    <2>2. new => ~ prefilled[id]
      BY <2>1
    <2> HIDE DEF fresh, item
    <2>3. IF new /\ Shareable(Context(id)) # <<>>
          THEN Pool!AcquireSharedPrefix(id, Shareable(Context(id)))
          ELSE UNCHANGED poolVars
      BY <1>1, <2>1, Zenon
    <2>4. /\ P!StoreInv' /\ (P!NoCollision /\ P!RowInv => P!RowInv')
          /\ P!Free' = P!Free /\ pend' = pend /\ written' = written
          /\ \A q \in Seqs : q # id => block_table'[q] = block_table[q] /\ ctx'[q] = ctx[q]
          /\ RowsToExtend(id, ctx'[id])
          /\ Len(block_table'[id]) \in Nat
          /\ Len(block_table'[id]) <= P!BlocksFor(Len(Context(id)))
      BY <1>1, <2>2, <2>3, AssemblePool
    <2>5. QED
      BY <1>1, <2>4
  <1> HIDE DEF fresh
  <1>5. /\ tokens \in Contexts /\ tokens # <<>> /\ x \o tokens = Context(id)
        /\ Len(x) + Len(tokens) = Len(Context(id))
    BY <1>1, <1>3, <1>4, StepTokensComplete DEF EInv
  <1>6. PICK n \in Nat : n = Len(Context(id))
    BY <1>3
  <1>7. P!BlocksFor(n) \in Nat
    BY SamePool, P!Covers
  <1>8. delta = P!BlocksFor(n) - l /\ delta \in Nat
    <2>1. delta = P!BlocksFor(n) - l
      <3>1. delta = Pool!BlocksFor(n) - l
        BY <1>1, <1>5, <1>6
      <3>2. QED
        BY <3>1, SameHelpers
    <2>2. l <= P!BlocksFor(n)
      BY <1>4, <1>6
    <2>3. QED
      BY <1>4, <1>7, <2>1, <2>2
  <1>9. \A q : Context(q)' = Context(q)
    BY <1>2 DEF Context
  <1>10. NumFree' = NumFree /\ NumFree \in Nat
    <2>1. NumFree = P!Cardinality(P!Free) /\ NumFree \in Nat
      BY FreeIsCounted DEF EInv
    <2>2. Pool!Free' = P!Free'
      BY DEF Pool!Free, P!Free
    <2>3. NumFree' = P!Cardinality(P!Free')
      BY <2>2, SameCount DEF NumFree
    <2>4. QED
      BY <1>4, <2>1, <2>3
  <1>11. item(id, tokens) \in Item
    <2>1. PrefixCache \in BOOLEAN
      BY PrefixCacheAssumption
    <2>2. QED
      BY <1>3, <1>5, EmptyInContexts DEF Item
  <1>12. /\ item(id, tokens).id = id /\ item(id, tokens).tokens = tokens
         /\ item(id, tokens).register \in {<<>>, Context(id)}
    OBVIOUS
  <1>13. PICK new : new = item(id, tokens)
    OBVIOUS
  <1> HIDE DEF item
  <1>14. items \in Seq(Item) /\ budget \in Int
    BY DEF EInv, Shape
  <1>15. PICK len : len = Len(items) /\ len \in Nat /\ DOMAIN items = 1..len
    BY <1>14
  <1>16. /\ Affordable(delta) =>
              /\ items' \in Seq(Item) /\ Len(items') = len + 1 /\ DOMAIN items' = 1..(len + 1)
              /\ \A k \in 1..len : items'[k] = items[k]
              /\ items'[len + 1] = new
         /\ ~ Affordable(delta) => items' = items /\ budget' = budget
    <2>1. Affordable(delta) => items' = Append(items, new)
      BY <1>1, <1>13
    <2>2. new \in Item
      BY <1>11, <1>13
    <2>3. /\ Append(items, new) \in Seq(Item) /\ Len(Append(items, new)) = len + 1
          /\ DOMAIN Append(items, new) = 1..(len + 1)
          /\ \A k \in 1..len : Append(items, new)[k] = items[k]
          /\ Append(items, new)[len + 1] = new
      BY <1>14, <1>15, <2>2
    <2>4. ~ Affordable(delta) => items' = items /\ budget' = budget
      BY <1>1
    <2>5. QED
      BY <2>1, <2>3, <2>4
  <1>17. Affordable(delta) => budget' = budget - delta /\ delta <= budget
    BY <1>1 DEF Remaining, Affordable
  <1>18. Shape'
    <2>1. items' \in Seq(Item)
      BY <1>14, <1>16
    <2>2. budget' \in Int
      BY <1>8, <1>14, <1>16, <1>17
    <2>3. scan' \in Nat \ {0}
      BY <1>1, <1>3
    <2>4. QED
      BY <1>1, <1>2, <2>1, <2>2, <2>3 DEF EInv, Shape
  <1>19. Lives'
    <2>1. ASSUME NEW q \in Seqs PROVE Life(q)'
      <3>1. Life(q)
        BY DEF EInv, Lives
      <3>2. CASE q = id
        BY <1>2, <1>3, <3>1, <3>2 DEF Life
      <3>3. CASE q # id
        BY <1>2, <1>4, <3>1, <3>3 DEF Life
      <3>4. QED
        BY <3>2, <3>3
    <2>2. QED
      BY <2>1 DEF Lives
  <1>20. Queues'
    BY <1>1, <1>2 DEF EInv, Queues
  <1>21. ASSUME NEW k \in DOMAIN items
         PROVE  /\ k \in DOMAIN items' /\ items'[k] = items[k] /\ ItemOk(k)'
                /\ items[k].id \in Seqs /\ items[k].id # id
    <2>1. k \in DOMAIN items' /\ items'[k] = items[k]
      BY <1>15, <1>16
    <2>2. PICK q, i : q = i.id /\ i = items[k] /\ i = items'[k]
      BY <2>1
    <2>3. q \in Seqs /\ q # id
      BY <1>3, <2>2, ItemTypes DEF EInv
    <2>4. ItemOk(k)
      BY DEF EInv, Batch
    <2>5. \E j \in DOMAIN running : j < scan + 1 /\ q = running[j]
      <3>1. PICK j \in DOMAIN running : j < scan /\ q = running[j]
        BY <1>3, <2>2
      <3>2. j \in Nat
        BY DEF EInv, Shape
      <3>3. j < scan + 1
        BY <1>3, <3>1, <3>2
      <3>4. QED
        BY <3>1, <3>3
    <2>6. /\ status[q] = "Running" /\ i.register \in {<<>>, Context(q)}
          /\ i.tokens # <<>> /\ ctx[q] \o i.tokens = Context(q)
      BY <1>1, <2>2, <2>4 DEF ItemOk, Past
    <2>7. Context(q)' = Context(q) /\ ctx'[q] = ctx[q]
      BY <1>4, <1>9, <2>3
    <2>8. (Context(items[k].id))' = Context(q)
      BY <2>2, <2>7 DEF Context
    <2>9. ItemOk(k)'
      BY <1>1, <1>2, <2>2, <2>5, <2>6, <2>7, <2>8 DEF ItemOk
    <2>10. QED
      BY <2>1, <2>2, <2>3, <2>9
  <1>22. Batch'
    <2>1. CASE ~ Affordable(delta)
      BY <1>1, <1>2, <1>16, <1>21, <2>1 DEF EInv, Batch
    <2>2. CASE Affordable(delta)
      <3>1. DOMAIN items' = 1..(len + 1) /\ items'[len + 1] = new
        BY <1>16, <2>2
      <3>2. \A k \in 1..(len + 1) : k \in 1..len \/ k = len + 1
        BY <1>15
      <3>3. ItemOk(len + 1)'
        <4>1. PICK k : k = len + 1
          OBVIOUS
        <4>2. items'[k] = new
          BY <3>1, <4>1
        <4>3. scan < scan + 1 /\ id = running[scan] /\ scan \in DOMAIN running
          BY <1>1, <1>3
        <4>4. (Context(items[k].id))' = Context(id)
          <5>1. items'[k].id = id
            BY <1>12, <1>13, <4>2
          <5>2. Context(id)' = Context(id)
            BY <1>9
          <5>3. QED
            BY <5>1, <5>2 DEF Context
        <4>5. ItemOk(k)'
          BY <1>1, <1>2, <1>3, <1>5, <1>12, <1>13, <4>2, <4>3, <4>4 DEF ItemOk
        <4>6. QED
          BY <4>1, <4>5
      <3>4. \A k \in DOMAIN items' : ItemOk(k)'
        <4>1. \A k \in 1..len : ItemOk(k)'
          BY <1>15, <1>21
        <4>2. ASSUME NEW k, k \in 1..len \/ k = len + 1 PROVE ItemOk(k)'
          BY <3>3, <4>1, <4>2
        <4>3. QED
          BY <3>1, <3>2, <4>2
      <3>5. ASSUME NEW k \in DOMAIN items', NEW m \in DOMAIN items', items'[k].id = items'[m].id
            PROVE  k = m
        <4>1. (k \in 1..len \/ k = len + 1) /\ (m \in 1..len \/ m = len + 1)
          BY <3>1, <3>2
        <4>2. items'[len + 1].id = id /\ \A i \in 1..len : items'[i].id # id
          BY <1>12, <1>13, <1>15, <1>21, <3>1
        <4>3. CASE k \in 1..len /\ m \in 1..len
          BY <1>15, <1>21, <3>5, <4>3 DEF EInv, Batch
        <4>4. QED
          BY <3>5, <4>1, <4>2, <4>3
      <3>6. QED
        BY <1>1, <1>2, <3>4, <3>5 DEF Batch
    <2>3. QED
      BY <2>1, <2>2
  <1>23. Holdings'
    <2>1. \A q : ~ Committed(q)' /\ ~ Reserved(q)' /\ ~ Written(q)'
      BY <1>1, <1>2 DEF Committed, Reserved, Written, Past, Ahead
    <2>2. ASSUME NEW q \in Seqs, status'[q] = "Running", q # id PROVE Rows(q)' /\ Pending(q)'
      <3>1. Rows(q) /\ Pending(q)
        BY <1>2, <2>2 DEF EInv, Holdings
      <3>2. QED
        BY <1>1, <1>2, <1>3, <1>4, <1>9, <2>1, <2>2, <3>1, HoldingKept
    <2>3. Rows(id)'
      <3>1. CASE prefilled[id]
        BY <1>1, <1>2, <1>4, <1>9, <2>1, <3>1 DEF Rows, RowsToExtend
      <3>2. CASE ~ prefilled[id]
        <4>1. PICK c : c = Context(id)
          OBVIOUS
        <4>2. PICK m \in Nat : m < Len(c) /\ x = SubSeq(c, 1, m)
          BY <1>4, <3>2, <4>1 DEF RowsToExtend
        <4>3. c \in Seq(Tokens)
          BY <1>3, <4>1, ContextTypes
        <4>4. Len(SubSeq(c, 1, m)) = m
          BY <4>2, <4>3, SplitAt
        <4>5. x = SubSeq(c, 1, Len(x)) /\ Len(x) < Len(c)
          BY <4>2, <4>4
        <4>6. Context(id)' = c
          BY <1>9, <4>1
        <4>7. QED
          BY <1>1, <1>2, <2>1, <3>2, <4>5, <4>6 DEF Rows
      <3>3. QED
        BY <3>1, <3>2
    <2>4. Pending(id)'
      <3>1. (P!BlocksFor(Len(Context(id))))' = P!BlocksFor(Len(Context(id)))
        BY <1>9 DEF P!BlocksFor
      <3>2. QED
        BY <1>1, <1>3, <1>4, <2>1, <3>1 DEF Pending
    <2>5. QED
      BY <2>2, <2>3, <2>4 DEF Holdings
  <1>24. Fit'
    <2>1. PICK f : Sums(f) /\ budget >= 0 /\ f[Len(items)] - f[0] + budget = NumFree
      BY <1>1 DEF EInv, Fit
    <2>2. /\ f \in [0..len -> Int] /\ \A i, j \in 0..len : i <= j => f[i] <= f[j]
          /\ f[len] - f[0] + budget = NumFree
      BY <1>15, <2>1 DEF Sums
    <2>3. ASSUME NEW k \in 1..len PROVE f[k] = f[k - 1] + (Need(items[k].id))'
      <3>1. PICK q : q = items[k].id
        OBVIOUS
      <3>2. q \in Seqs /\ q # id /\ items'[k] = items[k]
        BY <1>15, <1>21, <3>1
      <3>3. Need(q)' = Need(q)
        BY <1>4, <1>9, <3>2 DEF Need, P!BlocksFor
      <3>4. (Need(items[k].id))' = Need(q)
        BY <3>1, <3>2, <3>3 DEF Need, Context
      <3>5. f[k] = f[k - 1] + Need(items[k].id)
        BY <1>1, <1>15, <2>1 DEF Sums, Past
      <3>6. QED
        BY <3>1, <3>4, <3>5
    <2>4. CASE ~ Affordable(delta)
      <3>1. Sums(f)'
        <4>1. items' = items
          BY <1>16, <2>4
        <4>2. QED
          BY <1>15, <2>2, <2>3, <4>1 DEF Sums
      <3>2. QED
        BY <1>1, <1>2, <1>10, <1>16, <2>1, <2>4, <3>1 DEF Fit
    <2>5. CASE Affordable(delta)
      <3> DEFINE g == [k \in 0..(len + 1) |-> IF k = len + 1 THEN f[len] + delta ELSE f[k]]
      <3>1. Len(items') = len + 1 /\ DOMAIN items' = 1..(len + 1) /\ items'[len + 1] = new
        BY <1>16, <2>5
      <3>2. 0 \in 0..len /\ len \in 0..len /\ f[len] \in Int /\ f[0] \in Int /\ delta \in Nat
        BY <1>8, <1>15, <2>2
      <3>3. g \in [0..(len + 1) -> Int]
        <4>1. ASSUME NEW k \in 0..(len + 1) PROVE g[k] \in Int
          <5>1. CASE k = len + 1
            BY <3>2, <5>1
          <5>2. CASE k # len + 1
            <6>1. k \in 0..len
              BY <1>15, <5>2
            <6>2. QED
              BY <2>2, <5>2, <6>1
          <5>3. QED
            BY <5>1, <5>2
        <4>2. QED
          BY <4>1
      <3>4. \A k \in 0..len : g[k] = f[k]
        BY <1>15
      <3>5. g[len + 1] = f[len] + delta /\ g[len] = f[len] /\ g[0] = f[0]
        BY <1>15, <3>2, <3>4
      <3> HIDE DEF g
      <3>6. (Need(items[len + 1].id))' = delta
        <4>1. PICK k : k = len + 1
          OBVIOUS
        <4>2. items'[k].id = id
          BY <1>12, <1>13, <3>1, <4>1
        <4>3. (Need(items[k].id))' = Need(id)'
          BY <4>2 DEF Need, Context
        <4>4. Need(id)' = P!BlocksFor(n) - l
          BY <1>1, <1>6, <1>9 DEF Need, P!BlocksFor
        <4>5. QED
          BY <1>8, <4>1, <4>3, <4>4
      <3>7. ASSUME NEW k \in 1..(len + 1) PROVE g[k] = g[k - 1] + (Need(items[k].id))'
        <4>1. CASE k = len + 1
          <5>1. (len + 1) - 1 = len
            BY <1>15
          <5>2. g[len + 1] = g[(len + 1) - 1] + (Need(items[len + 1].id))'
            BY <3>5, <3>6, <5>1
          <5>3. QED
            BY <4>1, <5>2
        <4>2. CASE k # len + 1
          <5>1. k \in 1..len /\ k \in 0..len /\ k - 1 \in 0..len
            BY <1>15, <4>2
          <5>2. QED
            BY <2>3, <3>4, <5>1
        <4>3. QED
          BY <4>1, <4>2
      <3>8. ASSUME NEW i \in 0..(len + 1), NEW j \in 0..(len + 1), i <= j PROVE g[i] <= g[j]
        <4>1. CASE j = len + 1 /\ i = len + 1
          BY <3>3, <4>1
        <4>2. CASE j = len + 1 /\ i # len + 1
          <5>1. i \in 0..len /\ i <= len
            BY <1>15, <4>2
          <5>2. f[i] <= f[len] /\ f[i] \in Int
            BY <2>2, <3>2, <5>1
          <5>3. PICK a, b : a = f[i] /\ b = f[len]
            OBVIOUS
          <5>4. a <= b + delta
            BY <3>2, <5>2, <5>3
          <5>5. g[i] = a /\ g[j] = b + delta
            BY <3>4, <3>5, <4>2, <5>1, <5>3
          <5>6. QED
            BY <5>4, <5>5
        <4>3. CASE j # len + 1
          <5>1. i \in 0..len /\ j \in 0..len
            BY <1>15, <3>8, <4>3
          <5>2. QED
            BY <2>2, <3>4, <3>8, <5>1
        <4>4. QED
          BY <4>1, <4>2, <4>3
      <3>9. Sums(g)'
        BY <3>1, <3>3, <3>7, <3>8 DEF Sums
      <3>10. budget' >= 0 /\ g[len + 1] - g[0] + budget' = NumFree'
        <4>1. PICK a, b, c, d : a = f[len] /\ b = f[0] /\ c = budget /\ d = NumFree
          OBVIOUS
        <4>2. a \in Int /\ b \in Int /\ c \in Int /\ d \in Nat /\ a - b + c = d
          BY <1>10, <1>14, <2>2, <3>2, <4>1
        <4>3. budget' = c - delta /\ delta <= c
          BY <1>17, <2>5, <4>1
        <4>4. c - delta >= 0 /\ (a + delta) - b + (c - delta) = d
          BY <3>2, <4>2, <4>3
        <4>5. g[len + 1] = a + delta /\ g[0] = b
          BY <3>5, <4>1
        <4>6. QED
          BY <1>10, <4>1, <4>3, <4>4, <4>5
      <3>11. QED
        BY <1>1, <1>2, <3>1, <3>9, <3>10 DEF Fit
    <2>6. QED
      BY <2>4, <2>5
  <1>25. Seen'
    BY <1>1, <1>2 DEF Seen, Past, Ahead
  <1>26. QED
    BY <1>4, <1>18, <1>19, <1>20, <1>22, <1>23, <1>24, <1>25 DEF EInv, Right, P!NoCollision

-----------------------------------------------------------------------------
(* Preemption. *)

\* The entries of two queues.
LEMMA ConcatEntries ==
  ASSUME NEW T, NEW p \in Seq(T), NEW q \in Seq(T)
  PROVE  p \o q \in Seq(T) /\ Entries(p \o q) = Entries(p) \cup Entries(q)
  <1>0. PICK m, n : m = Len(p) /\ n = Len(q)
    OBVIOUS
  <1>1. m \in Nat /\ n \in Nat
    BY <1>0
  <1>2. /\ p \o q \in Seq(T) /\ DOMAIN p = 1..m /\ DOMAIN q = 1..n
        /\ DOMAIN (p \o q) = 1..(m + n)
        /\ \A k \in 1..m : (p \o q)[k] = p[k]
        /\ \A k \in 1..n : (p \o q)[m + k] = q[k]
    BY <1>0, <1>1
  <1>3. PICK r : r = p \o q
    OBVIOUS
  <1>4. ASSUME NEW k \in 1..(m + n) PROVE r[k] \in Entries(p) \cup Entries(q)
    <2>1. CASE k <= m
      <3>1. k \in 1..m
        BY <1>1, <2>1
      <3>2. QED
        BY <1>2, <1>3, <3>1 DEF Entries
    <2>2. CASE ~ (k <= m)
      <3>1. k - m \in 1..n /\ m + (k - m) = k
        BY <1>1, <2>2
      <3>2. r[k] = q[k - m]
        BY <1>2, <1>3, <3>1
      <3>3. QED
        BY <1>2, <3>1, <3>2 DEF Entries
    <2>3. QED
      BY <2>1, <2>2
  <1>5. ASSUME NEW k \in 1..m PROVE p[k] \in Entries(r)
    <2>1. k \in 1..(m + n)
      BY <1>1
    <2>2. QED
      BY <1>2, <1>3, <2>1 DEF Entries
  <1>6. ASSUME NEW k \in 1..n PROVE q[k] \in Entries(r)
    <2>1. m + k \in 1..(m + n)
      BY <1>1
    <2>2. QED
      BY <1>2, <1>3, <2>1 DEF Entries
  <1>7. Entries(r) = Entries(p) \cup Entries(q)
    <2>1. DOMAIN r = 1..(m + n) /\ DOMAIN p = 1..m /\ DOMAIN q = 1..n
      BY <1>2, <1>3
    <2>2. Entries(r) \subseteq Entries(p) \cup Entries(q)
      <3>1. ASSUME NEW e \in Entries(r) PROVE e \in Entries(p) \cup Entries(q)
        <4>1. PICK k \in 1..(m + n) : e = r[k]
          BY <2>1 DEF Entries
        <4>2. QED
          BY <1>4, <4>1
      <3>2. QED
        BY <3>1
    <2>3. ASSUME NEW e, e \in Entries(p) \cup Entries(q) PROVE e \in Entries(r)
      <3>1. (\E k \in 1..m : e = p[k]) \/ (\E k \in 1..n : e = q[k])
        BY <2>1, <2>3 DEF Entries
      <3>2. QED
        BY <1>5, <1>6, <3>1
    <2>4. QED
      BY <2>2, <2>3
  <1>8. QED
    BY <1>2, <1>3, <1>7

\* Places before and after the one at i.
LEMMA AroundPlace ==
  ASSUME NEW l \in Nat, NEW i \in Nat \ {0}, i <= l
  PROVE  /\ \A m : m = i + 1 => l - m + 1 = l - i /\ \A k \in Int : m + k - 1 = i + k
         /\ \A j \in 1..(i - 1), k \in 1..(l - i) : j \in 1..l /\ i + k \in 1..l /\ j # i + k
  OBVIOUS

\* The one at i leaves the queue.
LEMMA RemoveQueue ==
  ASSUME NEW T, NEW q \in Seq(T), NEW i \in DOMAIN q, Injective(q),
         NEW r, r = SubSeq(q, 1, i - 1) \o SubSeq(q, i + 1, Len(q))
  PROVE  r \in Seq(T) /\ Injective(r) /\ Entries(r) = Entries(q) \ {q[i]}
  <1>1. PICK l : l = Len(q) /\ l \in Nat /\ DOMAIN q = 1..l
    OBVIOUS
  <1>2. i \in 1..l /\ i \in Nat \ {0} /\ \A k \in 1..l : q[k] \in T
    BY <1>1
  <1>2a. l \in Nat /\ i \in Nat \ {0} /\ i <= l
    BY <1>1, <1>2
  <1>2b. /\ \A m : m = i + 1 => l - m + 1 = l - i /\ \A k \in Int : m + k - 1 = i + k
        /\ \A j \in 1..(i - 1), k \in 1..(l - i) : j \in 1..l /\ i + k \in 1..l /\ j # i + k
    BY <1>2a, AroundPlace
  <1>3. PICK a, b : a = SubSeq(q, 1, i - 1) /\ b = SubSeq(q, i + 1, l)
    OBVIOUS
  <1>4. /\ a \in Seq(T) /\ DOMAIN a = 1..(i - 1) /\ \A k \in 1..(i - 1) : a[k] = q[k]
    <2>1. \A k \in 1..(i - 1) : q[k] \in T
      BY <1>2
    <2>2. /\ SubSeq(q, 1, i - 1) \in Seq(T) /\ Len(SubSeq(q, 1, i - 1)) = i - 1
          /\ \A k \in 1..(i - 1) : SubSeq(q, 1, i - 1)[k] = q[k]
      BY <1>1, <1>2
    <2>3. QED
      BY <1>3, <2>2
  <1>5. /\ b \in Seq(T) /\ DOMAIN b = 1..(l - i) /\ \A k \in 1..(l - i) : b[k] = q[i + k]
    <2>1. PICK m : m = i + 1
      OBVIOUS
    <2>2. m \in Nat /\ l \in Nat /\ m <= l + 1 /\ \A k \in m..l : q[k] \in T
      BY <1>1, <1>2, <2>1
    <2>3. /\ SubSeq(q, m, l) \in Seq(T) /\ Len(SubSeq(q, m, l)) = l - m + 1
          /\ \A k \in 1..(l - m + 1) : SubSeq(q, m, l)[k] = q[m + k - 1]
      <3>1. m \in Int /\ l \in Int /\ (IF m <= l THEN l - m + 1 ELSE 0) = l - m + 1
        BY <2>2
      <3>2. /\ SubSeq(q, m, l) \in Seq(T)
            /\ Len(SubSeq(q, m, l)) = IF m <= l THEN l - m + 1 ELSE 0
            /\ \A k \in 1..(l - m + 1) : SubSeq(q, m, l)[k] = q[m + k - 1]
        BY <2>2, <3>1, SubSeqProperties
      <3>3. QED
        BY <3>1, <3>2
    <2>4. l - m + 1 = l - i /\ \A k \in Int : m + k - 1 = i + k
      BY <1>2b, <2>1, Zenon
    <2>5. \A k \in 1..(l - i) : m + k - 1 = i + k
      BY <2>4
    <2>6. b = SubSeq(q, m, l)
      BY <1>3, <2>1
    <2>7. DOMAIN b = 1..(l - i)
      BY <2>3, <2>4, <2>6
    <2>8. QED
      BY <2>3, <2>4, <2>5, <2>6, <2>7
  <1>6. \A j, k \in 1..l : q[j] = q[k] => j = k
    BY <1>1 DEF Injective
  <1>7. Injective(a)
    <2>1. \A j \in 1..(i - 1) : j \in 1..l
      BY <1>1, <1>2
    <2>2. QED
      BY <1>4, <1>6, <2>1 DEF Injective
  <1>8. Injective(b)
    <2>1. ASSUME NEW j \in 1..(l - i), NEW k \in 1..(l - i), b[j] = b[k] PROVE j = k
      <3>1. i + j \in 1..l /\ i + k \in 1..l
        BY <1>1, <1>2
      <3>2. i + j = i + k
        BY <1>5, <1>6, <2>1, <3>1
      <3>3. QED
        BY <1>2, <3>2
    <2>2. QED
      BY <1>5, <2>1 DEF Injective
  <1>9. Entries(a) \cap Entries(b) = {}
    <2>1. ASSUME NEW j \in 1..(i - 1), NEW k \in 1..(l - i) PROVE a[j] # b[k]
      <3>1. j \in 1..l /\ i + k \in 1..l /\ j # i + k
        BY <1>2b, Zenon
      <3>2. q[j] # q[i + k]
        BY <1>6, <3>1
      <3>3. QED
        BY <1>4, <1>5, <3>2
    <2>2. QED
      BY <1>4, <1>5, <2>1 DEF Entries
  <1>10. Entries(a) \cup Entries(b) = Entries(q) \ {q[i]}
    <2>1. ASSUME NEW j \in 1..(i - 1) PROVE a[j] \in Entries(q) \ {q[i]}
      <3>1. j \in 1..l /\ j # i
        BY <1>1, <1>2
      <3>2. QED
        BY <1>1, <1>2, <1>4, <1>6, <3>1 DEF Entries
    <2>2. ASSUME NEW j \in 1..(l - i) PROVE b[j] \in Entries(q) \ {q[i]}
      <3>1. i + j \in 1..l /\ i + j # i
        BY <1>1, <1>2
      <3>2. QED
        BY <1>1, <1>2, <1>5, <1>6, <3>1 DEF Entries
    <2>3. ASSUME NEW j \in 1..l, j # i PROVE q[j] \in Entries(a) \cup Entries(b)
      <3>1. CASE j < i
        <4>1. j \in 1..(i - 1)
          BY <1>1, <1>2, <3>1
        <4>2. QED
          BY <1>4, <4>1 DEF Entries
      <3>2. CASE ~ (j < i)
        <4>1. j - i \in 1..(l - i) /\ i + (j - i) = j
          BY <1>1, <1>2, <2>3, <3>2
        <4>2. b[j - i] = q[j]
          BY <1>5, <4>1
        <4>3. QED
          BY <1>5, <4>1, <4>2 DEF Entries
      <3>3. QED
        BY <3>1, <3>2
    <2>4. ASSUME NEW e, e \in Entries(a) \cup Entries(b) PROVE e \in Entries(q) \ {q[i]}
      <3>1. (\E j \in 1..(i - 1) : e = a[j]) \/ (\E j \in 1..(l - i) : e = b[j])
        BY <1>4, <1>5, <2>4 DEF Entries
      <3>2. QED
        BY <2>1, <2>2, <3>1
    <2>5. ASSUME NEW e \in Entries(q), e # q[i] PROVE e \in Entries(a) \cup Entries(b)
      <3>1. PICK j \in 1..l : e = q[j]
        BY <1>1 DEF Entries
      <3>2. QED
        BY <2>3, <2>5, <3>1
    <2>6. QED
      BY <2>4, <2>5
  <1>11. /\ a \o b \in Seq(T) /\ Entries(a \o b) = Entries(a) \cup Entries(b)
         /\ Injective(a \o b)
    BY <1>4, <1>5, <1>7, <1>8, <1>9, ConcatEntries, DistinctConcat
  <1>12. r = a \o b
    BY <1>1, <1>3
  <1>13. QED
    BY <1>10, <1>11, <1>12

\* A preempted sequence goes to the head of the queue.
LEMMA PushQueue ==
  ASSUME NEW T, NEW q \in Seq(T), NEW x \in T, Injective(q), x \notin Entries(q)
  PROVE  /\ <<x>> \o q \in Seq(T) /\ Injective(<<x>> \o q)
         /\ Entries(<<x>> \o q) = {x} \cup Entries(q)
  <1>1. PICK p : p = <<x>>
    OBVIOUS
  <1>2. p \in Seq(T) /\ DOMAIN p = 1..1 /\ p[1] = x
    BY <1>1
  <1>3. Injective(p) /\ Entries(p) = {x}
    BY <1>2 DEF Injective, Entries
  <1>4. Entries(p) \cap Entries(q) = {}
    BY <1>3
  <1>5. p \o q \in Seq(T) /\ Injective(p \o q) /\ Entries(p \o q) = {x} \cup Entries(q)
    BY <1>2, <1>3, <1>4, ConcatEntries, DistinctConcat
  <1>6. QED
    BY <1>1, <1>5

\* The youngest sequence that holds blocks gives them up and waits again.
LEMMA PreemptInv ==
  ASSUME EInv, Preempt
  PROVE  EInv' /\ (Right => Right')
  <1>1. PICK i \in DOMAIN running :
          /\ Pool!FreeSeq(running[i])
          /\ prefilled' = [prefilled EXCEPT ![running[i]] = FALSE]
          /\ status' = [status EXCEPT ![running[i]] = "Waiting"]
          /\ running' = SubSeq(running, 1, i - 1) \o SubSeq(running, i + 1, Len(running))
          /\ waiting' = <<running[i]>> \o waiting
    BY DEF Preempt, HolderPositions
  <1>2. /\ pc = "assemble" /\ items = <<>> /\ scan' = 1 /\ items' = <<>> /\ budget' = NumFree'
        /\ request' = request /\ output' = output /\ next_id' = next_id /\ pc' = pc
    BY DEF Preempt
  <1>3. PICK id : id = running[i]
    OBVIOUS
  <1>4. /\ waiting \in Seq(Seqs) /\ running \in Seq(Seqs) /\ Injective(waiting) /\ Injective(running)
        /\ id \in Seqs /\ id \in Entries(running)
    <2>1. /\ waiting \in Seq(Seqs) /\ running \in Seq(Seqs) /\ Injective(waiting) /\ Injective(running)
      BY DEF EInv, Shape, Queues
    <2>2. QED
      BY <1>3, <2>1 DEF Entries
  <1>5. status[id] = "Running"
    BY <1>2, <1>4 DEF EInv, Queues
  <1>6. id \notin Entries(waiting)
    BY <1>4, <1>5 DEF EInv, Queues
  <1>7. /\ running' \in Seq(Seqs) /\ Injective(running') /\ Entries(running') = Entries(running) \ {id}
    BY <1>1, <1>3, <1>4, RemoveQueue
  <1>8. /\ waiting' \in Seq(Seqs) /\ Injective(waiting') /\ Entries(waiting') = {id} \cup Entries(waiting)
    BY <1>1, <1>3, <1>4, <1>6, PushQueue
  <1>9. P!FreeSeq(id)
    BY <1>1, <1>3, SameFreeSeq
  <1>10. P!StoreInv' /\ (P!RowInv => P!RowInv')
    BY <1>4, <1>9, SamePool, P!FreeSeqInv DEF EInv
  <1>11. /\ block_table'[id] = <<>> /\ ctx'[id] = <<>> /\ pend'[id] = <<>>
         /\ \A q \in Seqs : q # id => /\ block_table'[q] = block_table[q] /\ ctx'[q] = ctx[q]
                                      /\ pend'[q] = pend[q] /\ written'[q] = written[q]
    <2>1. /\ block_table' = [block_table EXCEPT ![id] = <<>>] /\ ctx' = [ctx EXCEPT ![id] = <<>>]
          /\ pend' = [pend EXCEPT ![id] = <<>>] /\ written' = [written EXCEPT ![id] = FALSE]
      BY <1>9 DEF P!FreeSeq
    <2>2. QED
      BY <1>4, <2>1, PoolTypes DEF EInv
  <1>12. /\ status'[id] = "Waiting" /\ ~ prefilled'[id]
         /\ \A q \in Seqs : q # id => status'[q] = status[q] /\ prefilled'[q] = prefilled[q]
    BY <1>1, <1>3, <1>4 DEF EInv, Shape
  <1>13. NumFree' \in Nat
    <2>1. Pool!Free' \subseteq Blocks /\ IsFiniteSet(Blocks)
      BY PoolAssumption DEF Pool!Free
    <2>2. QED
      BY <2>1, FS_Subset, FS_CardinalityType DEF NumFree
  <1>14. Shape'
    <2>1. status' \in [Seqs -> {"Waiting", "Running", "Finished"}] /\ prefilled' \in [Seqs -> BOOLEAN]
      BY <1>1 DEF EInv, Shape
    <2>2. QED
      BY <1>2, <1>7, <1>8, <1>13, <2>1 DEF EInv, Shape
  <1>15. Lives'
    <2>1. ASSUME NEW q \in Seqs PROVE Life(q)'
      <3>1. Life(q)
        BY DEF EInv, Lives
      <3>2. CASE q = id
        <4>1. ~ (id >= next_id)
          BY <1>5, <3>1, <3>2 DEF Life
        <4>2. QED
          BY <1>2, <1>5, <1>11, <1>12, <3>1, <3>2, <4>1 DEF Life
      <3>3. CASE q # id
        BY <1>2, <1>11, <1>12, <3>1, <3>3 DEF Life
      <3>4. QED
        BY <3>2, <3>3
    <2>2. QED
      BY <2>1 DEF Lives
  <1>16. Queues'
    <2>1. id < next_id
      BY <1>4, <1>5, RunningContext DEF EInv
    <2>2. ASSUME NEW q \in Seqs
          PROVE  /\ q \in Entries(waiting') <=> q < next_id /\ status'[q] = "Waiting"
                 /\ q \in Entries(running') <=> status'[q] = "Running"
      <3>1. /\ q \in Entries(waiting) <=> q < next_id /\ status[q] = "Waiting"
            /\ q \in Entries(running) <=> status[q] = "Running"
        BY <1>2 DEF EInv, Queues
      <3>2. CASE q = id
        BY <1>7, <1>8, <1>12, <2>1, <3>2
      <3>3. CASE q # id
        BY <1>7, <1>8, <1>12, <3>1, <3>3
      <3>4. QED
        BY <3>2, <3>3
    <2>3. QED
      BY <1>2, <1>7, <1>8, <2>2 DEF Queues
  <1>17. Batch' /\ Seen'
    BY <1>2 DEF Batch, Seen
  <1>18. Holdings'
    <2>1. \A q : /\ ~ Committed(q)' /\ ~ Committed(q) /\ ~ Written(q)' /\ ~ Written(q)
                 /\ ~ Reserved(q)' /\ ~ Reserved(q) /\ Context(q)' = Context(q)
      BY <1>2 DEF Committed, Written, Reserved, Context
    <2>2. ASSUME NEW q \in Seqs, status'[q] = "Running" PROVE Rows(q)' /\ Pending(q)'
      <3>1. q # id /\ status[q] = "Running"
        BY <1>12, <2>2
      <3>2. Rows(q) /\ Pending(q)
        BY <3>1 DEF EInv, Holdings
      <3>3. QED
        BY <1>2, <1>11, <1>12, <2>1, <3>1, <3>2, HoldingKept
    <2>3. QED
      BY <2>2 DEF Holdings
  <1>19. Fit'
    <2> DEFINE f == [k \in 0..0 |-> 0]
    <2>1. Len(items') = 0 /\ DOMAIN items' = {}
      BY <1>2
    <2>2. Sums(f)'
      BY <2>1 DEF Sums
    <2>3. budget' >= 0 /\ f[Len(items')] - f[0] + budget' = NumFree'
      <3>1. PICK n \in Nat : n = NumFree'
        BY <1>13
      <3>2. f[Len(items')] - f[0] + n = n /\ n >= 0
        BY <2>1
      <3>3. QED
        BY <1>2, <3>1, <3>2
    <2> HIDE DEF f
    <2>4. QED
      BY <1>2, <2>2, <2>3 DEF Fit
  <1>20. QED
    BY <1>10, <1>14, <1>15, <1>16, <1>17, <1>18, <1>19 DEF EInv, Right, P!NoCollision

-----------------------------------------------------------------------------
(* The invariant. *)

\* Every step keeps the invariant.
LEMMA NextInv ==
  ASSUME EInv, [Next]_vars
  PROVE  EInv' /\ (Right => Right')
  <1>1. CASE UNCHANGED vars
    BY <1>1, StutterInv
  <1>2. ASSUME NEW r \in RequestKinds, AddRequest(r) PROVE EInv' /\ (Right => Right')
    BY <1>2, AddRequestInv
  <1>3. CASE BeginStep
    BY <1>3, BeginStepInv
  <1>4. CASE Admit
    BY <1>4, AdmitInv
  <1>5. CASE BeginAssembly
    BY <1>5, BeginAssemblyInv
  <1>6. CASE Assemble
    BY <1>6, AssembleInv
  <1>7. CASE Preempt
    BY <1>7, PreemptInv
  <1>8. CASE GiveUp
    BY <1>8, GiveUpInv
  <1>9. CASE BeginForward
    BY <1>9, BeginForwardInv
  <1>10. CASE ForwardReserve
    BY <1>10, ForwardReserveInv
  <1>11. CASE Embed
    BY <1>11, EmbedInv
  <1>12. CASE Abort
    BY <1>12, AbortInv
  <1>13. CASE ForwardWrite
    BY <1>13, ForwardWriteInv
  <1>14. CASE BeginCommit
    BY <1>14, BeginCommitInv
  <1>15. CASE ForwardCommit
    BY <1>15, ForwardCommitInv
  <1>16. CASE BeginSampling
    BY <1>16, BeginSamplingInv
  <1>17. CASE SampleItem
    BY <1>17, SampleItemInv
  <1>18. CASE Retire
    BY <1>18, RetireInv
  <1>19. CASE Done
    BY <1>19, StutterInv DEF Done
  <1>20. QED
    BY <1>1, <1>2, <1>3, <1>4, <1>5, <1>6, <1>7, <1>8, <1>9, <1>10, <1>11, <1>12, <1>13,
       <1>14, <1>15, <1>16, <1>17, <1>18, <1>19 DEF Next, StepNext

\* The invariant holds of every behaviour.
LEMMA Invariant == Spec => [](EInv /\ Right)
  <1> DEFINE Both == EInv /\ Right
  <1>1. Init => Both
    BY InitInv
  <1>2. Both /\ [Next]_vars => Both'
    BY NextInv
  <1> HIDE DEF Both
  <1>3. Spec => []Both
    BY <1>1, <1>2, PTL DEF Spec
  <1>4. QED
    BY <1>3 DEF Both

-----------------------------------------------------------------------------
(* The theorems. *)

\* A request is in the queue its status says, and in it once, through admission,
\* preemption to the head of the waiting queue, and the removal of finished ones.
THEOREM EngineQueues == Spec => []QueuesExact
  <1>1. ASSUME EInv PROVE QueuesExact
    <2>1. /\ waiting \in Seq(Seqs) /\ running \in Seq(Seqs)
          /\ Injective(waiting) /\ Injective(running)
      BY <1>1 DEF EInv, Shape, Queues
    <2>2. ASSUME NEW id \in Seqs
          PROVE  /\ id \in Entries(waiting) <=> id < next_id /\ status[id] = "Waiting"
                 /\ id \in Entries(running) <=>
                      \/ status[id] = "Running"
                      \/ status[id] = "Finished" /\ pc = "sample" /\ id \in Batched
      BY <1>1 DEF EInv, Queues
    <2>3. Entries(waiting) \cap Entries(running) = {}
      <3>1. Entries(waiting) \subseteq Seqs
        BY <2>1, EntriesIn
      <3>2. QED
        BY <2>2, <3>1
    <2>4. Injective(waiting \o running)
      BY <2>1, <2>3, DistinctConcat
    <2>5. Pool!Injective(waiting \o running)
      BY <2>4 DEF Injective, Pool!Injective
    <2>6. Pool!Entries(waiting) = Entries(waiting) /\ Pool!Entries(running) = Entries(running)
      BY DEF Entries, Pool!Entries
    <2>7. QED
      BY <2>2, <2>5, <2>6 DEF QueuesExact
  <1>2. QED
    BY <1>1, Invariant, PTL

\* Blocks, rows and pending tokens belong to running sequences: preemption and
\* completion give everything back.
THEOREM OnlyRunningSequencesHold == Spec => []OnlyRunningHold
  <1>1. EInv => OnlyRunningHold
    BY DEF EInv, Lives, Life, OnlyRunningHold
  <1>2. QED
    BY <1>1, Invariant, PTL

\* Between forwards the rows of a prefilled sequence cover its context except the
\* last token; no token is fed twice or skipped, whatever was preempted, shared
\* or aborted on the way.
THEOREM RowsMatchContexts == Spec => []RowsMatchContext
  <1>1. ASSUME EInv PROVE RowsMatchContext
    <2> SUFFICES ASSUME NEW id \in Pool!Entries(running), pc \in {"idle", "admit", "assemble"}
                 PROVE  IF prefilled[id] THEN ctx[id] = SubSeq(Context(id), 1, Len(Context(id)) - 1)
                        ELSE ctx[id] = SubSeq(Context(id), 1, Len(ctx[id]))
                             /\ Len(ctx[id]) < Len(Context(id))
      BY DEF RowsMatchContext
    <2>1. id \in Entries(running) /\ id \in Seqs
      <3>1. running \in Seq(Seqs)
        BY <1>1 DEF EInv, Shape
      <3>2. id \in Entries(running)
        BY DEF Entries, Pool!Entries
      <3>3. QED
        BY <3>1, <3>2, EntriesIn
    <2>2. status[id] = "Running"
      BY <1>1, <2>1 DEF EInv, Queues
    <2>3. Rows(id)
      BY <1>1, <2>1, <2>2 DEF EInv, Holdings
    <2>4. ~ Committed(id)
      BY DEF Committed, Past, Ahead
    <2>5. QED
      BY <2>3, <2>4 DEF Rows
  <1>2. QED
    BY <1>1, Invariant, PTL

\* The budget of the assembly is honest: every reserve of the forward finds the
\* blocks it needs in the free list.
THEOREM ReservesFit == Spec => []ReserveFits
  <1>1. ASSUME EInv PROVE ReserveFits
    <2>1. ASSUME NEW id, NEW n PROVE Pool!CanAppend(id, n) <=> P!CanAppend(id, n)
      BY SameHelpers, SameCount DEF Pool!CanAppend, P!CanAppend
    <2>2. ASSUME pc = "reserve", scan <= Len(items)
          PROVE  P!CanAppend(items[scan].id, Len(items[scan].tokens))
      BY <1>1, <2>2, ReserveFitsHere
    <2>3. QED
      BY <2>1, <2>2 DEF ReserveFits
  <1>2. QED
    BY <1>1, Invariant, PTL

-----------------------------------------------------------------------------
(* The engine implements Serving. *)

Finished == {id \in Seqs : status[id] = "Finished"}

\* Nothing is asked or finished at the start.
LEMMA RefinedInit == Init => Server!Init
  BY DEF Init, Server!Init

\* add_request() submits.
LEMMA AddRequestSubmits ==
  ASSUME EInv, NEW r \in RequestKinds, AddRequest(r)
  PROVE  Server!Next
  <1>1. next_id \in Seqs
    BY NumRequestsAssumption DEF AddRequest, EInv, Shape, Seqs
  <1>2. request[next_id] = NoRequest
    BY <1>1, NumRequestsAssumption DEF EInv, Lives, Life, Seqs
  <1>3. Server!Submit(next_id, r)
    BY <1>2 DEF AddRequest, Server!Submit
  <1>4. QED
    BY <1>1, <1>3 DEF Server!Next

\* What is drawn for an item is drawn after its own context.
LEMMA SampleItemEmits ==
  ASSUME EInv, Seen, SampleItem
  PROVE  Server!Next
  <1>1. PICK id, token :
          /\ id = items[scan].id
          /\ token \in IF items[scan].seen = Junk THEN Vocab ELSE Sample(items[scan].seen)
          /\ pc = "sample" /\ scan <= Len(items)
          /\ output' = [output EXCEPT ![id] = Append(@, token)]
          /\ status' = IF Stops(id, token) THEN [status EXCEPT ![id] = "Finished"] ELSE status
          /\ request' = request
    BY DEF SampleItem
  <1>2. /\ scan \in DOMAIN items /\ id \in Seqs /\ ItemOk(scan) /\ scan \in Nat \ {0}
    BY <1>1, CurrentItem DEF EInv
  <1>3. status[id] = "Running"
    BY <1>1, <1>2 DEF ItemOk, Past
  <1>4. request[id] \in RequestKinds /\ Context(id) \in Contexts
    BY <1>2, <1>3, RunningContext DEF EInv
  <1>5. items[scan].seen = Context(id)
    BY <1>1, <1>2 DEF Seen, Ahead
  <1>6. Context(id) # Junk
    BY <1>4, SamePool, PoolAssumption DEF Contexts
  <1>7. token \in Sample(Context(id))
    BY <1>1, <1>5, <1>6
  <1>8. request[id] # NoRequest
    BY <1>4, RequestAssumption
  <1>9. Finished' = IF token = request[id].eos \/ Len(output[id]) + 1 >= request[id].max_tokens
                    THEN Finished \cup {id} ELSE Finished
    <2>1. DOMAIN status = Seqs
      BY DEF EInv, Shape
    <2>2. CASE Stops(id, token)
      <3>1. \A q \in Seqs : status'[q] = IF q = id THEN "Finished" ELSE status[q]
        BY <1>1, <2>1, <2>2
      <3>2. QED
        BY <1>2, <2>2, <3>1 DEF Finished, Stops
    <2>3. CASE ~ Stops(id, token)
      BY <1>1, <2>3 DEF Finished, Stops
    <2>4. QED
      BY <2>2, <2>3
  <1>10. id \notin Finished
    BY <1>3 DEF Finished
  <1>11. Server!Emit(id)
    BY <1>1, <1>7, <1>8, <1>9, <1>10 DEF Server!Emit, Context, Finished
  <1>12. QED
    BY <1>2, <1>11 DEF Server!Next

\* Moving a sequence between the queues finishes nothing.
LEMMA QueuesFinishNothing ==
  ASSUME EInv, Admit \/ Preempt
  PROVE  Finished' = Finished /\ request' = request /\ output' = output
  <1>1. ASSUME NEW id \in Seqs, NEW s, status[id] # "Finished", s # "Finished",
               status' = [status EXCEPT ![id] = s]
        PROVE  Finished' = Finished
    BY <1>1 DEF Finished, EInv, Shape
  <1>2. CASE Admit
    <2>1. PICK id : id = Head(waiting) /\ status' = [status EXCEPT ![id] = "Running"]
      BY <1>2 DEF Admit
    <2>2. waiting \in Seq(Seqs) /\ waiting # <<>> /\ Injective(waiting)
      BY <1>2 DEF Admit, Admissible, EInv, Shape, Queues
    <2>3. id \in Seqs /\ id \in Entries(waiting)
      BY <2>1, <2>2, TailQueue
    <2>4. status[id] = "Waiting"
      BY <2>3 DEF EInv, Queues
    <2>5. QED
      BY <1>1, <1>2, <2>1, <2>3, <2>4 DEF Admit
  <1>3. CASE Preempt
    <2>1. PICK i \in DOMAIN running : status' = [status EXCEPT ![running[i]] = "Waiting"]
      BY <1>3 DEF Preempt, HolderPositions
    <2>2. running[i] \in Seqs /\ running[i] \in Entries(running)
      BY DEF EInv, Shape, Entries
    <2>3. status[running[i]] = "Running"
      BY <1>3, <2>2 DEF EInv, Queues, Preempt
    <2>4. QED
      BY <1>1, <1>3, <2>1, <2>2, <2>3 DEF Preempt
  <1>4. QED
    BY <1>2, <1>3

\* A step of the engine emits one token, submits one request, or shows nothing.
LEMMA StepRefines ==
  ASSUME EInv, P!NoCollision, Right, [Next]_vars
  PROVE  [Server!Next]_Server!vars
  <1>1. CASE UNCHANGED <<request, output, status>>
    BY <1>1 DEF Server!vars
  <1>2. ASSUME NEW r \in RequestKinds, AddRequest(r) PROVE Server!Next
    BY <1>2, AddRequestSubmits
  <1>3. CASE SampleItem
    BY <1>3, SampleItemEmits DEF Right
  <1>4. CASE Admit \/ Preempt
    BY <1>4, QueuesFinishNothing DEF Server!vars, Finished
  <1>5. QED
    BY <1>1, <1>2, <1>3, <1>4
       DEF Next, StepNext, Done, BeginStep, BeginAssembly, Assemble, GiveUp, BeginForward,
           ForwardReserve, Embed, Abort, ForwardWrite, BeginCommit, ForwardCommit,
           BeginSampling, Retire, vars, seqVars

\* Where no two chains of blocks hash alike, every request is served as if it ran
\* alone: neither batching, nor paging, nor preemption, nor a shared prefix shows
\* in an output.
THEOREM EngineServes == P!NoCollision => (Spec => ImplementsServing)
  <1> SUFFICES ASSUME P!NoCollision PROVE Spec => ImplementsServing
    OBVIOUS
  <1>1. Init => Server!Init
    BY RefinedInit
  <1>2. EInv /\ Right /\ [Next]_vars => [Server!Next]_Server!vars
    BY StepRefines
  <1>3. QED
    BY <1>1, <1>2, Invariant, PTL DEF Spec, ImplementsServing, Server!Spec

=============================================================================
