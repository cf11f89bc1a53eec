-------------------------- MODULE CudaEngineProofs --------------------------
(***************************************************************************)
(* The GPU engine serves every request as if it ran alone, never feeds a   *)
(* full cache, and keeps its queues and caches in step, for any number of  *)
(* requests, any device memory and any pattern of failing device calls.    *)
(*                                                                         *)
(* The argument: the first rows of a running sequence's cache, up to its   *)
(* length, are the rows of its own context (Rows); the length is what the  *)
(* next forward expects because only advance() moves it, after a whole     *)
(* forward (Held); so the logits of an item are those of its context       *)
(* (Seen), and its token is one the sampler may draw there.                *)
(***************************************************************************)
EXTENDS CudaEngine, SequenceTheorems, WellFoundedInduction, TLAPS

\* The sampler draws token ids.
SampleAssumption == \A c \in Seq(Tokens) : Sample(c) \subseteq Tokens

Context(id) == request[id].prompt \o output[id]

Rows == Seq(Tokens) \cup {Junk}

Distinct(q) == \A i, j \in DOMAIN q : q[i] = q[j] => i = j

Item == [id : Seqs, tokens : Seq(Tokens), seen : Rows]

Shape == /\ request \in [Seqs -> RequestKinds \cup {NoRequest}]
         /\ output \in [Seqs -> Seq(Tokens)]
         /\ status \in [Seqs -> {"Waiting", "Running", "Finished"}]
         /\ prefilled \in [Seqs -> BOOLEAN]
         /\ cache \in [Seqs -> [capacity : Int, length : Nat, rows : Seq(Rows)]]
         /\ waiting \in Seq(Seqs) /\ running \in Seq(Seqs) /\ next_id \in 0..NumRequests
         /\ pc \in {"idle", "admit", "forward", "sample"} /\ scan \in Nat \ {0}
         /\ items \in Seq(Item)

\* A request that is not served yet has no output, and its cache lives as long
\* as it is served.
Life(id) ==
    /\ id < next_id => request[id] \in RequestKinds
    /\ id >= next_id => request[id] = NoRequest /\ status[id] = "Waiting"
    /\ prefilled[id] <=> output[id] # <<>>
    /\ status[id] = "Waiting" => output[id] = <<>>
    /\ status[id] # "Running" => cache[id] = NoCache
    /\ status[id] = "Running" =>
         /\ cache[id].capacity = Capacity(request[id]) /\ cache[id].capacity > 0
         /\ output[id] # <<>> => Len(output[id]) < request[id].max_tokens

Lives == \A id \in Seqs : Life(id)

\* Every live request is in the queue its status says, once.
Queues ==
    /\ Distinct(waiting) /\ Distinct(running)
    /\ \A id \in Seqs :
         /\ id \in Entries(waiting) <=> id < next_id /\ status[id] = "Waiting"
         /\ id \in Entries(running) <=>
              \/ status[id] = "Running"
              \/ status[id] = "Finished" /\ pc = "sample" /\ \E k \in DOMAIN items : items[k].id = id

\* The batch is the running set, and the rest of it is still to be sampled.
Batch ==
    /\ pc \in {"idle", "admit"} => items = <<>>
    /\ pc \in {"forward", "sample"} =>
         /\ Len(items) = Len(running)
         /\ \A k \in 1..Len(items) : items[k].id = running[k]
         /\ pc = "forward" => \A k \in 1..Len(items) : items[k].tokens = StepTokens(items[k].id)

Unsampled(id) == pc = "sample" /\ \E k \in 1..Len(items) : k >= scan /\ items[k].id = id

\* Tokens whose rows the cache of a running sequence counts.
Held(id) == IF Unsampled(id) THEN Len(Context(id))
            ELSE IF prefilled[id] THEN Len(Context(id)) - 1 ELSE 0

\* The first n rows of a cache are those of the sequence's context.
OwnRows(id, n) == /\ n <= Len(cache[id].rows)
                  /\ \A r \in 1..n : cache[id].rows[r] = SubSeq(Context(id), 1, r)

Caches == \A id \in Seqs : status[id] = "Running" =>
    cache[id].length = Held(id) /\ OwnRows(id, Held(id))

\* An item of which the forward is over saw its own context.
Seen == \A k \in 1..Len(items) :
    /\ pc = "forward" /\ k < scan =>
         /\ items[k].seen = Context(items[k].id)
         /\ Len(cache[items[k].id].rows) = Len(Context(items[k].id))
         /\ OwnRows(items[k].id, Len(Context(items[k].id)))
    /\ pc = "sample" /\ k >= scan =>
         status[items[k].id] = "Running" /\ items[k].seen = Context(items[k].id)

IInv == Shape /\ Lives /\ Queues /\ Batch /\ Caches /\ Seen

-----------------------------------------------------------------------------
(* Removing entries from a queue.  The library's induction theorems take an *)
(* operator, so induction is on the least number without the property.      *)

LEMMA LeastExists ==
  ASSUME NEW T, T \subseteq Nat, T # {}
  PROVE  \E x \in T : \A y \in T : x <= y
  <1> DEFINE R == {ss \in Nat \X Nat : ss[1] < ss[2]}
  <1>1. R = OpToRel(<, Nat)
    BY Zenon DEF OpToRel
  <1> HIDE DEF R
  <1>2. IsWellFoundedOn(R, Nat)
    BY <1>1, NatLessThanWellFounded, Zenon
  <1>3. PICK x \in T : \A y \in T : ~ (<<y, x>> \in R)
    BY <1>2, WFMin, Zenon
  <1>4. ASSUME NEW y \in T PROVE x <= y
    <2>1. <<y, x>> \in Nat \X Nat /\ <<y, x>> \notin R
      BY <1>3
    <2>2. ~ (<<y, x>>[1] < <<y, x>>[2])
      BY <2>1 DEF R
    <2>3. QED
      BY <2>2
  <1>5. QED
    BY <1>4

\* What is left of the first n entries, from what is left of those before the last.
Kept(q, S, f, n) == IF n = 0 THEN <<>>
                    ELSE IF q[n] \in S THEN f[n - 1] ELSE Append(f[n - 1], q[n])

LEMMA KeptExists ==
  ASSUME NEW q, NEW S, NEW m \in Nat
  PROVE  \E f : f = [n \in 0..m |-> Kept(q, S, f, n)]
  <1> DEFINE Undefined(n) == ~ \E f : f = [k \in 0..n |-> Kept(q, S, f, k)]
             T == {n \in Nat : Undefined(n)}
  <1> SUFFICES ASSUME T # {} PROVE FALSE
    OBVIOUS
  <1>1. PICK n \in T : \A k \in T : n <= k
    BY LeastExists
  <1>2. CASE n = 0
    <2> DEFINE f == [k \in 0..0 |-> <<>>]
    <2>1. f = [k \in 0..0 |-> Kept(q, S, f, k)]
      BY DEF Kept
    <2>2. QED
      BY <1>1, <1>2, <2>1
  <1>3. CASE n # 0
    <2>1. n - 1 \in Nat /\ n - 1 \notin T
      BY <1>1, <1>3
    <2>2. PICK f : f = [k \in 0..(n - 1) |-> Kept(q, S, f, k)]
      BY <2>1
    <2> DEFINE g == [k \in 0..n |-> IF k = n THEN Kept(q, S, f, n) ELSE f[k]]
    <2>3. ASSUME NEW k \in 0..n PROVE g[k] = Kept(q, S, g, k)
      <3>1. CASE k = n
        BY <1>3, <3>1 DEF Kept
      <3>2. CASE k # n
        <4>1. k \in 0..(n - 1) /\ g[k] = f[k]
          BY <3>2
        <4>2. f[k] = Kept(q, S, f, k)
          BY <2>2, <4>1
        <4>3. k # 0 => g[k - 1] = f[k - 1]
          BY <4>1
        <4>4. QED
          BY <4>1, <4>2, <4>3 DEF Kept
      <3>3. QED
        BY <3>1, <3>2
    <2>4. g = [k \in 0..n |-> Kept(q, S, g, k)]
      BY <2>3
    <2>5. QED
      BY <1>1, <2>4
  <1>4. QED
    BY <1>2, <1>3

\* Without() removes what it is told to, and keeps the rest, once each.
LEMMA WithoutProperties ==
  ASSUME NEW Q, NEW q \in Seq(Q), NEW S
  PROVE  /\ Without(q, S) \in Seq(Q)
         /\ Entries(Without(q, S)) = Entries(q) \ S
         /\ Distinct(q) => Distinct(Without(q, S))
  <1> DEFINE m == Len(q)
             kept == CHOOSE f : f = [n \in 0..m |-> Kept(q, S, f, n)]
             First(n) == {q[i] : i \in 1..n}
             Good(n) == /\ kept[n] \in Seq(Q) /\ Entries(kept[n]) = First(n) \ S
                        /\ Distinct(q) => Distinct(kept[n])
             T == {n \in Nat : n <= m /\ ~ Good(n)}
  <1>1. m \in Nat
    OBVIOUS
  <1>2. kept = [n \in 0..m |-> Kept(q, S, kept, n)]
    BY <1>1, KeptExists
  <1>3. Without(q, S) = kept[m]
    BY Zenon DEF Without, Kept
  <1> HIDE DEF kept
  <1>4. T = {}
    <2> SUFFICES ASSUME T # {} PROVE FALSE
      OBVIOUS
    <2>1. PICK n \in T : \A k \in T : n <= k
      BY LeastExists
    <2>2. n \in 0..m /\ kept[n] = Kept(q, S, kept, n) /\ ~ Good(n)
      BY <1>2, <2>1
    <2>3. n # 0
      <3> SUFFICES ASSUME n = 0 PROVE FALSE
        OBVIOUS
      <3>1. kept[n] = <<>>
        BY <2>2 DEF Kept
      <3>2. <<>> \in Seq(Q) /\ Entries(<<>>) = {} /\ Distinct(<<>>) /\ First(0) = {}
        BY DEF Entries, Distinct
      <3>3. QED
        BY <2>2, <3>1, <3>2
    <2> DEFINE p == kept[n - 1]
    <2>4. n - 1 \in Nat /\ Good(n - 1) /\ n - 1 <= m
      <3> HIDE DEF Good
      <3>1. n - 1 \in Nat /\ n - 1 <= m /\ ~ (n <= n - 1)
        BY <1>1, <2>2, <2>3
      <3>2. n - 1 \notin T
        BY <2>1, <3>1
      <3>3. QED
        BY <3>1, <3>2
    <2>5. First(n) = First(n - 1) \cup {q[n]}
      <3>1. 1..n = 1..(n - 1) \cup {n}
        BY <2>2, <2>3
      <3>2. QED
        BY <3>1
    <2>6. CASE q[n] \in S
      BY <2>2, <2>3, <2>4, <2>5, <2>6 DEF Kept
    <2>7. CASE q[n] \notin S
      <3>1. kept[n] = Append(p, q[n]) /\ q[n] \in Q /\ p \in Seq(Q)
        BY <2>2, <2>3, <2>4, <2>7 DEF Kept
      <3>2. /\ kept[n] \in Seq(Q) /\ Len(kept[n]) = Len(p) + 1
            /\ DOMAIN kept[n] = DOMAIN p \cup {Len(p) + 1} /\ DOMAIN p = 1..Len(p)
            /\ \A i \in DOMAIN p : kept[n][i] = p[i]
            /\ kept[n][Len(p) + 1] = q[n]
        BY <3>1
      <3>3. Entries(kept[n]) = Entries(p) \cup {q[n]}
        BY <3>2 DEF Entries
      <3>4. Distinct(q) => q[n] \notin First(n - 1)
        BY <1>1, <2>2, <2>3 DEF Distinct
      <3>5. Distinct(q) => Distinct(kept[n])
        <4> SUFFICES ASSUME Distinct(q), NEW i \in DOMAIN kept[n], NEW j \in DOMAIN kept[n],
                            kept[n][i] = kept[n][j]
                     PROVE  i = j
          BY DEF Distinct
        <4>1. q[n] \notin Entries(p) /\ Distinct(p)
          BY <2>4, <3>4
        <4>2. CASE i \in DOMAIN p /\ j \in DOMAIN p
          BY <3>2, <4>1, <4>2 DEF Distinct
        <4>3. CASE i \in DOMAIN p /\ j = Len(p) + 1
          BY <3>2, <4>1, <4>3 DEF Entries
        <4>4. CASE i = Len(p) + 1 /\ j \in DOMAIN p
          BY <3>2, <4>1, <4>4 DEF Entries
        <4>5. QED
          BY <3>2, <4>2, <4>3, <4>4
      <3>6. QED
        BY <2>2, <2>4, <2>5, <2>7, <3>2, <3>3, <3>5
    <2>8. QED
      BY <2>6, <2>7
  <1>5. Good(m)
    <2> HIDE DEF Good
    <2>1. QED
      BY <1>1, <1>4
  <1>6. First(m) = Entries(q)
    BY DEF Entries
  <1>7. QED
    BY <1>3, <1>5, <1>6

-----------------------------------------------------------------------------
(* Queues, and the rows of a context. *)

LEMMA EntriesIn ==
  ASSUME NEW T, NEW q \in Seq(T)
  PROVE  Entries(q) \subseteq T /\ Entries(q) = {q[k] : k \in 1..Len(q)}
  BY DEF Entries

LEMMA DistinctConcat ==
  ASSUME NEW T, NEW p \in Seq(T), NEW q \in Seq(T)
  PROVE  Distinct(p \o q) <=> Distinct(p) /\ Distinct(q) /\ Entries(p) \cap Entries(q) = {}
  <1> DEFINE m == Len(p)
             n == Len(q)
  <1>1. /\ p \o q \in Seq(T) /\ m \in Nat /\ n \in Nat
        /\ DOMAIN p = 1..m /\ DOMAIN q = 1..n /\ DOMAIN (p \o q) = 1..(m + n)
        /\ \A k \in 1..m : (p \o q)[k] = p[k]
        /\ \A k \in 1..n : (p \o q)[m + k] = q[k]
    OBVIOUS
  <1>2. ASSUME Distinct(p \o q)
        PROVE  Distinct(p) /\ Distinct(q) /\ Entries(p) \cap Entries(q) = {}
    <2>1. \A i, j \in 1..(m + n) : (p \o q)[i] = (p \o q)[j] => i = j
      BY <1>1, <1>2 DEF Distinct
    <2> HIDE DEF m, n
    <2>2. \A i, j \in 1..m : p[i] = p[j] => i = j
      BY <1>1, <2>1
    <2>3. ASSUME NEW i \in 1..n, NEW j \in 1..n, q[i] = q[j] PROVE i = j
      <3>1. m + i \in 1..(m + n) /\ m + j \in 1..(m + n)
        BY <1>1
      <3>2. (p \o q)[m + i] = (p \o q)[m + j]
        BY <1>1, <2>3
      <3>3. m + i = m + j
        BY <2>1, <3>1, <3>2
      <3>4. QED
        BY <1>1, <3>3
    <2>4. ASSUME NEW i \in 1..m, NEW j \in 1..n PROVE p[i] # q[j]
      <3>1. i \in 1..(m + n) /\ m + j \in 1..(m + n) /\ i # m + j
        BY <1>1
      <3>2. (p \o q)[i] # (p \o q)[m + j]
        BY <2>1, <3>1
      <3>3. QED
        BY <1>1, <3>2
    <2>5. QED
      BY <1>1, <2>2, <2>3, <2>4 DEF Distinct, Entries
  <1>3. ASSUME Distinct(p), Distinct(q), Entries(p) \cap Entries(q) = {},
               NEW i \in DOMAIN (p \o q), NEW j \in DOMAIN (p \o q), (p \o q)[i] = (p \o q)[j]
        PROVE  i = j
    <2> HIDE DEF m, n
    <2>1. \A k \in 1..(m + n) : k > m => k - m \in 1..n /\ (p \o q)[k] = q[k - m]
      <3> SUFFICES ASSUME NEW k \in 1..(m + n), k > m
                   PROVE  k - m \in 1..n /\ (p \o q)[k] = q[k - m]
        OBVIOUS
      <3>1. k - m \in 1..n /\ m + (k - m) = k
        BY <1>1
      <3>2. QED
        BY <1>1, <3>1
    <2>2. \A a \in 1..m, b \in 1..n : p[a] # q[b]
      BY <1>1, <1>3 DEF Entries
    <2>3. CASE i <= m /\ j <= m
      BY <1>1, <1>3, <2>3 DEF Distinct
    <2>4. CASE i > m /\ j > m
      <3>1. i - m = j - m
        BY <1>1, <1>3, <2>1, <2>4 DEF Distinct
      <3>2. QED
        BY <1>1, <3>1
    <2>5. CASE i <= m /\ j > m
      BY <1>1, <1>3, <2>1, <2>2, <2>5
    <2>6. CASE i > m /\ j <= m
      BY <1>1, <1>3, <2>1, <2>2, <2>6
    <2>7. QED
      BY <1>1, <2>3, <2>4, <2>5, <2>6
  <1>4. QED
    BY <1>2, <1>3 DEF Distinct

LEMMA AppendQueue ==
  ASSUME NEW T, NEW q \in Seq(T), NEW x \in T, Distinct(q), x \notin Entries(q)
  PROVE  /\ Append(q, x) \in Seq(T) /\ Distinct(Append(q, x))
         /\ Entries(Append(q, x)) = Entries(q) \cup {x}
  <1>1. /\ Append(q, x) \in Seq(T) /\ Len(q) \in Nat
        /\ DOMAIN q = 1..Len(q) /\ DOMAIN Append(q, x) = 1..(Len(q) + 1)
        /\ \A k \in 1..Len(q) : Append(q, x)[k] = q[k]
        /\ Append(q, x)[Len(q) + 1] = x
    OBVIOUS
  <1>2. 1..(Len(q) + 1) = 1..Len(q) \cup {Len(q) + 1}
    BY <1>1
  <1>3. Entries(Append(q, x)) = Entries(q) \cup {x}
    BY <1>1, <1>2 DEF Entries
  <1>4. Distinct(Append(q, x))
    BY <1>1, <1>2 DEF Distinct, Entries
  <1>5. QED
    BY <1>1, <1>3, <1>4

LEMMA TailQueue ==
  ASSUME NEW T, NEW q \in Seq(T), q # <<>>, Distinct(q)
  PROVE  /\ Head(q) \in T /\ Head(q) \in Entries(q) /\ Tail(q) \in Seq(T) /\ Distinct(Tail(q))
         /\ Entries(Tail(q)) = Entries(q) \ {Head(q)}
  <1> DEFINE m == Len(q)
  <1>1. /\ m \in Nat \ {0} /\ Head(q) = q[1] /\ Head(q) \in T /\ Tail(q) \in Seq(T)
        /\ DOMAIN q = 1..m /\ DOMAIN Tail(q) = 1..(m - 1)
        /\ \A k \in 1..(m - 1) : Tail(q)[k] = q[k + 1]
    OBVIOUS
  <1> HIDE DEF m
  <1>2. \A i, j \in 1..m : q[i] = q[j] => i = j
    BY <1>1 DEF Distinct
  <1>3. ASSUME NEW i \in 1..(m - 1), NEW j \in 1..(m - 1), Tail(q)[i] = Tail(q)[j] PROVE i = j
    <2>1. i + 1 \in 1..m /\ j + 1 \in 1..m /\ q[i + 1] = q[j + 1]
      BY <1>1, <1>3
    <2>2. i + 1 = j + 1
      BY <1>2, <2>1
    <2>3. QED
      BY <2>2
  <1>4. ASSUME NEW x PROVE x \in Entries(Tail(q)) <=> x \in Entries(q) \ {Head(q)}
    <2>1. ASSUME NEW i \in 1..(m - 1), x = Tail(q)[i] PROVE x \in Entries(q) \ {Head(q)}
      <3>1. i + 1 \in 1..m /\ i + 1 # 1 /\ x = q[i + 1] /\ 1 \in 1..m
        BY <1>1, <2>1
      <3>2. x # q[1]
        BY <1>2, <3>1
      <3>3. QED
        BY <1>1, <3>1, <3>2 DEF Entries
    <2>2. ASSUME NEW i \in 1..m, x = q[i], x # q[1] PROVE x \in Entries(Tail(q))
      <3>1. i - 1 \in 1..(m - 1) /\ (i - 1) + 1 = i
        BY <1>1, <2>2
      <3>2. Tail(q)[i - 1] = q[i]
        BY <1>1, <3>1
      <3>3. QED
        BY <1>1, <2>2, <3>1, <3>2 DEF Entries
    <2>3. QED
      BY <1>1, <2>1, <2>2 DEF Entries
  <1>5. Entries(Tail(q)) = Entries(q) \ {Head(q)}
    BY <1>4
  <1>6. Distinct(Tail(q))
    BY <1>1, <1>3 DEF Distinct
  <1>7. Head(q) \in Entries(q)
    BY <1>1 DEF Entries
  <1>8. QED
    BY <1>1, <1>5, <1>6, <1>7

\* The rows of t after the context p are those of p \o t.
LEMMA PrefixConcat ==
  ASSUME NEW T, NEW p \in Seq(T), NEW t \in Seq(T), NEW i \in 0..Len(t)
  PROVE  p \o SubSeq(t, 1, i) = SubSeq(p \o t, 1, Len(p) + i)
  <1> DEFINE a == p \o SubSeq(t, 1, i)
             b == SubSeq(p \o t, 1, Len(p) + i)
  <1>1. /\ p \o t \in Seq(T) /\ Len(p \o t) = Len(p) + Len(t) /\ Len(p) \in Nat /\ Len(t) \in Nat
        /\ SubSeq(t, 1, i) \in Seq(T) /\ Len(SubSeq(t, 1, i)) = i
    OBVIOUS
  <1>2. a \in Seq(T) /\ Len(a) = Len(p) + i
    BY <1>1
  <1>3. b \in Seq(T) /\ Len(b) = Len(p) + i
    BY <1>1
  <1>4. ASSUME NEW k \in 1..(Len(p) + i) PROVE a[k] = b[k]
    BY <1>1
  <1> HIDE DEF a, b
  <1>5. a = b
    BY <1>2, <1>3, <1>4, SeqEqual
  <1>6. QED
    BY <1>5 DEF a, b

\* A sequence is what comes before its last element, and that element.
LEMMA FrontAndLast ==
  ASSUME NEW T, NEW c \in Seq(T), c # <<>>
  PROVE  /\ Len(c) \in Nat \ {0} /\ c[Len(c)] \in T
         /\ SubSeq(c, 1, Len(c) - 1) \o <<c[Len(c)]>> = c
  <1>1. Len(c) \in Nat \ {0} /\ Len(c) \in 1..Len(c) /\ 1 \in 1..Len(c)
    BY EmptySeq
  <1>2. c[Len(c)] \in T
    BY <1>1, ElementOfSeq
  <1>3. SubSeq(c, 1, Len(c)) = SubSeq(c, 1, Len(c) - 1) \o <<c[Len(c)]>>
    BY <1>1, SubSeqRecursiveSecond
  <1>4. QED
    BY <1>1, <1>2, <1>3, SubSeqFull

\* The same of a context, whose last token is the last of the output.
LEMMA LastOfConcat ==
  ASSUME NEW T, NEW p \in Seq(T), NEW o \in Seq(T), o # <<>>, NEW t, t = <<o[Len(o)]>>
  PROVE  SubSeq(p \o o, 1, Len(p \o o) - 1) \o t = p \o o
  <1> DEFINE c == p \o o
  <1>1. Len(p) \in Nat /\ Len(o) \in Nat \ {0} /\ o[Len(o)] \in T
    BY FrontAndLast, LenProperties
  <1>2. /\ c \in Seq(T) /\ Len(c) = Len(p) + Len(o)
        /\ c[Len(p) + Len(o)] = o[Len(o)]
    BY <1>1, ConcatProperties
  <1> HIDE DEF c
  <1>3. Len(c) \in Nat \ {0} /\ c # <<>>
    <2>1. Len(c) \in Nat \ {0}
      BY <1>1, <1>2
    <2>2. QED
      BY <2>1, EmptySeq
  <1>4. t = <<c[Len(c)]>>
    BY <1>2
  <1>5. SubSeq(c, 1, Len(c) - 1) \o t = c
    BY <1>2, <1>3, <1>4, FrontAndLast
  <1>6. QED
    BY <1>5 DEF c

-----------------------------------------------------------------------------
(* What a forward does to one cache. *)

LEMMA RunningContext ==
  ASSUME Shape, Lives, NEW id \in Seqs, status[id] = "Running"
  PROVE  /\ request[id] \in RequestKinds /\ request[id].prompt \in Seq(Tokens)
         /\ request[id].max_tokens \in Int /\ output[id] \in Seq(Tokens)
         /\ Len(request[id].prompt) \in Nat \ {0} /\ Len(output[id]) \in Nat
         /\ Context(id) \in Seq(Tokens)
         /\ Len(Context(id)) = Len(request[id].prompt) + Len(output[id])
  <1>1. id < next_id
    BY DEF Shape, Lives, Life, Seqs
  <1>2. request[id] \in RequestKinds /\ output[id] \in Seq(Tokens)
    BY <1>1 DEF Lives, Life, Shape
  <1>3. /\ request[id].prompt \in Seq(Tokens) /\ request[id].prompt # <<>>
        /\ request[id].max_tokens \in Int
    BY <1>2, RequestAssumption
  <1>4. QED
    BY <1>2, <1>3 DEF Context

\* Tokens whose rows the next forward finds in the cache.
Cached(id) == IF prefilled[id] THEN Len(Context(id)) - 1 ELSE 0

LEMMA StepTokensComplete ==
  ASSUME Shape, Lives, NEW id \in Seqs, status[id] = "Running"
  PROVE  /\ StepTokens(id) \in Seq(Tokens) /\ Len(StepTokens(id)) \in Nat \ {0}
         /\ Cached(id) \in Nat /\ Cached(id) + Len(StepTokens(id)) = Len(Context(id))
         /\ SubSeq(Context(id), 1, Cached(id)) \o StepTokens(id) = Context(id)
  <1> DEFINE p == request[id].prompt
             o == output[id]
             c == Context(id)
  <1>1. /\ p \in Seq(Tokens) /\ o \in Seq(Tokens) /\ Len(p) \in Nat \ {0} /\ Len(o) \in Nat
        /\ c \in Seq(Tokens) /\ Len(c) = Len(p) + Len(o) /\ c = p \o o
    BY RunningContext DEF Context
  <1>2. CASE prefilled[id]
    <2>1. o # <<>>
      BY <1>2 DEF Lives, Life
    <2> DEFINE t == StepTokens(id)
    <2>2. t = <<o[Len(o)]>> /\ Cached(id) = Len(c) - 1
      BY <1>2 DEF StepTokens, Cached
    <2> HIDE DEF c, p, o, t
    <2>3. /\ Len(c) \in Nat \ {0} /\ t \in Seq(Tokens) /\ Len(t) = 1
          /\ SubSeq(c, 1, Len(c) - 1) \o t = c
      <3>1. p \in Seq(Tokens) /\ o \in Seq(Tokens) /\ c = p \o o
        BY <1>1
      <3>2. Len(p \o o) \in Nat \ {0} /\ t \in Seq(Tokens) /\ Len(t) = 1
        BY <2>1, <2>2, <3>1, FrontAndLast
      <3>3. SubSeq(p \o o, 1, Len(p \o o) - 1) \o t = p \o o
        BY <2>1, <2>2, <3>1, LastOfConcat
      <3>4. QED
        BY <3>1, <3>2, <3>3
    <2>4. Len(c) \in Nat \ {0}
      BY <2>3
    <2>5. Len(c) - 1 \in Nat /\ Len(c) - 1 + 1 = Len(c)
      BY <2>4
    <2>6. QED
      <3>1. SubSeq(c, 1, Cached(id)) \o t = c
        BY <2>2, <2>3, Zenon
      <3>2. Cached(id) \in Nat /\ Cached(id) + 1 = Len(c)
        BY <2>2, <2>5, Zenon
      <3>3. Len(t) \in Nat \ {0} /\ Cached(id) + Len(t) = Len(c)
        BY <2>3, <3>2
      <3>4. QED
        BY <2>3, <3>1, <3>2, <3>3, Zenon DEF c, t
  <1>3. CASE ~ prefilled[id]
    <2>1. o = <<>>
      BY <1>3 DEF Lives, Life, Shape
    <2>2. StepTokens(id) = p /\ Cached(id) = 0
      BY <1>3 DEF StepTokens, Cached
    <2> HIDE DEF c, p, o
    <2>3. c = p
      BY <1>1, <2>1, ConcatEmptySeq
    <2>4. SubSeq(c, 1, 0) = <<>> /\ 0 + Len(p) = Len(p)
      BY <1>1, SubSeqEmpty
    <2>5. <<>> \o p = p
      BY <1>1, ConcatEmptySeq
    <2>6. QED
      <3>1. SubSeq(c, 1, Cached(id)) \o StepTokens(id) = c
        BY <2>2, <2>3, <2>4, <2>5, Zenon
      <3>2. /\ StepTokens(id) \in Seq(Tokens) /\ Len(StepTokens(id)) \in Nat \ {0}
            /\ Cached(id) \in Nat /\ Cached(id) + Len(StepTokens(id)) = Len(c)
        BY <1>1, <2>2, <2>3, <2>4
      <3>3. QED
        BY <3>1, <3>2, Zenon DEF c
  <1>4. QED
    BY <1>2, <1>3

\* append() of the tokens of a step leaves the rows of the whole context, which
\* is what attention then sees.
LEMMA AppendedRows ==
  ASSUME Shape, Lives, NEW id \in Seqs, status[id] = "Running",
         cache[id].length = Cached(id), OwnRows(id, Cached(id))
  PROVE  LET rows == Appended(cache[id], StepTokens(id))
         IN /\ rows \in Seq(Rows) /\ Len(rows) = Len(Context(id))
            /\ \A r \in 1..Len(rows) : rows[r] = SubSeq(Context(id), 1, r)
            /\ ContextOf(rows) = Context(id)
  <1> DEFINE c == Context(id)
             n == Cached(id)
             t == StepTokens(id)
             rows == Appended(cache[id], t)
             past == IF cache[id].length = 0 THEN <<>> ELSE cache[id].rows[cache[id].length]
  <1>1. /\ c \in Seq(Tokens) /\ t \in Seq(Tokens) /\ Len(t) \in Nat \ {0} /\ n \in Nat
        /\ n + Len(t) = Len(c) /\ SubSeq(c, 1, n) \o t = c
    BY RunningContext, StepTokensComplete
  <1>2. past = SubSeq(c, 1, n)
    <2>1. CASE n = 0
      BY <1>1, <2>1
    <2>2. CASE n # 0
      <3>1. n \in 1..n
        BY <1>1, <2>2
      <3>2. QED
        BY <2>2, <3>1 DEF OwnRows
    <2>3. QED
      BY <2>1, <2>2
  <1>3. past \in Seq(Tokens) /\ Len(past) = n /\ past # Junk /\ past \o t = c
    <2> HIDE DEF past, n, t, c
    <2>1. n \in 0..Len(c)
      BY <1>1
    <2>2. SubSeq(c, 1, n) \in Seq(Tokens) /\ Len(SubSeq(c, 1, n)) = n
      BY <1>1, <2>1
    <2>3. QED
      BY <1>1, <1>2, <2>2, JunkAssumption
  <1>4. rows = [r \in 1..Len(c) |-> IF r <= n THEN cache[id].rows[r] ELSE past \o SubSeq(t, 1, r - n)]
    BY <1>1, <1>3 DEF Appended
  <1> HIDE DEF rows, past, n, t, c
  <1>5. ASSUME NEW r \in 1..Len(c) PROVE rows[r] = SubSeq(c, 1, r) /\ rows[r] \in Rows
    <2>1. CASE r <= n
      <3>1. r \in 1..n
        BY <1>1, <2>1
      <3>2. cache[id].rows[r] = SubSeq(c, 1, r)
        BY <3>1 DEF OwnRows, n, c
      <3>3. SubSeq(c, 1, r) \in Seq(Tokens)
        BY <1>1
      <3>4. QED
        BY <1>4, <2>1, <3>2, <3>3 DEF Rows
    <2>2. CASE r > n
      <3>1. r - n \in 0..Len(t) /\ n + (r - n) = r
        BY <1>1, <2>2
      <3>2. past \o SubSeq(t, 1, r - n) = SubSeq(past \o t, 1, Len(past) + (r - n))
        BY <1>1, <1>3, <3>1, PrefixConcat
      <3>3. rows[r] = SubSeq(c, 1, r)
        <4>1. rows[r] = past \o SubSeq(t, 1, r - n)
          BY <1>1, <1>4, <2>2
        <4>2. QED
          BY <1>3, <3>1, <3>2, <4>1
      <3>4. QED
        BY <1>1, <3>3 DEF Rows
    <2>3. QED
      BY <1>1, <2>1, <2>2
  <1>6. rows \in Seq(Rows) /\ Len(rows) = Len(c)
    <2>1. Len(c) \in Nat /\ rows \in [1..Len(c) -> Rows]
      BY <1>1, <1>4, <1>5
    <2>2. rows \in Seq(Rows)
      BY <2>1, SeqDef
    <2>3. QED
      BY <2>1, <2>2, LenProperties
  <1>7. ContextOf(rows) = c
    <2>1. Len(c) \in 1..Len(c) /\ SubSeq(c, 1, Len(c)) = c /\ c # Junk
      BY <1>1, JunkAssumption
    <2>2. rows[Len(rows)] = c
      BY <1>5, <1>6, <2>1
    <2>3. DOMAIN rows = 1..Len(c)
      BY <1>4
    <2>4. QED
      BY <1>5, <2>1, <2>2, <2>3 DEF ContextOf
  <1>8. QED
    BY <1>5, <1>6, <1>7 DEF rows, c, t

-----------------------------------------------------------------------------
(* The invariant. *)

LEMMA InitInv == Init => IInv
  <1> SUFFICES ASSUME Init PROVE IInv
    OBVIOUS
  <1>1. Shape
    BY NumRequestsAssumption DEF Init, Shape, NoCache
  <1>2. Lives /\ Batch /\ Caches /\ Seen
    BY NumRequestsAssumption DEF Init, Lives, Life, Batch, Caches, Seen, Seqs
  <1>3. Queues
    BY NumRequestsAssumption DEF Init, Queues, Distinct, Entries, Seqs
  <1>4. QED
    BY <1>1, <1>2, <1>3 DEF IInv

\* A cache stays right while its sequence, its rows and what is held of it stay.
LEMMA CachesKept ==
  ASSUME Caches,
         \A id \in Seqs : status'[id] = "Running" =>
            /\ status[id] = "Running" /\ cache'[id] = cache[id]
            /\ Context(id)' = Context(id) /\ Held(id)' = Held(id)
  PROVE  Caches'
  BY DEF Caches, OwnRows

LEMMA AddRequestInv ==
  ASSUME IInv, NEW r \in RequestKinds, AddRequest(r)
  PROVE  IInv'
  <1>1. /\ pc = "idle" /\ next_id \in Seqs /\ next_id + 1 \in 0..NumRequests
        /\ next_id \in Nat /\ Seqs \subseteq Nat
    BY NumRequestsAssumption DEF AddRequest, IInv, Shape, Seqs
  <1>2. status[next_id] = "Waiting" /\ output[next_id] = <<>>
    BY <1>1 DEF IInv, Lives, Life
  <1>3. next_id \notin Entries(waiting) /\ next_id \notin Entries(running)
    BY <1>1, <1>2 DEF IInv, Queues
  <1>4. /\ Append(waiting, next_id) \in Seq(Seqs) /\ Distinct(Append(waiting, next_id))
        /\ Entries(Append(waiting, next_id)) = Entries(waiting) \cup {next_id}
    BY <1>1, <1>3, AppendQueue DEF IInv, Shape, Queues
  <1>5. Shape'
    BY <1>1, <1>4 DEF AddRequest, IInv, Shape
  <1>6. Lives'
    <2>1. ASSUME NEW id \in Seqs, id # next_id PROVE id < next_id + 1 <=> id < next_id
      BY <1>1, <2>1
    <2>2. QED
      BY <1>1, <1>2, <2>1 DEF AddRequest, IInv, Shape, Lives, Life
  <1>7. Queues'
    <2>1. ASSUME NEW id \in Seqs, id # next_id PROVE id < next_id + 1 <=> id < next_id
      BY <1>1, <2>1
    <2>2. Distinct(waiting)' /\ Distinct(running)'
      BY <1>4 DEF AddRequest, IInv, Queues, Distinct
    <2>3. Entries(waiting') = Entries(waiting) \cup {next_id} /\ Entries(running') = Entries(running)
      BY <1>4 DEF AddRequest
    <2>4. ASSUME NEW id \in Seqs
          PROVE  id \in Entries(waiting') <=> id < next_id + 1 /\ status[id] = "Waiting"
      BY <1>1, <1>2, <2>1, <2>3 DEF IInv, Queues
    <2>5. next_id' = next_id + 1 /\ status' = status /\ pc' = pc /\ items' = items
      BY DEF AddRequest
    <2>6. QED
      BY <2>2, <2>3, <2>4, <2>5 DEF IInv, Queues, Entries
  <1>8. Batch' /\ Seen'
    BY <1>1 DEF AddRequest, IInv, Batch, Seen
  <1>9. Caches'
    <2>1. ASSUME NEW id \in Seqs, status'[id] = "Running"
          PROVE  /\ status[id] = "Running" /\ cache'[id] = cache[id]
                 /\ Context(id)' = Context(id) /\ Held(id)' = Held(id)
      <3>1. status[id] = "Running" /\ cache'[id] = cache[id] /\ id # next_id
        BY <1>2, <2>1 DEF AddRequest
      <3>2. Context(id)' = Context(id)
        BY <3>1 DEF AddRequest, Context, IInv, Shape
      <3>3. QED
        BY <1>1, <3>1, <3>2 DEF AddRequest, Held, Unsampled
    <2>2. QED
      BY <2>1, CachesKept DEF IInv
  <1>10. QED
    BY <1>5, <1>6, <1>7, <1>8, <1>9 DEF IInv

\* A call of step() begins, or an exception leaves it.
LEMMA PhaseInv ==
  ASSUME IInv, UNCHANGED <<seqVars, cache, waiting, running, next_id>>,
         pc \in {"idle", "admit", "forward"}, pc' \in {"idle", "admit"},
         scan' \in Nat \ {0}, items' = <<>>
  PROVE  IInv'
  <1>1. Shape' /\ Lives' /\ Batch' /\ Seen'
    <2>1. Shape'
      BY DEF IInv, Shape, seqVars
    <2>2. Lives'
      BY DEF IInv, Lives, Life, seqVars
    <2>3. Batch' /\ Seen'
      BY DEF Batch, Seen
    <2>4. QED
      BY <2>1, <2>2, <2>3
  <1>2. Queues'
    BY DEF IInv, Queues, seqVars
  <1>3. Caches'
    BY CachesKept DEF IInv, Held, Unsampled, Context, seqVars
  <1>4. QED
    BY <1>1, <1>2, <1>3 DEF IInv

LEMMA AdmitInv ==
  ASSUME IInv, Admit
  PROVE  IInv'
  <1>0. PICK id, n : id = Head(waiting) /\ n = Capacity(request[id])
    OBVIOUS
  <1>1. /\ pc = "admit" /\ waiting # <<>> /\ n > 0
        /\ cache' = [cache EXCEPT ![id] = [capacity |-> n, length |-> 0, rows |-> <<>>]]
        /\ status' = [status EXCEPT ![id] = "Running"]
        /\ running' = Append(running, id) /\ waiting' = Tail(waiting)
        /\ UNCHANGED <<request, output, prefilled, next_id, pc, scan, items>>
    BY <1>0 DEF Admit, Admitting, Allocatable
  <1>2. /\ id \in Seqs /\ id \in Entries(waiting) /\ Tail(waiting) \in Seq(Seqs)
        /\ Distinct(Tail(waiting)) /\ Entries(Tail(waiting)) = Entries(waiting) \ {id}
    BY <1>0, <1>1, TailQueue DEF IInv, Shape, Queues
  <1>3. status[id] = "Waiting" /\ id < next_id /\ id \notin Entries(running) /\ output[id] = <<>>
        /\ ~ prefilled[id] /\ request[id] \in RequestKinds
    BY <1>1, <1>2 DEF IInv, Queues, Lives, Life
  <1>4. n \in Int
    BY <1>0, <1>3, RequestAssumption DEF Capacity
  <1>5. /\ Append(running, id) \in Seq(Seqs) /\ Distinct(Append(running, id))
        /\ Entries(Append(running, id)) = Entries(running) \cup {id}
    BY <1>2, <1>3, AppendQueue DEF IInv, Shape, Queues
  <1>6. Shape'
    <2>1. [capacity |-> n, length |-> 0, rows |-> <<>>]
             \in [capacity : Int, length : Nat, rows : Seq(Rows)]
      BY <1>4
    <2>2. cache' \in [Seqs -> [capacity : Int, length : Nat, rows : Seq(Rows)]]
      BY <1>1, <1>2, <2>1 DEF IInv, Shape
    <2>3. QED
      BY <1>1, <1>2, <1>5, <2>2 DEF IInv, Shape
  <1>7. Lives'
    <2>1. ASSUME NEW q \in Seqs, q # id
          PROVE  cache'[q] = cache[q] /\ status'[q] = status[q]
      BY <1>1, <2>1 DEF IInv, Shape
    <2>2. status'[id] = "Running" /\ cache'[id].capacity = n
      BY <1>1, <1>2 DEF IInv, Shape
    <2>3. n = Capacity(request[id])
      BY <1>0
    <2>4. ASSUME NEW q \in Seqs, q # id PROVE Life(q)'
      BY <1>1, <2>1, <2>4 DEF IInv, Lives, Life
    <2>5. /\ request' = request /\ output' = output /\ prefilled' = prefilled
          /\ next_id' = next_id /\ n > 0 /\ ~ (id >= next_id)
      BY <1>1, <1>2, <1>3 DEF IInv, Shape, Seqs
    <2>6. Life(id)'
      BY <1>3, <2>2, <2>3, <2>5 DEF Life
    <2>7. QED
      BY <2>4, <2>6 DEF Lives
  <1>8. Queues'
    BY <1>1, <1>2, <1>3, <1>5 DEF IInv, Shape, Queues
  <1>9. Batch' /\ Seen'
    BY <1>1 DEF IInv, Batch, Seen
  <1>10. Caches'
    <2>1. ASSUME NEW q \in Seqs, status'[q] = "Running"
          PROVE  cache'[q].length = Held(q)' /\ OwnRows(q, Held(q))'
      <3>1. CASE q = id
        <4>1. Held(q)' = 0 /\ cache'[q] = [capacity |-> n, length |-> 0, rows |-> <<>>]
          BY <1>1, <1>2, <1>3, <3>1 DEF Held, Unsampled, IInv, Shape
        <4>2. QED
          BY <4>1 DEF OwnRows
      <3>2. CASE q # id
        <4>1. status[q] = "Running" /\ cache'[q] = cache[q] /\ Context(q)' = Context(q)
              /\ Held(q)' = Held(q)
          BY <1>1, <2>1, <3>2 DEF Held, Unsampled, Context, IInv, Shape
        <4>2. QED
          BY <4>1 DEF IInv, Caches, OwnRows
      <3>3. QED
        BY <3>1, <3>2
    <2>2. QED
      BY <2>1 DEF Caches
  <1>11. QED
    BY <1>6, <1>7, <1>8, <1>9, <1>10 DEF IInv

LEMMA BeginStepInv ==
  ASSUME IInv, BeginStep
  PROVE  IInv'
  <1>1. pc = "idle" /\ pc' = "admit" /\ items' = items /\ scan' = scan
        /\ UNCHANGED <<seqVars, cache, waiting, running, next_id>>
    BY DEF BeginStep
  <1>2. items = <<>> /\ scan \in Nat \ {0}
    BY <1>1 DEF IInv, Batch, Shape
  <1>3. QED
    BY <1>1, <1>2, PhaseInv

LEMMA AdmitThrowsInv ==
  ASSUME IInv, AdmitThrows
  PROVE  IInv'
  BY PhaseInv DEF AdmitThrows, Admitting, ReturnFromStep

LEMMA ForwardThrowsInv ==
  ASSUME IInv, ForwardThrows
  PROVE  IInv'
  BY PhaseInv DEF ForwardThrows, ReturnFromStep

\* Outside the sampling of a batch, a running set entry is a running sequence.
LEMMA RunningEntry ==
  ASSUME IInv, pc # "sample", NEW k \in 1..Len(running)
  PROVE  running[k] \in Seqs /\ status[running[k]] = "Running"
  <1>1. running[k] \in Seqs /\ running[k] \in Entries(running)
    BY DEF IInv, Shape, Entries
  <1>2. QED
    BY <1>1 DEF IInv, Queues

LEMMA ItemRunning ==
  ASSUME IInv, pc = "forward", NEW k \in 1..Len(items)
  PROVE  /\ items[k] \in Item /\ items[k].id \in Seqs /\ status[items[k].id] = "Running"
         /\ items[k].tokens = StepTokens(items[k].id)
  <1>1. items[k] \in Item
    BY DEF IInv, Shape
  <1>2. items[k].id = running[k] /\ k \in 1..Len(running) /\ items[k].tokens = StepTokens(items[k].id)
    BY DEF IInv, Batch
  <1>3. QED
    BY <1>1, <1>2, RunningEntry

\* No sequence is in a batch twice.
LEMMA ItemsDistinct ==
  ASSUME IInv, pc \in {"forward", "sample"}, NEW i \in 1..Len(items), NEW j \in 1..Len(items),
         items[i].id = items[j].id
  PROVE  i = j
  <1>1. Len(items) = Len(running) /\ running[i] = running[j] /\ DOMAIN running = 1..Len(running)
    BY DEF IInv, Batch, Shape
  <1>2. QED
    BY <1>1 DEF IInv, Queues, Distinct

LEMMA ContextIn ==
  ASSUME IInv, NEW id \in Seqs, status[id] = "Running"
  PROVE  Context(id) \in Seq(Tokens) /\ Len(Context(id)) \in Nat
  <1>1. Shape /\ Lives
    BY DEF IInv
  <1>2. Context(id) \in Seq(Tokens)
    BY <1>1, RunningContext
  <1>3. QED
    BY <1>2

LEMMA AssembleInv ==
  ASSUME IInv, Assemble
  PROVE  IInv'
  <1>1. /\ pc = "admit" /\ scan' = 1 /\ pc' = IF running = <<>> THEN "idle" ELSE "forward"
        /\ items' = [k \in 1..Len(running) |->
                       [id |-> running[k], tokens |-> StepTokens(running[k]), seen |-> Junk]]
        /\ UNCHANGED <<seqVars, cache, waiting, running, next_id>>
    BY DEF Assemble
  <1>2. Len(running) \in Nat
    BY DEF IInv, Shape
  <1>3. ASSUME NEW k \in 1..Len(running) PROVE items'[k] \in Item
    <2>1. running[k] \in Seqs /\ status[running[k]] = "Running"
      BY <1>1, RunningEntry
    <2>2. StepTokens(running[k]) \in Seq(Tokens)
      BY <2>1, StepTokensComplete DEF IInv
    <2>3. QED
      BY <1>1, <2>1, <2>2 DEF Item, Rows
  <1>4. items' \in Seq(Item) /\ Len(items') = Len(running)
    <2>1. items' \in [1..Len(running) -> Item]
      BY <1>1, <1>3
    <2>2. items' \in Seq(Item)
      BY <1>2, <2>1, SeqDef
    <2>3. DOMAIN items' = 1..Len(running)
      BY <1>1
    <2>4. QED
      BY <1>2, <2>2, <2>3, LenProperties
  <1>5. Shape'
    BY <1>1, <1>4 DEF IInv, Shape, seqVars
  <1>6. Lives'
    BY <1>1 DEF IInv, Lives, Life, seqVars
  <1>7. Queues'
    BY <1>1 DEF IInv, Queues, seqVars
  <1>8. Batch'
    <2>1. ASSUME NEW k \in 1..Len(items')
          PROVE  items'[k].id = running[k] /\ items'[k].tokens = StepTokens(running[k])
      BY <1>1, <1>4
    <2>2. (\A k \in 1..Len(items) : items[k].tokens = StepTokens(items[k].id))'
      BY <1>1, <2>1 DEF StepTokens, seqVars
    <2>3. running = <<>> => items' = <<>>
      BY <1>2, <1>4, EmptySeq
    <2>5. running' = running
      BY <1>1
    <2>6. QED
      BY <1>1, <1>4, <2>1, <2>2, <2>3, <2>5 DEF Batch
  <1>9. Caches'
    BY <1>1, CachesKept DEF IInv, Held, Unsampled, Context, seqVars
  <1>10. Seen'
    BY <1>1, <1>4 DEF Seen
  <1>11. QED
    BY <1>5, <1>6, <1>7, <1>8, <1>9, <1>10 DEF IInv

LEMMA ForwardItemInv ==
  ASSUME IInv, ForwardItem
  PROVE  IInv'
  <1>1. pc = "forward" /\ scan \in 1..Len(items) /\ scan \in Nat \ {0} /\ Len(items) \in Nat
    BY DEF ForwardItem, IInv, Shape
  <1>2. PICK id, rows : id = items[scan].id /\ rows = Appended(cache[id], items[scan].tokens)
    OBVIOUS
  <1>3. /\ cache' = [cache EXCEPT ![id].rows = rows]
        /\ items' = [items EXCEPT ![scan].seen = ContextOf(rows)] /\ scan' = scan + 1
        /\ UNCHANGED <<seqVars, waiting, running, next_id, pc>>
    BY <1>2 DEF ForwardItem
  <1>4. id \in Seqs /\ status[id] = "Running" /\ items[scan] \in Item
        /\ items[scan].tokens = StepTokens(id)
    BY <1>1, <1>2, ItemRunning
  <1>5. Held(id) = Cached(id) /\ cache[id].length = Held(id) /\ OwnRows(id, Held(id))
    BY <1>1, <1>4 DEF IInv, Caches, Held, Cached, Unsampled
  <1>6. /\ rows \in Seq(Rows) /\ Len(rows) = Len(Context(id)) /\ ContextOf(rows) = Context(id)
        /\ \A r \in 1..Len(rows) : rows[r] = SubSeq(Context(id), 1, r)
    <2>1. rows = Appended(cache[id], StepTokens(id))
      BY <1>2, <1>4
    <2>2. QED
      BY <1>4, <1>5, <2>1, AppendedRows DEF IInv
  <1>7. /\ Context(id) \in Seq(Tokens) /\ Len(Context(id)) \in Nat /\ Held(id) \in Nat
        /\ Held(id) <= Len(Context(id))
    <2>1. Context(id) \in Seq(Tokens) /\ Len(Context(id)) \in Nat
      BY <1>4, ContextIn
    <2>2. /\ Len(StepTokens(id)) \in Nat /\ Cached(id) \in Nat
          /\ Cached(id) + Len(StepTokens(id)) = Len(Context(id))
      BY <1>4, StepTokensComplete DEF IInv
    <2>3. QED
      BY <1>5, <2>1, <2>2
  <1>8. /\ cache'[id].length = cache[id].length /\ cache'[id].capacity = cache[id].capacity
        /\ cache'[id].rows = rows /\ \A q \in Seqs : q # id => cache'[q] = cache[q]
        /\ cache' \in [Seqs -> [capacity : Int, length : Nat, rows : Seq(Rows)]]
    BY <1>3, <1>4, <1>6 DEF IInv, Shape
  <1>9. /\ items' \in Seq(Item) /\ Len(items') = Len(items) /\ items'[scan].seen = Context(id)
        /\ \A k \in 1..Len(items) : k # scan => items'[k] = items[k]
        /\ \A k \in 1..Len(items) : items'[k].id = items[k].id /\ items'[k].tokens = items[k].tokens
    <2>1. items \in Seq(Item) /\ DOMAIN items = 1..Len(items)
      BY DEF IInv, Shape
    <2>2. [items[scan] EXCEPT !.seen = Context(id)] \in Item
      BY <1>4, <1>7 DEF Item, Rows
    <2>3. items' = [items EXCEPT ![scan] = [items[scan] EXCEPT !.seen = Context(id)]]
      BY <1>1, <1>3, <1>6, <2>1
    <2>4. items' \in Seq(Item) /\ Len(items') = Len(items)
      BY <1>1, <2>1, <2>2, <2>3, ExceptSeq
    <2>5. /\ items'[scan] = [items[scan] EXCEPT !.seen = Context(id)]
          /\ \A k \in 1..Len(items) : k # scan => items'[k] = items[k]
      BY <1>1, <2>1, <2>3
    <2>6. /\ items'[scan].id = items[scan].id /\ items'[scan].tokens = items[scan].tokens
          /\ items'[scan].seen = Context(id)
      BY <1>4, <2>5 DEF Item
    <2>7. QED
      BY <2>4, <2>5, <2>6
  <1>10. \A q : /\ Context(q)' = Context(q) /\ StepTokens(q)' = StepTokens(q)
                /\ Held(q)' = Held(q)
    BY <1>1, <1>3 DEF Context, StepTokens, Held, Unsampled, seqVars
  <1>11. Shape'
    BY <1>1, <1>3, <1>8, <1>9 DEF IInv, Shape, seqVars
  <1>12. Lives'
    <2>1. ASSUME NEW q \in Seqs PROVE Life(q)'
      <3>1. Life(q) /\ cache'[q].capacity = cache[q].capacity
            /\ (status[q] # "Running" => cache'[q] = cache[q])
        BY <1>4, <1>8 DEF IInv, Lives
      <3>2. QED
        BY <1>3, <3>1 DEF Life, seqVars
    <2>2. QED
      BY <2>1 DEF Lives
  <1>13. Queues'
    BY <1>1, <1>3 DEF IInv, Queues, seqVars
  <1>14. Batch'
    BY <1>1, <1>3, <1>9, <1>10 DEF IInv, Batch
  <1>15. Caches'
    <2>1. ASSUME NEW q \in Seqs, status[q] = "Running"
          PROVE  cache'[q].length = Held(q) /\ OwnRows(q, Held(q))'
      <3>1. cache[q].length = Held(q) /\ OwnRows(q, Held(q))
        BY <2>1 DEF IInv, Caches
      <3>2. CASE q = id
        BY <1>6, <1>7, <1>8, <1>10, <3>1, <3>2 DEF OwnRows
      <3>3. CASE q # id
        BY <1>8, <1>10, <3>1, <3>3 DEF OwnRows
      <3>4. QED
        BY <3>2, <3>3
    <2>2. status' = status
      BY <1>3 DEF seqVars
    <2>3. QED
      BY <1>10, <2>1, <2>2 DEF Caches
  <1>16. Seen'
    <2>1. ASSUME NEW k \in 1..Len(items), k < scan + 1
          PROVE  /\ items'[k].seen = Context(items[k].id)
                 /\ Len(cache'[items[k].id].rows) = Len(Context(items[k].id))
                 /\ \A r \in 1..Len(Context(items[k].id)) :
                       cache'[items[k].id].rows[r] = SubSeq(Context(items[k].id), 1, r)
      <3>1. CASE k = scan
        BY <1>2, <1>6, <1>8, <1>9, <3>1
      <3>2. CASE k # scan
        <4>1. k < scan
          BY <1>1, <2>1, <3>2
        <4>2. items[k].id # id /\ items[k].id \in Seqs
          BY <1>1, <1>2, <3>2, ItemsDistinct, ItemRunning
        <4>3. cache'[items[k].id] = cache[items[k].id] /\ items'[k] = items[k]
          BY <1>8, <1>9, <3>2, <4>2
        <4>4. QED
          BY <1>1, <4>1, <4>3 DEF IInv, Seen, OwnRows
      <3>3. QED
        BY <3>1, <3>2
    <2>2. ASSUME NEW k \in 1..Len(items) PROVE Len(Context(items[k].id)) \in Nat
      BY <1>1, ItemRunning, ContextIn
    <2>3. pc' = "forward" /\ scan' = scan + 1 /\ Len(items') = Len(items)
          /\ request' = request /\ output' = output
      BY <1>1, <1>3, <1>9 DEF seqVars
    <2>4. \A q : Context(q)' = Context(q)
      BY <2>3 DEF Context
    <2>5. ASSUME NEW k \in 1..Len(items), k < scan + 1, NEW q, q = items[k].id
          PROVE  /\ items'[k].seen = Context(q)' /\ Len(cache'[q].rows) = Len(Context(q)')
                 /\ OwnRows(q, Len(Context(q)))'
      BY <2>1, <2>2, <2>4, <2>5 DEF OwnRows
    <2>6. QED
      BY <1>9, <2>3, <2>5 DEF Seen
  <1>17. QED
    BY <1>11, <1>12, <1>13, <1>14, <1>15, <1>16 DEF IInv

LEMMA AdvanceInv ==
  ASSUME IInv, Advance
  PROVE  IInv'
  <1> DEFINE InBatch(id) == \E k \in DOMAIN items : items[k].id = id
  <1>0. DOMAIN items = 1..Len(items) /\ DOMAIN running = 1..Len(running)
    BY DEF IInv, Shape
  <1>1. /\ pc = "forward" /\ scan > Len(items) /\ pc' = "sample" /\ scan' = 1
        /\ UNCHANGED <<seqVars, waiting, running, next_id, items>>
        /\ cache' = [id \in Seqs |-> IF InBatch(id)
                                      THEN [cache[id] EXCEPT !.length = Len(cache[id].rows)]
                                      ELSE cache[id]]
    BY DEF Advance
  <1>2. ASSUME NEW id \in Seqs PROVE InBatch(id) <=> status[id] = "Running"
    <2>1. Len(items) = Len(running) /\ \A k \in 1..Len(items) : items[k].id = running[k]
      BY <1>1 DEF IInv, Batch
    <2>2. InBatch(id) <=> id \in Entries(running)
      BY <1>0, <2>1 DEF Entries
    <2>3. QED
      BY <1>1, <2>2 DEF IInv, Queues
  <1>3. ASSUME NEW id \in Seqs, status[id] = "Running"
        PROVE  /\ Len(cache[id].rows) = Len(Context(id)) /\ OwnRows(id, Len(Context(id)))
               /\ \A k \in 1..Len(items) : items[k].id = id => items[k].seen = Context(id)
    <2>1. PICK k \in 1..Len(items) : items[k].id = id
      BY <1>0, <1>2, <1>3
    <2>2. Len(items) \in Nat /\ scan \in Nat
      BY DEF IInv, Shape
    <2>3. \A j \in 1..Len(items) : j < scan
      BY <1>1, <2>2
    <2>4. QED
      BY <1>1, <2>1, <2>3 DEF IInv, Seen
  <1>4. ASSUME NEW id \in Seqs
        PROVE  /\ cache'[id].capacity = cache[id].capacity /\ cache'[id].rows = cache[id].rows
               /\ cache'[id] \in [capacity : Int, length : Nat, rows : Seq(Rows)]
               /\ status[id] # "Running" => cache'[id] = cache[id]
               /\ status[id] = "Running" => cache'[id].length = Len(Context(id))
    <2>1. cache[id] \in [capacity : Int, length : Nat, rows : Seq(Rows)]
      BY DEF IInv, Shape
    <2>2. Len(cache[id].rows) \in Nat
      BY <2>1
    <2>3. CASE status[id] = "Running"
      BY <1>1, <1>2, <1>3, <2>1, <2>2, <2>3
    <2>4. CASE status[id] # "Running"
      BY <1>1, <1>2, <2>1, <2>4
    <2>5. QED
      BY <2>3, <2>4
  <1> HIDE DEF InBatch
  <1>5. Shape'
    BY <1>1, <1>4 DEF IInv, Shape, seqVars
  <1>6. Lives'
    <2>1. ASSUME NEW id \in Seqs PROVE Life(id)'
      <3>1. Life(id)
        BY DEF IInv, Lives
      <3>2. QED
        BY <1>1, <1>4, <3>1 DEF Life, seqVars
    <2>2. QED
      BY <2>1 DEF Lives
  <1>7. Queues'
    <2>1. ASSUME NEW id \in Seqs, status[id] = "Finished", NEW k \in DOMAIN items, items[k].id = id
          PROVE  FALSE
      <3>1. k \in 1..Len(items)
        BY <1>0
      <3>2. QED
        BY <1>1, <2>1, <3>1, ItemRunning
    <2>2. QED
      BY <1>1, <2>1 DEF IInv, Queues, seqVars
  <1>8. Batch'
    BY <1>1 DEF IInv, Batch
  <1>9. Caches'
    <2>1. ASSUME NEW id \in Seqs, status[id] = "Running"
          PROVE  cache'[id].length = Held(id)' /\ OwnRows(id, Held(id))'
      <3>1. Unsampled(id)'
        <4>1. PICK k \in 1..Len(items) : items[k].id = id
          BY <1>0, <1>2, <2>1 DEF InBatch
        <4>2. k >= 1
          OBVIOUS
        <4>3. QED
          BY <1>1, <4>1, <4>2 DEF Unsampled
      <3>2. Held(id)' = Len(Context(id)) /\ Context(id)' = Context(id)
        BY <1>1, <3>1 DEF Held, Context, seqVars
      <3>3. QED
        BY <1>3, <1>4, <2>1, <3>2 DEF OwnRows
    <2>2. status' = status
      BY <1>1 DEF seqVars
    <2>3. QED
      BY <2>1, <2>2 DEF Caches
  <1>10. Seen'
    <2>1. ASSUME NEW k \in 1..Len(items)
          PROVE  status[items[k].id] = "Running" /\ items[k].seen = Context(items[k].id)
      BY <1>1, <1>3, ItemRunning
    <2>2. /\ pc' = "sample" /\ status' = status /\ items' = items
          /\ output' = output /\ request' = request
      BY <1>1 DEF seqVars
    <2>3. QED
      BY <2>1, <2>2 DEF Seen, Context
  <1>11. QED
    BY <1>5, <1>6, <1>7, <1>8, <1>9, <1>10 DEF IInv

LEMMA ItemUnsampled ==
  ASSUME IInv, pc = "sample", NEW k \in 1..Len(items), k >= scan
  PROVE  /\ items[k].id \in Seqs /\ status[items[k].id] = "Running"
         /\ items[k].seen = Context(items[k].id) /\ items[k].seen # Junk
         /\ Unsampled(items[k].id)
  <1>1. items[k] \in Item
    BY DEF IInv, Shape
  <1>2. items[k].id \in Seqs /\ status[items[k].id] = "Running"
        /\ items[k].seen = Context(items[k].id)
    BY <1>1 DEF Item, IInv, Seen
  <1>3. Context(items[k].id) \in Seq(Tokens)
    BY <1>2, ContextIn
  <1>4. QED
    BY <1>2, <1>3, JunkAssumption DEF Unsampled

\* The token an item draws is one the sampler may choose after its context.
LEMMA SampleItemToken ==
  ASSUME IInv, SampleItem
  PROVE  /\ scan \in 1..Len(items)
         /\ \E id \in Seqs : \E token \in Sample(Context(id)) :
              /\ id = items[scan].id /\ status[id] = "Running"
              /\ output' = [output EXCEPT ![id] = Append(@, token)]
              /\ prefilled' = [prefilled EXCEPT ![id] = TRUE]
              /\ status' = IF Stops(id, token) THEN [status EXCEPT ![id] = "Finished"] ELSE status
              /\ cache' = IF Stops(id, token) THEN [cache EXCEPT ![id] = NoCache] ELSE cache
  <1>1. pc = "sample" /\ scan \in 1..Len(items) /\ scan >= scan
    BY DEF SampleItem, IInv, Shape
  <1>2. PICK id : id = items[scan].id
    OBVIOUS
  <1>3. id \in Seqs /\ status[id] = "Running" /\ items[scan].seen = Context(id)
        /\ items[scan].seen # Junk
    BY <1>1, <1>2, ItemUnsampled
  <1>4. QED
    BY <1>1, <1>2, <1>3 DEF SampleItem

LEMMA AppendRows ==
  ASSUME NEW T, NEW p \in Seq(T), NEW o \in Seq(T), NEW x \in T
  PROVE  /\ Len(p \o Append(o, x)) = Len(p \o o) + 1
         /\ \A r \in 1..Len(p \o o) : SubSeq(p \o Append(o, x), 1, r) = SubSeq(p \o o, 1, r)
  <1>0. Len(p \o Append(o, x)) = Len(p \o o) + 1
    OBVIOUS
  <1> SUFFICES ASSUME NEW r \in 1..Len(p \o o)
               PROVE  SubSeq(p \o Append(o, x), 1, r) = SubSeq(p \o o, 1, r)
    BY <1>0
  <1> DEFINE a == SubSeq(p \o Append(o, x), 1, r)
             b == SubSeq(p \o o, 1, r)
  <1>1. /\ Len(p) \in Nat /\ Len(o) \in Nat /\ p \o o \in Seq(T) /\ Len(p \o o) = Len(p) + Len(o)
        /\ Append(o, x) \in Seq(T) /\ p \o Append(o, x) \in Seq(T)
        /\ Len(p \o Append(o, x)) = Len(p) + Len(o) + 1
    OBVIOUS
  <1>2. a \in Seq(T) /\ Len(a) = r
    BY <1>1
  <1>3. b \in Seq(T) /\ Len(b) = r
    BY <1>1
  <1>4. ASSUME NEW k \in 1..r PROVE a[k] = b[k]
    BY <1>1
  <1> HIDE DEF a, b
  <1>5. a = b
    BY <1>2, <1>3, <1>4, SeqEqual
  <1>6. QED
    BY <1>5 DEF a, b

LEMMA SampleItemInv ==
  ASSUME IInv, SampleItem, SampleAssumption
  PROVE  IInv'
  <1>1. PICK id \in Seqs : \E token \in Sample(Context(id)) :
          /\ id = items[scan].id /\ status[id] = "Running"
          /\ output' = [output EXCEPT ![id] = Append(@, token)]
          /\ prefilled' = [prefilled EXCEPT ![id] = TRUE]
          /\ status' = IF Stops(id, token) THEN [status EXCEPT ![id] = "Finished"] ELSE status
          /\ cache' = IF Stops(id, token) THEN [cache EXCEPT ![id] = NoCache] ELSE cache
    BY SampleItemToken
  <1>2. PICK token \in Sample(Context(id)) :
          /\ output' = [output EXCEPT ![id] = Append(@, token)]
          /\ prefilled' = [prefilled EXCEPT ![id] = TRUE]
          /\ status' = IF Stops(id, token) THEN [status EXCEPT ![id] = "Finished"] ELSE status
          /\ cache' = IF Stops(id, token) THEN [cache EXCEPT ![id] = NoCache] ELSE cache
    BY <1>1
  <1>3. /\ scan \in 1..Len(items) /\ scan \in Nat \ {0} /\ scan' = scan + 1 /\ pc = "sample"
        /\ Len(items) \in Nat /\ DOMAIN items = 1..Len(items)
        /\ UNCHANGED <<request, waiting, running, next_id, pc, items>>
    BY SampleItemToken DEF SampleItem, IInv, Shape
  <1>4. status[id] = "Running" /\ id = items[scan].id
    BY <1>1
  <1>5. /\ Context(id) \in Seq(Tokens) /\ Len(Context(id)) \in Nat /\ token \in Tokens
        /\ output[id] \in Seq(Tokens) /\ Len(output[id]) \in Nat
        /\ request[id].prompt \in Seq(Tokens) /\ request[id].max_tokens \in Int
    <2>1. Context(id) \in Seq(Tokens) /\ Len(Context(id)) \in Nat
      BY <1>4, ContextIn
    <2>2. Shape /\ Lives
      BY DEF IInv
    <2>3. output[id] \in Seq(Tokens) /\ request[id].prompt \in Seq(Tokens)
          /\ request[id].max_tokens \in Int
      BY <1>4, <2>2, RunningContext
    <2>4. QED
      BY <1>2, <2>1, <2>3 DEF SampleAssumption
  <1>6. /\ output'[id] = Append(output[id], token) /\ prefilled'[id] = TRUE
        /\ status'[id] = IF Stops(id, token) THEN "Finished" ELSE "Running"
        /\ cache'[id] = IF Stops(id, token) THEN NoCache ELSE cache[id]
    BY <1>2, <1>4 DEF IInv, Shape
  <1>7. \A q \in Seqs : q # id =>
          /\ output'[q] = output[q] /\ prefilled'[q] = prefilled[q] /\ status'[q] = status[q]
          /\ cache'[q] = cache[q]
    BY <1>2 DEF IInv, Shape
  <1>8. output'[id] \in Seq(Tokens) /\ Len(output'[id]) = Len(output[id]) + 1 /\ output'[id] # <<>>
    BY <1>5, <1>6
  <1>9. Shape'
    <2>1. NoCache \in [capacity : Int, length : Nat, rows : Seq(Rows)]
      BY DEF NoCache
    <2>2. cache' \in [Seqs -> [capacity : Int, length : Nat, rows : Seq(Rows)]]
      BY <1>2, <2>1 DEF IInv, Shape
    <2>3. output' \in [Seqs -> Seq(Tokens)]
      BY <1>2, <1>5 DEF IInv, Shape
    <2>4. status' \in [Seqs -> {"Waiting", "Running", "Finished"}] /\ prefilled' \in [Seqs -> BOOLEAN]
      BY <1>2 DEF IInv, Shape
    <2>5. QED
      BY <1>3, <2>2, <2>3, <2>4 DEF IInv, Shape
  <1>10. Lives'
    <2>1. ASSUME NEW q \in Seqs, q # id PROVE Life(q)'
      <3>1. Life(q)
        BY DEF IInv, Lives
      <3>2. QED
        BY <1>3, <1>7, <2>1, <3>1 DEF Life
    <2>2. Life(id)'
      <3>1. Life(id) /\ request' = request /\ next_id' = next_id
        BY <1>3 DEF IInv, Lives
      <3>2. ~ (id >= next_id)
        BY <1>4, <3>1 DEF Life
      <3>3. CASE Stops(id, token)
        BY <1>6, <1>8, <3>1, <3>2, <3>3 DEF Life
      <3>4. CASE ~ Stops(id, token)
        <4>1. Len(output'[id]) < request[id].max_tokens
          BY <1>5, <1>8, <3>4 DEF Stops
        <4>2. QED
          BY <1>4, <1>6, <1>8, <3>1, <3>2, <3>4, <4>1 DEF Life
      <3>5. QED
        BY <3>3, <3>4
    <2>3. QED
      BY <2>1, <2>2 DEF Lives
  <1>11. Queues'
    <2>1. Distinct(waiting)' /\ Distinct(running)'
      BY <1>3 DEF IInv, Queues
    <2>2. Entries(waiting') = Entries(waiting) /\ Entries(running') = Entries(running)
      BY <1>3
    <2>3. ASSUME NEW q \in Seqs
          PROVE  /\ q \in Entries(waiting) <=> q < next_id /\ status'[q] = "Waiting"
                 /\ q \in Entries(running) <=>
                      \/ status'[q] = "Running"
                      \/ status'[q] = "Finished" /\ \E k \in DOMAIN items : items[k].id = q
      <3>1. /\ q \in Entries(waiting) <=> q < next_id /\ status[q] = "Waiting"
            /\ q \in Entries(running) <=>
                 \/ status[q] = "Running"
                 \/ status[q] = "Finished" /\ \E k \in DOMAIN items : items[k].id = q
        BY <1>3 DEF IInv, Queues
      <3>2. CASE q = id
        BY <1>3, <1>4, <1>6, <3>1, <3>2
      <3>3. CASE q # id
        BY <1>7, <3>1, <3>3
      <3>4. QED
        BY <3>2, <3>3
    <2>4. QED
      BY <1>3, <2>1, <2>2, <2>3 DEF Queues
  <1>12. Batch'
    BY <1>3 DEF IInv, Batch
  <1>13. \A k \in 1..Len(items) : items[k].id = id => k = scan
    BY <1>3, <1>4, ItemsDistinct
  <1>14. Caches'
    <2>1. ASSUME NEW q \in Seqs, status'[q] = "Running"
          PROVE  cache'[q].length = Held(q)' /\ OwnRows(q, Held(q))'
      <3>1. CASE q = id
        <4>1. ~ Stops(id, token) /\ cache'[id] = cache[id]
          BY <1>6, <2>1, <3>1
        <4>2. Unsampled(id) /\ ~ Unsampled(id)'
          BY <1>3, <1>4, <1>13 DEF Unsampled
        <4>3. Held(id) = Len(Context(id)) /\ cache[id].length = Held(id) /\ OwnRows(id, Held(id))
          BY <1>4, <4>2 DEF Held, IInv, Caches
        <4>4. PICK p, o, c : /\ p = request[id].prompt /\ o = output[id] /\ c = Context(id)'
                             /\ c = p \o Append(o, token) /\ Context(id) = p \o o
          BY <1>3, <1>6 DEF Context
        <4>5. Len(c) = Len(Context(id)) + 1
          BY <1>5, <4>4, AppendRows
        <4>6. Held(id)' = Len(Context(id))
          <5>1. Held(id)' = Len(c) - 1
            BY <1>6, <4>2, <4>4, Zenon DEF Held
          <5>2. QED
            BY <1>5, <4>5, <5>1
        <4>7. ASSUME NEW r \in 1..Len(Context(id)) PROVE SubSeq(c, 1, r) = SubSeq(Context(id), 1, r)
          <5>1. /\ p \in Seq(Tokens) /\ o \in Seq(Tokens) /\ token \in Tokens
                /\ r \in 1..Len(p \o o)
            BY <1>5, <4>4, <4>7, Zenon
          <5>2. SubSeq(p \o Append(o, token), 1, r) = SubSeq(p \o o, 1, r)
            BY <5>1, AppendRows
          <5>3. QED
            BY <4>4, <5>2, Zenon
        <4>8. OwnRows(id, Held(id))'
          BY <4>1, <4>3, <4>4, <4>6, <4>7 DEF OwnRows
        <4>9. QED
          BY <3>1, <4>1, <4>3, <4>6, <4>8
      <3>2. CASE q # id
        <4>1. status[q] = "Running" /\ cache'[q] = cache[q] /\ prefilled'[q] = prefilled[q]
              /\ Context(q)' = Context(q)
          BY <1>3, <1>7, <2>1, <3>2 DEF Context
        <4>2. Unsampled(q)' <=> Unsampled(q)
          <5>1. ASSUME NEW k \in 1..Len(items), items[k].id = q
                PROVE  k >= scan + 1 <=> k >= scan
            BY <1>3, <1>4, <3>2, <5>1
          <5>2. QED
            BY <1>3, <5>1 DEF Unsampled
        <4>3. Held(q)' = Held(q)
          BY <4>1, <4>2 DEF Held
        <4>4. cache[q].length = Held(q) /\ OwnRows(q, Held(q))
          BY <4>1 DEF IInv, Caches
        <4>5. QED
          BY <4>1, <4>3, <4>4 DEF OwnRows
      <3>3. QED
        BY <3>1, <3>2
    <2>2. QED
      BY <2>1 DEF Caches
  <1>15. Seen'
    <2>1. ASSUME NEW k \in 1..Len(items), k >= scan + 1
          PROVE  /\ status'[items[k].id] = "Running"
                 /\ items[k].seen = request[items[k].id].prompt \o output'[items[k].id]
      <3>1. k >= scan /\ k # scan
        BY <1>3, <2>1
      <3>2. /\ items[k].id \in Seqs /\ status[items[k].id] = "Running"
            /\ items[k].seen = Context(items[k].id)
        BY <1>3, <3>1, ItemUnsampled
      <3>3. items[k].id # id
        BY <1>13, <3>1
      <3>4. QED
        BY <1>7, <3>2, <3>3 DEF Context
    <2>2. QED
      BY <1>3, <2>1 DEF Seen, Context
  <1>16. QED
    BY <1>9, <1>10, <1>11, <1>12, <1>14, <1>15 DEF IInv

LEMMA RetireInv ==
  ASSUME IInv, Retire
  PROVE  IInv'
  <1> DEFINE gone == {id \in Seqs : status[id] = "Finished"}
  <1>1. /\ pc = "sample" /\ scan > Len(items) /\ running' = Without(running, gone)
        /\ pc' = "idle" /\ scan' = 1 /\ items' = <<>>
        /\ UNCHANGED <<seqVars, cache, waiting, next_id>>
    BY DEF Retire, ReturnFromStep
  <1>2. /\ running' \in Seq(Seqs) /\ Entries(running') = Entries(running) \ gone
        /\ Distinct(running')
    <2>1. running \in Seq(Seqs) /\ Distinct(running)
      BY DEF IInv, Shape, Queues
    <2>2. /\ Without(running, gone) \in Seq(Seqs)
          /\ Entries(Without(running, gone)) = Entries(running) \ gone
          /\ Distinct(Without(running, gone))
      BY <2>1, WithoutProperties
    <2>3. QED
      BY <1>1, <2>2
  <1>3. Shape'
    BY <1>1, <1>2 DEF IInv, Shape, seqVars
  <1>4. Lives'
    BY <1>1 DEF IInv, Lives, Life, seqVars
  <1>5. Queues'
    <2>1. ASSUME NEW id \in Seqs
          PROVE  /\ id \in Entries(waiting) <=> id < next_id /\ status[id] = "Waiting"
                 /\ id \in Entries(running') <=> status[id] = "Running"
      BY <1>1, <1>2 DEF IInv, Queues, gone
    <2>2. Distinct(waiting)
      BY DEF IInv, Queues
    <2>3. waiting' = waiting /\ next_id' = next_id /\ status' = status /\ pc' = "idle"
      BY <1>1 DEF seqVars
    <2>4. QED
      BY <1>2, <2>1, <2>2, <2>3 DEF Queues
  <1>6. Batch' /\ Seen'
    BY <1>1 DEF Batch, Seen
  <1>7. Caches'
    <2>1. Len(items) \in Nat /\ scan \in Nat
      BY DEF IInv, Shape
    <2>2. \A id : ~ Unsampled(id) /\ ~ Unsampled(id)'
      BY <1>1, <2>1 DEF Unsampled
    <2>3. QED
      BY <1>1, <2>2, CachesKept DEF IInv, Held, Context, seqVars
  <1>8. QED
    BY <1>3, <1>4, <1>5, <1>6, <1>7 DEF IInv

LEMMA NextInv ==
  ASSUME IInv, [Next]_vars, SampleAssumption
  PROVE  IInv'
  <1>1. CASE UNCHANGED vars
    <2>1. Shape' /\ Batch'
      BY <1>1 DEF IInv, Shape, Batch, StepTokens, vars, seqVars
    <2>2. Lives' /\ Queues'
      BY <1>1 DEF IInv, Lives, Life, Queues, vars, seqVars
    <2>3. Caches' /\ Seen'
      BY <1>1 DEF IInv, Caches, Seen, OwnRows, Held, Unsampled, Context, vars, seqVars
    <2>4. QED
      BY <2>1, <2>2, <2>3 DEF IInv
  <1>2. ASSUME NEW r \in RequestKinds, AddRequest(r) PROVE IInv'
    BY <1>2, AddRequestInv
  <1>3. CASE BeginStep
    BY <1>3, BeginStepInv
  <1>4. CASE Admit
    BY <1>4, AdmitInv
  <1>5. CASE AdmitThrows
    BY <1>5, AdmitThrowsInv
  <1>6. CASE Assemble
    BY <1>6, AssembleInv
  <1>7. CASE ForwardItem
    BY <1>7, ForwardItemInv
  <1>8. CASE ForwardThrows
    BY <1>8, ForwardThrowsInv
  <1>9. CASE Advance
    BY <1>9, AdvanceInv
  <1>10. CASE SampleItem
    BY <1>10, SampleItemInv
  <1>11. CASE Retire
    BY <1>11, RetireInv
  <1>12. QED
    BY <1>1, <1>2, <1>3, <1>4, <1>5, <1>6, <1>7, <1>8, <1>9, <1>10, <1>11
       DEF Next, StepNext, Done

LEMMA Invariant == SampleAssumption => (Spec => []IInv)
  <1> SUFFICES ASSUME SampleAssumption PROVE Spec => []IInv
    OBVIOUS
  <1>1. Init => IInv
    BY InitInv
  <1>2. IInv /\ [Next]_vars => IInv'
    BY NextInv
  <1>3. QED
    BY <1>1, <1>2, PTL DEF Spec

-----------------------------------------------------------------------------
(* The properties. *)

\* Every live request is in one queue, once, and the running set is the set of
\* sequences with a cache: admission, retirement and the exceptions that leave
\* step() at any point keep the queues, the statuses and the caches together.
THEOREM QueuesAreExact == SampleAssumption => (Spec => []QueuesExact)
  <1> SUFFICES ASSUME SampleAssumption PROVE Spec => []QueuesExact
    OBVIOUS
  <1>1. ASSUME IInv PROVE QueuesExact
    <2>1. waiting \in Seq(Seqs) /\ running \in Seq(Seqs)
      BY <1>1 DEF IInv, Shape
    <2>2. Entries(waiting) \subseteq Seqs
      BY <2>1, EntriesIn
    <2>3. ASSUME NEW id \in Seqs PROVE ~ (id \in Entries(waiting) /\ id \in Entries(running))
      BY <1>1 DEF IInv, Queues
    <2>4. Entries(waiting) \cap Entries(running) = {}
      BY <2>2, <2>3
    <2>5. Distinct(waiting \o running)
      BY <1>1, <2>1, <2>4, DistinctConcat DEF IInv, Queues
    <2>6. ASSUME NEW id \in Seqs PROVE status[id] = "Running" <=> cache[id].capacity > 0
      <3>1. Life(id)
        BY <1>1 DEF IInv, Lives
      <3>2. QED
        BY <3>1 DEF Life, NoCache
    <2>7. QED
      BY <1>1, <2>5, <2>6 DEF QueuesExact, Distinct, IInv, Queues
  <1>2. QED
    BY <1>1, Invariant, PTL

\* A running sequence feeds its cache no more than it has room for: the context
\* of one that goes on is shorter than the rows its request was given.
THEOREM CachesNeverFull == SampleAssumption => (Spec => []CacheNeverFull)
  <1> SUFFICES ASSUME SampleAssumption PROVE Spec => []CacheNeverFull
    OBVIOUS
  <1>1. ASSUME IInv PROVE CacheNeverFull
    <2> SUFFICES ASSUME pc = "forward", scan <= Len(items),
                        request[items[scan].id].max_tokens >= 0
                 PROVE  Fits(cache[items[scan].id], items[scan].tokens)
      BY DEF CacheNeverFull
    <2>1. scan \in 1..Len(items)
      BY <1>1 DEF IInv, Shape
    <2>2. PICK id : id = items[scan].id
      OBVIOUS
    <2>3. id \in Seqs /\ status[id] = "Running" /\ items[scan].tokens = StepTokens(id)
      BY <1>1, <2>1, <2>2, ItemRunning
    <2>4. Shape /\ Lives /\ Life(id)
      BY <1>1, <2>3 DEF IInv, Lives
    <2>5. cache[id].length = Cached(id)
      BY <1>1, <2>3 DEF IInv, Caches, Held, Unsampled, Cached
    <2>6. /\ Cached(id) \in Nat /\ Len(StepTokens(id)) \in Nat
          /\ Cached(id) + Len(StepTokens(id)) = Len(Context(id))
      BY <2>3, <2>4, StepTokensComplete
    <2>7. /\ Len(Context(id)) = Len(request[id].prompt) + Len(output[id])
          /\ Len(request[id].prompt) \in Nat /\ Len(output[id]) \in Nat
          /\ request[id] \in RequestKinds /\ request[id].max_tokens \in Int
      BY <2>3, <2>4, RunningContext
    <2>8. Len(output[id]) <= request[id].max_tokens
      <3>1. CASE output[id] = <<>>
        <4>1. Len(output[id]) = 0 /\ request[id].max_tokens >= 0
          BY <2>2, <3>1
        <4>2. QED
          BY <4>1
      <3>2. CASE output[id] # <<>>
        BY <2>3, <2>4, <2>7, <3>2 DEF Life
      <3>3. QED
        BY <3>1, <3>2
    <2>9. cache[id].capacity = Len(request[id].prompt) + request[id].max_tokens
      BY <2>3, <2>4 DEF Life, Capacity
    <2>10. cache[id].length + Len(items[scan].tokens) <= cache[id].capacity
      <3>1. PICK p, o, b, a, l, n, x :
              /\ p = Len(request[id].prompt) /\ o = Len(output[id]) /\ b = request[id].max_tokens
              /\ a = cache[id].capacity /\ l = cache[id].length /\ n = Len(items[scan].tokens)
              /\ x = Len(Context(id))
        OBVIOUS
      <3>2. p \in Nat /\ o \in Nat /\ b \in Int /\ l \in Nat /\ n \in Nat
        BY <2>3, <2>5, <2>6, <2>7, <3>1
      <3>3. o <= b /\ a = p + b /\ l + n = x /\ x = p + o
        BY <2>3, <2>5, <2>6, <2>7, <2>8, <2>9, <3>1, Zenon
      <3>4. l + n <= a
        BY <3>2, <3>3
      <3>5. QED
        BY <3>1, <3>4
    <2>11. QED
      BY <2>2, <2>10 DEF Fits
  <1>2. QED
    BY <1>1, Invariant, PTL

\* A failed forward leaves no row that a later one counts: between steps a cache
\* is as long as the context but its last token, or empty before the prefill.
THEOREM LengthsMatchContexts == SampleAssumption => (Spec => []LengthMatchesContext)
  <1> SUFFICES ASSUME SampleAssumption PROVE Spec => []LengthMatchesContext
    OBVIOUS
  <1>1. ASSUME IInv PROVE LengthMatchesContext
    <2> SUFFICES ASSUME NEW id \in Entries(running), pc \in {"idle", "admit"}
                 PROVE  cache[id].length = IF prefilled[id]
                          THEN Len(request[id].prompt) + Len(output[id]) - 1 ELSE 0
      BY DEF LengthMatchesContext
    <2>1. id \in Seqs
      BY <1>1, EntriesIn DEF IInv, Shape
    <2>2. status[id] = "Running"
      BY <1>1, <2>1 DEF IInv, Queues
    <2>3. cache[id].length = Cached(id)
      BY <1>1, <2>1, <2>2 DEF IInv, Caches, Held, Unsampled, Cached
    <2>4. Shape /\ Lives
      BY <1>1 DEF IInv
    <2>5. Len(Context(id)) = Len(request[id].prompt) + Len(output[id])
      BY <2>1, <2>2, <2>4, RunningContext
    <2>6. QED
      BY <2>3, <2>5 DEF Cached
  <1>2. QED
    BY <1>1, Invariant, PTL

-----------------------------------------------------------------------------
(* The GPU engine implements Serving. *)

Finished == {id \in Seqs : status[id] = "Finished"}

LEMMA RefinedInit == Init => Server!Init
  BY DEF Init, Server!Init

LEMMA AddRequestSubmits ==
  ASSUME IInv, NEW r \in RequestKinds, AddRequest(r)
  PROVE  Server!Next
  <1>1. next_id \in Seqs
    BY NumRequestsAssumption DEF AddRequest, IInv, Shape, Seqs
  <1>2. request[next_id] = NoRequest
    BY <1>1, NumRequestsAssumption DEF IInv, Lives, Life, Seqs
  <1>3. Server!Submit(next_id, r)
    BY <1>2 DEF AddRequest, Server!Submit
  <1>4. QED
    BY <1>1, <1>3 DEF Server!Next

LEMMA SampleItemEmits ==
  ASSUME IInv, SampleItem
  PROVE  Server!Next
  <1>1. PICK id \in Seqs : \E token \in Sample(Context(id)) :
          /\ status[id] = "Running"
          /\ output' = [output EXCEPT ![id] = Append(@, token)]
          /\ status' = IF Stops(id, token) THEN [status EXCEPT ![id] = "Finished"] ELSE status
    BY SampleItemToken
  <1>2. PICK token \in Sample(Context(id)) :
          /\ output' = [output EXCEPT ![id] = Append(@, token)]
          /\ status' = IF Stops(id, token) THEN [status EXCEPT ![id] = "Finished"] ELSE status
    BY <1>1
  <1>3. status[id] = "Running"
    BY <1>1
  <1>4. request[id] # NoRequest
    <2>1. Shape /\ Lives
      BY DEF IInv
    <2>2. request[id] \in RequestKinds
      BY <1>3, <2>1, RunningContext
    <2>3. QED
      BY <2>2, RequestAssumption
  <1>5. Finished' = IF token = request[id].eos \/ Len(output[id]) + 1 >= request[id].max_tokens
                    THEN Finished \cup {id} ELSE Finished
    <2>1. DOMAIN status = Seqs
      BY DEF IInv, Shape
    <2>2. CASE Stops(id, token)
      <3>1. \A q \in Seqs : status'[q] = IF q = id THEN "Finished" ELSE status[q]
        BY <1>2, <2>1, <2>2
      <3>2. QED
        BY <2>2, <3>1 DEF Finished, Stops
    <2>3. CASE ~ Stops(id, token)
      BY <1>2, <2>3 DEF Finished, Stops
    <2>4. QED
      BY <2>2, <2>3
  <1>6. id \notin Finished
    BY <1>3 DEF Finished
  <1>7. Server!Emit(id)
    BY <1>2, <1>4, <1>5, <1>6 DEF Server!Emit, Context, Finished, SampleItem
  <1>8. QED
    BY <1>7 DEF Server!Next

LEMMA StepRefines ==
  ASSUME IInv, [Next]_vars
  PROVE  [Server!Next]_Server!vars
  <1>1. CASE UNCHANGED <<request, output, status>>
    BY <1>1 DEF Server!vars
  <1>2. ASSUME NEW r \in RequestKinds, AddRequest(r) PROVE Server!Next
    BY <1>2, AddRequestSubmits
  <1>3. CASE SampleItem
    BY <1>3, SampleItemEmits
  <1>4. CASE Admit
    <2>1. \A id : id \in Finished <=> id \in Finished'
      <3>1. PICK id : id = Head(waiting) /\ status' = [status EXCEPT ![id] = "Running"]
        BY <1>4 DEF Admit
      <3>2. waiting \in Seq(Seqs) /\ waiting # <<>> /\ Distinct(waiting)
        BY <1>4 DEF Admit, Admitting, IInv, Shape, Queues
      <3>3. id \in Seqs /\ id \in Entries(waiting)
        BY <3>1, <3>2, TailQueue
      <3>4. status[id] = "Waiting"
        BY <3>3 DEF IInv, Queues
      <3>5. \A q \in Seqs : status'[q] = IF q = id THEN "Running" ELSE status[q]
        BY <3>1 DEF IInv, Shape
      <3>6. QED
        BY <3>4, <3>5 DEF Finished
    <2>2. Finished' = Finished
      BY <2>1
    <2>3. QED
      BY <1>4, <2>2 DEF Admit, Server!vars, Finished
  <1>5. QED
    BY <1>1, <1>2, <1>3, <1>4
       DEF Next, StepNext, Done, BeginStep, AdmitThrows, Assemble, ForwardItem, ForwardThrows,
           Advance, Retire, vars, seqVars

\* Whatever device call fails, every request is served as if it ran alone: its
\* output grows by tokens the sampler may draw after its own prompt and output,
\* and ends where its own budget and end-of-sequence token say.
THEOREM EngineServes == SampleAssumption => (Spec => ImplementsServing)
  <1> SUFFICES ASSUME SampleAssumption PROVE Spec => ImplementsServing
    OBVIOUS
  <1>1. Init => Server!Init
    BY RefinedInit
  <1>2. IInv /\ [Next]_vars => [Server!Next]_Server!vars
    BY StepRefines
  <1>3. QED
    BY <1>1, <1>2, Invariant, PTL DEF Spec, ImplementsServing, Server!Spec

=============================================================================
