---------------------------- MODULE Transformer ----------------------------
(***************************************************************************)
(* The forward pass, layer by layer: Model::forward_cached() and           *)
(* forward_batch() of src/model/model.cpp and their twins in               *)
(* src/cuda/model.cu.  A forward over several sequences concatenates their *)
(* new tokens into one matrix, runs every row-wise operator once over it,  *)
(* and only attention sequence by sequence, each over its own cache; then  *)
(* it projects the last row of each.  The paged forward gathers a          *)
(* sequence's rows into a scratch buffer that all of them share.           *)
(*                                                                         *)
(* A row is represented by the term that computes it, with the names of    *)
(* operators and weights; K and V of a row are kept together.  Failing     *)
(* forwards are in CudaEngine, GpuBlockManager and BlockManager.           *)
(***************************************************************************)
EXTENDS Integers, Sequences, FiniteSets, SequencesExt

CONSTANTS Texts,     \* Texts[s]: the tokens of sequence s, fed in pieces
          NumLayers  \* num_hidden_layers

Seqs == DOMAIN Texts

TextsAssumption == /\ IsFiniteSet(Seqs) /\ \A s \in Seqs : Texts[s] \in Seq(ToSet(Texts[s]))
                   /\ NumLayers \in Nat \ {0}

VARIABLES store,   \* "cache" or "paged": where the sequences keep their rows
          length,  \* length[s]: rows committed
          kv,      \* kv[s][l]: the rows of K and V at layer l
          items,   \* the batch: [seq, tokens]
          every,   \* the forward is forward_cached(), which projects every row
          layer, item,  \* where it is
          x, q, new_kv, attn,  \* one row per token of the batch
          tmp,     \* the scratch buffer of the paged forward
          logits,
          pc       \* "idle", "project", "attend", "mlp" or "logits"

vars == <<store, length, kv, items, every, layer, item, x, q, new_kv, attn, tmp, logits, pc>>

-----------------------------------------------------------------------------
(* Rows *)

Embed(id) == <<"embed_tokens", id>>
Normed(name, row) == <<"rms_norm", name, row>>
Linear(name, row) == <<name, row>>
Rope(row, pos) == <<"rope", row, pos>>
Sum(a, b) == <<"+", a, b>>

\* Projections of a row at layer l and position pos.
Query(l, row, pos) == Rope(Linear(<<l, "q_proj">>, Normed(<<l, "input">>, row)), pos)
KeyValue(l, row, pos) == << Rope(Linear(<<l, "k_proj">>, Normed(<<l, "input">>, row)), pos),
                            Linear(<<l, "v_proj">>, Normed(<<l, "input">>, row)) >>
Attention(query, keys) == <<"attention", query, keys>>

\* What a layer makes of a row and its attention.
Mlp(l, row, seen) ==
    LET mid == Sum(row, Linear(<<l, "o_proj">>, seen))
        normed2 == Normed(<<l, "post_attention">>, mid)
        act == <<"silu_mul", Linear(<<l, "gate_proj">>, normed2), Linear(<<l, "up_proj">>, normed2)>>
    IN Sum(mid, Linear(<<l, "down_proj">>, act))

Project(row) == Linear("lm_head", Normed("final", row))

-----------------------------------------------------------------------------
(* The batch *)

Past(i) == length[items[i].seq]
ItemLen(i) == Len(items[i].tokens)

\* Rows before those of item i.
Offset(i) == Len(FlattenSeq([j \in 1..(i - 1) |-> items[j].tokens]))

AllIds(batch) == FlattenSeq([i \in DOMAIN batch |-> batch[i].tokens])

\* Mutant of Positions: every item starts at position 0.
PositionsFromZero == FlattenSeq([i \in DOMAIN items |-> [t \in 1..ItemLen(i) |-> t - 1]])

\* The position of every row: tokens go on where their sequence has come to.
Positions == FlattenSeq([i \in DOMAIN items |-> [t \in 1..ItemLen(i) |-> Past(i) + t - 1]])

Init == /\ store \in {"cache", "paged"}
        /\ length = [s \in Seqs |-> 0]
        /\ kv = [s \in Seqs |-> [l \in 1..NumLayers |-> <<>>]]
        /\ items = <<>> /\ every = FALSE /\ layer = 1 /\ item = 1
        /\ x = <<>> /\ q = <<>> /\ new_kv = <<>> /\ attn = <<>> /\ tmp = <<>>
        /\ logits = <<>> /\ pc = "idle"

\* The tokens of the batch are packed and embedded.
Pack(batch) ==
    /\ pc = "idle" /\ pc' = "project"
    /\ items' = batch
    /\ x' = [r \in DOMAIN AllIds(batch) |-> Embed(AllIds(batch)[r])]
    /\ logits' = <<>>
    /\ UNCHANGED <<store, length, kv, layer, item, q, new_kv, attn, tmp>>

\* forward_cached(): one sequence, from its cache.
ForwardCached(batch) == Len(batch) = 1 /\ store = "cache" /\ every' = TRUE /\ Pack(batch)

\* forward_batch() and forward_batch_paged().
ForwardBatch(batch) == every' = FALSE /\ Pack(batch)

\* q, k and v of all rows at once.
ProjectRows ==
    /\ pc = "project"
    /\ q' = [r \in DOMAIN x |-> Query(layer, x[r], Positions[r])]
    /\ new_kv' = [r \in DOMAIN x |-> KeyValue(layer, x[r], Positions[r])]
    /\ attn' = [r \in DOMAIN x |-> <<>>]
    /\ item' = 1 /\ pc' = "attend"
    /\ UNCHANGED <<store, length, kv, items, every, layer, x, tmp, logits>>

\* The scratch buffer once rows are gathered over its head.
Gathered(rows) == rows \o SubSeq(tmp, Len(rows) + 1, Len(tmp))

\* One item: its rows go to its cache or blocks; each query attends over the keys up
\* to its own, in the cache or as gathered.
AttendItem ==
    LET s == items[item].seq
        mine(t) == Offset(item) + t
        rows == kv[s][layer] \o [t \in 1..ItemLen(item) |-> new_kv[mine(t)]]
        keys == IF store = "paged" THEN Gathered(rows) ELSE rows
    IN /\ pc = "attend" /\ item <= Len(items)
       /\ kv' = [kv EXCEPT ![s][layer] = rows]
       /\ tmp' = IF store = "paged" THEN Gathered(rows) ELSE tmp
       /\ attn' = [r \in DOMAIN attn |->
                     IF r - Offset(item) \in 1..ItemLen(item)
                     THEN Attention(q[r], SubSeq(keys, 1, Past(item) + r - Offset(item)))
                     ELSE attn[r]]
       /\ item' = item + 1
       /\ UNCHANGED <<store, length, items, every, layer, x, q, new_kv, logits, pc>>

\* The rest of the layer, over all rows at once.
FinishLayer ==
    /\ pc = "attend" /\ item > Len(items)
    /\ x' = [r \in DOMAIN x |-> Mlp(layer, x[r], attn[r])]
    /\ layer' = layer + 1
    /\ pc' = IF layer = NumLayers THEN "logits" ELSE "project"
    /\ UNCHANGED <<store, length, kv, items, every, item, q, new_kv, attn, tmp, logits>>

\* The forward is over: the lengths advance, the buffers go.
Leave ==
    /\ pc' = "idle"
    /\ length' = [s \in Seqs |-> length[s] +
                    Len(FlattenSeq([i \in DOMAIN items |->
                          IF items[i].seq = s THEN items[i].tokens ELSE <<>>]))]
    /\ x' = <<>> /\ q' = <<>> /\ new_kv' = <<>> /\ attn' = <<>> /\ tmp' = <<>>
    /\ layer' = 1 /\ item' = 1
    /\ UNCHANGED <<store, kv, items, every>>

\* forward_cached() projects every row.
ReturnRows == /\ pc = "logits" /\ every
              /\ logits' = [r \in DOMAIN x |-> Project(x[r])]
              /\ Leave

\* The last row of an item.
LastRow(i) == Offset(i) + ItemLen(i)

\* A batched forward projects the last row of each item.
ReturnLast == /\ pc = "logits" /\ ~ every
              /\ logits' = [i \in DOMAIN items |-> Project(x[LastRow(i)])]
              /\ Leave

\* Some sequences, in some order, feed some of the tokens they have left.
Batches ==
    LET piece(s, n) == [seq |-> s, tokens |-> SubSeq(Texts[s], length[s] + 1, length[s] + n)]
        Pieces == UNION {{piece(s, n) : n \in 1..(Len(Texts[s]) - length[s])} : s \in Seqs}
    IN {b \in UNION {[1..n -> Pieces] : n \in 1..Cardinality(Seqs)} :
          \A i, j \in DOMAIN b : i # j => b[i].seq # b[j].seq}

AllFed == pc = "idle" /\ \A s \in Seqs : length[s] = Len(Texts[s])
Finished == AllFed /\ UNCHANGED vars

Next == \/ \E batch \in Batches : ForwardCached(batch) \/ ForwardBatch(batch)
        \/ ProjectRows \/ AttendItem \/ FinishLayer \/ ReturnRows \/ ReturnLast
        \/ Finished

Spec == Init /\ [][Next]_vars

-----------------------------------------------------------------------------
(* Model::forward() of a whole context, on a cache of its own *)

\* The rows after layer l.
Hidden(c, l) ==
    LET after[n \in 0..l] ==
          IF n = 0 THEN [r \in DOMAIN c |-> Embed(c[r])]
          ELSE LET was == after[n - 1]
                   keys == [r \in DOMAIN c |-> KeyValue(n, was[r], r - 1)]
               IN [r \in DOMAIN c |->
                     Mlp(n, was[r], Attention(Query(n, was[r], r - 1), SubSeq(keys, 1, r)))]
    IN after[l]

ForwardLogits(c) == Project(Hidden(c, NumLayers)[Len(c)])

\* "Each sequence attends only over its own paged K/V" and "only the last token of each
\* item drives next-token prediction": however texts are cut into pieces and pieces into
\* batches, the logits of a sequence are those of a forward over its whole context.
MatchesSingle == pc = "idle" =>
    \A i \in DOMAIN items :
        LET c == SubSeq(Texts[items[i].seq], 1, Past(i))
        IN IF every THEN \A t \in 1..ItemLen(i) :
                            logits[t] = ForwardLogits(SubSeq(c, 1, Len(c) - ItemLen(i) + t))
           ELSE logits[i] = ForwardLogits(c)
=============================================================================
