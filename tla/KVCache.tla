------------------------------- MODULE KVCache -------------------------------
(***************************************************************************)
(* The contiguous KV cache of include/engine/kv_cache.hpp under the cached *)
(* forward of Model::forward_cached: each layer appends the rows of the new*)
(* tokens and attends over all rows it has, and the length advances once   *)
(* all layers are done.                                                    *)
(*                                                                         *)
(* A row of keys and values, and a hidden state, is represented by the     *)
(* token context it belongs to; Junk is a hidden state of no context, the  *)
(* result of attending over rows of another one.                           *)
(***************************************************************************)
EXTENDS Integers, Sequences

CONSTANTS NumLayers,  \* num_hidden_layers
          Tokens,     \* token ids the embedding knows
          MaxLen,     \* bound: the longest context
          Junk        \* a value that belongs to no context

Layers == 1..NumLayers
Contexts == UNION {[1..n -> Tokens] : n \in 0..MaxLen}

VARIABLES rows,    \* rows[l]: the rows appended to layer l
          length,  \* committed rows
          ctx,     \* tokens of the forwards that returned (no variable of the code)
          ids,     \* tokens of the running forward
          hidden,  \* hidden[i]: hidden state of the i-th of them
          layer    \* 0: no forward runs; l: layer l is next; NumLayers + 1: all done

vars == <<rows, length, ctx, ids, hidden, layer>>

-----------------------------------------------------------------------------

\* Embeddings of the new tokens, at the positions that follow the cache.
Embedded(toks) == [i \in 1..Len(toks) |-> IF length = Len(ctx) THEN ctx \o SubSeq(toks, 1, i)
                                          ELSE Junk]

\* Causal attention of the i-th new token over the rows g of a layer.
Attend(g, i, h) ==
    IF h # Junk /\ length + i <= Len(g) /\ \A r \in 1..(length + i) : g[r] = SubSeq(h, 1, r)
    THEN h ELSE Junk

Attended(g) == [i \in DOMAIN hidden |-> Attend(g, i, hidden[i])]

-----------------------------------------------------------------------------

Init == /\ rows = [l \in Layers |-> <<>>]
        /\ length = 0 /\ ctx = <<>>
        /\ ids = <<>> /\ hidden = <<>> /\ layer = 0

\* A forward starts; a token without an embedding throws before anything changes.
Begin(toks) == /\ layer = 0 /\ toks # <<>> /\ ctx \o toks \in Contexts
               /\ ids' = toks /\ hidden' = Embedded(toks) /\ layer' = 1
               /\ UNCHANGED <<rows, length, ctx>>

\* One layer appends its rows and attends over all of them.
LayerForward == /\ layer \in Layers
                /\ rows' = [rows EXCEPT ![layer] = @ \o hidden]
                /\ hidden' = Attended(rows'[layer])
                /\ layer' = layer + 1
                /\ UNCHANGED <<length, ctx, ids>>

\* An exception before the first append ends the forward.
Throw == /\ layer = 1
         /\ ids' = <<>> /\ hidden' = <<>> /\ layer' = 0
         /\ UNCHANGED <<rows, length, ctx>>

\* advance(): the rows become the past of the next forward; logits are returned.
Advance == /\ layer = NumLayers + 1
           /\ length' = length + Len(ids)
           /\ ctx' = ctx \o ids
           /\ ids' = <<>> /\ hidden' = <<>> /\ layer' = 0
           /\ UNCHANGED rows

\* The caller needs no further forward.
Idle == layer = 0 /\ UNCHANGED vars

Next == (\E toks \in Contexts : Begin(toks)) \/ LayerForward \/ Throw \/ Advance \/ Idle

Spec == Init /\ [][Next]_vars

-----------------------------------------------------------------------------
(* Properties *)

\* Incremental decoding is the full forward: however the tokens are cut into
\* forwards, and whichever of these threw, the logits a forward returns for its
\* i-th token are those of everything fed so far up to that token.
LogitsOfContext ==
    layer = NumLayers + 1 => hidden = [i \in 1..Len(ids) |-> ctx \o SubSeq(ids, 1, i)]
=============================================================================
