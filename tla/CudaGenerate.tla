---------------------------- MODULE CudaGenerate ----------------------------
(***************************************************************************)
(* CudaModel::generate() of src/cuda/model.cu: one prompt is decoded over  *)
(* a GpuKVCache of its own, sized once.  The first forward feeds the       *)
(* prompt, every later one the token before, and the loop ends with the    *)
(* budget or the end-of-sequence token.                                    *)
(*                                                                         *)
(* A row of the cache is represented by its token: the cache is the        *)
(* context it holds.  The logits of a forward are represented by the       *)
(* argmax of their last row.                                               *)
(***************************************************************************)
EXTENDS Integers, Sequences

CONSTANTS Prompts, Budgets, Greedy(_),  \* of GreedyDecoding
          EosIds                        \* values of eos_id

VARIABLES prompt, max_tokens, eos_id,  \* the arguments
          out,                         \* tokens generated
          capacity, rows,              \* of the cache
          pc                           \* "start", "forward" or "done"

vars == <<prompt, max_tokens, eos_id, out, capacity, rows, pc>>
args == <<prompt, max_tokens, eos_id>>

Init == /\ prompt \in Prompts /\ max_tokens \in Budgets /\ eos_id \in EosIds
        /\ out = <<>> /\ capacity = 0 /\ rows = <<>> /\ pc = "start"

\* Nothing is asked for, or a cache for all of it is allocated.
Start == /\ pc = "start"
         /\ \/ (max_tokens <= 0 \/ prompt = <<>>) /\ pc' = "done" /\ UNCHANGED capacity
            \/ /\ max_tokens > 0 /\ prompt # <<>>
               /\ pc' = "forward" /\ capacity' = Len(prompt) + max_tokens
         /\ UNCHANGED <<args, out, rows>>

\* What the next forward is over.
Fed == IF out = <<>> THEN prompt ELSE <<out[Len(out)]>>

Stops(token) == Len(out) + 1 >= max_tokens \/ token = eos_id

\* forward_cached() and the argmax of its last row: the rows of the tokens fed are
\* appended behind those of the cache, and each attends over all up to its own.
\* append() would throw if there were no room for them.
Forward == /\ pc = "forward" /\ Len(rows) + Len(Fed) <= capacity
           /\ rows' = rows \o Fed
           /\ out' = Append(out, Greedy(rows \o Fed))
           /\ pc' = IF Stops(Greedy(rows \o Fed)) THEN "done" ELSE "forward"
           /\ UNCHANGED <<args, capacity>>

Returned == pc = "done" /\ UNCHANGED vars

Next == Start \/ Forward \/ Returned

Spec == Init /\ [][Next]_vars

-----------------------------------------------------------------------------
(* Properties *)

\* The answer is complete: up to the budget, or up to the first end-of-sequence
\* token; the cache never runs out of rows on the way.
Completes == <>(/\ pc = "done"
                /\ \/ Len(out) = (IF max_tokens > 0 /\ prompt # <<>> THEN max_tokens ELSE 0)
                   \/ out # <<>> /\ out[Len(out)] = eos_id
                /\ \A i \in 1..(Len(out) - 1) : out[i] # eos_id)

\* The tokens are those of plain greedy decoding.
Plain == INSTANCE GreedyDecoding
ImplementsGreedy == Plain!Spec
=============================================================================
