--------------------------- MODULE GreedyDecoding ---------------------------
(***************************************************************************)
(* Plain greedy decoding of one prompt: one token at a time, each the      *)
(* model's choice after everything before it, until the budget is filled.  *)
(***************************************************************************)
EXTENDS Integers, Sequences

CONSTANTS Prompts,   \* prompts that may be decoded
          Budgets,   \* values of max_tokens
          Greedy(_)  \* the token of highest logit after a context

VARIABLES prompt, max_tokens, out

vars == <<prompt, max_tokens, out>>

Init == prompt \in Prompts /\ max_tokens \in Budgets /\ out = <<>>

Emit == /\ Len(out) < max_tokens
        /\ out' = Append(out, Greedy(prompt \o out))
        /\ UNCHANGED <<prompt, max_tokens>>

Spec == Init /\ [][Emit]_vars
=============================================================================
