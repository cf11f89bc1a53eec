----------------------------- MODULE Speculative -----------------------------
(***************************************************************************)
(* speculative_greedy() of src/engine/speculative.cpp.  A draft proposes   *)
(* lookahead tokens, one forward of the target over the context and the    *)
(* proposals yields the target's choice after each of their prefixes, and  *)
(* the choices are emitted up to the first that differs from the proposal; *)
(* when none differs, one more choice comes for free.                      *)
(*                                                                         *)
(* The draft is any function: what it proposes is a free choice.  The      *)
(* logits of a row are represented by their argmax.                        *)
(***************************************************************************)
EXTENDS Integers, Sequences

CONSTANTS Prompts, Budgets, Greedy(_),  \* of GreedyDecoding
          Tokens,                       \* what the draft may propose
          Lookaheads,                   \* values of the lookahead argument
          MaxLen                        \* the longest context the target is asked about

\* A lookahead below one is one.
Clamp(k) == IF k < 1 THEN 1 ELSE k

Contexts == UNION {[1..n -> Tokens] : n \in 0..MaxLen}

ASSUME MaxLenAssumption == MaxLen \in Nat
ASSUME PromptsAssumption == Prompts \subseteq Contexts \ {<<>>}
ASSUME ArgumentsAssumption ==
    /\ Budgets \subseteq Int /\ Lookaheads \subseteq Int
    /\ \A p \in Prompts, m \in Budgets, k \in Lookaheads : Len(p) + m + Clamp(k) <= MaxLen
ASSUME GreedyAssumption == \A c \in Contexts \ {<<>>} : Greedy(c) \in Tokens

VARIABLES
    prompt, max_tokens, lookahead,  \* the arguments
    out, ids,                       \* tokens emitted; the context with them
    proposed,                       \* this round's proposals
    full, choice, base,             \* context and proposals; the target's choice after
                                    \* each of their prefixes; length of the context
    j,                              \* proposals judged
    pc                              \* "draft", "accept" or "done"

vars == <<prompt, max_tokens, lookahead, out, ids, proposed, full, choice, base, j, pc>>
args == <<prompt, max_tokens, lookahead>>

-----------------------------------------------------------------------------

Init == /\ prompt \in Prompts /\ max_tokens \in Budgets
        /\ lookahead \in {Clamp(k) : k \in Lookaheads}
        /\ out = <<>> /\ ids = prompt
        /\ proposed = <<>> /\ full = <<>> /\ choice = <<>> /\ base = 0 /\ j = 0
        /\ pc = "draft"

\* Mutant of Unfilled: one token more.
UnfilledLoose == Len(out) <= max_tokens

Unfilled == Len(out) < max_tokens

\* The draft proposes one more token.
Propose(t) == /\ pc = "draft" /\ Unfilled /\ Len(proposed) < lookahead
              /\ proposed' = Append(proposed, t)
              /\ UNCHANGED <<args, out, ids, full, choice, base, j, pc>>

\* One target forward over the context and all proposals.
Verify == /\ pc = "draft" /\ Unfilled /\ Len(proposed) = lookahead
          /\ full' = ids \o proposed
          /\ choice' = [n \in 1..Len(ids \o proposed) |-> Greedy(SubSeq(ids \o proposed, 1, n))]
          /\ base' = Len(ids) /\ j' = 0 /\ pc' = "accept"
          /\ UNCHANGED <<args, out, ids, proposed>>

Emit(token) == out' = Append(out, token) /\ ids' = Append(ids, token)

\* Mutant of Agrees: the proposal is compared with the one after it.
AgreesLate == choice[base + j] = proposed[IF j + 2 > lookahead THEN j + 1 ELSE j + 2]

\* The target's choice is what the draft proposed.
Agrees == choice[base + j] = proposed[j + 1]

\* The target's choice after the proposals accepted so far is emitted; the round
\* goes on while the draft agrees with it.
Accept == /\ pc = "accept" /\ Unfilled /\ j < lookahead
          /\ Emit(choice[base + j])
          /\ IF Agrees THEN j' = j + 1 /\ UNCHANGED <<proposed, pc>>
                       ELSE j' = 0 /\ proposed' = <<>> /\ pc' = "draft"
          /\ UNCHANGED <<args, full, choice, base>>

\* Every proposal was accepted: the choice after the last one is emitted too.
Bonus == /\ pc = "accept" /\ Unfilled /\ j = lookahead
         /\ Emit(choice[base + lookahead])
         /\ j' = 0 /\ proposed' = <<>> /\ pc' = "draft"
         /\ UNCHANGED <<args, full, choice, base>>

\* The budget is filled, between rounds or in the middle of one.
Return == /\ pc # "done" /\ ~ Unfilled
          /\ pc' = "done"
          /\ UNCHANGED <<args, out, ids, proposed, full, choice, base, j>>

Finished == pc = "done" /\ UNCHANGED vars

Next == \/ \E t \in Tokens : Propose(t)
        \/ Verify \/ Accept \/ Bonus \/ Return \/ Finished

Spec == Init /\ [][Next]_vars

\* The function is called and runs.
FairSpec == Spec /\ WF_vars(Next)

-----------------------------------------------------------------------------
(* Properties *)

\* Type invariant.
TypeOK == /\ prompt \in Prompts /\ max_tokens \in Budgets
          /\ lookahead \in Nat \ {0}
          /\ out \in Seq(Tokens) /\ ids \in Seq(Tokens)
          /\ proposed \in Seq(Tokens) /\ Len(proposed) <= lookahead
          /\ full \in Seq(Tokens) /\ choice \in Seq(Tokens)
          /\ base \in Nat /\ j \in 0..lookahead
          /\ pc \in {"draft", "accept", "done"}

\* The row read for the next token belongs to it: while a round is judged, the
\* rows are the target's choices after the prefixes of context and proposals,
\* and the context has grown to exactly the prefix that row base + j is about.
RowOfNext == pc = "accept" =>
    /\ Len(proposed) = lookahead /\ ids = prompt \o out
    /\ base > 0 /\ Len(ids) = base + j
    /\ Len(full) = base + lookahead /\ Len(choice) = base + lookahead
    /\ \A n \in 1..(base + j) : full[n] = ids[n]
    /\ \A n \in 1..lookahead : full[base + n] = proposed[n]
    /\ \A n \in 1..(base + lookahead) : choice[n] = Greedy(SubSeq(full, 1, n))

\* "Every emitted token is the target's argmax, so the output equals plain
\* greedy decoding", whatever the draft proposes, whatever the lookahead and
\* wherever in a round the budget ends.
Plain == INSTANCE GreedyDecoding
ImplementsGreedy == Plain!Spec

\* The output is complete: as many tokens as asked for, none more.
Completes == <>(pc = "done" /\ Len(out) = IF max_tokens > 0 THEN max_tokens ELSE 0)
=============================================================================
