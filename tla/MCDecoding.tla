----------------------------- MODULE MCDecoding -----------------------------
(* The two decoders of a single prompt for TLC, speculative_greedy() and    *)
(* CudaModel::generate(), with a target whose choice depends on the whole   *)
(* context, so that a row read one place off shows.                         *)
EXTENDS Speculative

CONSTANTS EosIds
VARIABLES decoder,                             \* which of the two runs
          eos_id, capacity, rows, generate_pc  \* of CudaGenerate

Generate == INSTANCE CudaGenerate WITH pc <- generate_pc

roundVars == <<lookahead, ids, proposed, full, choice, base, j, pc>>
cacheVars == <<eos_id, capacity, rows, generate_pc>>

DecodingInit ==
    \/ /\ decoder = "speculative" /\ Init
       /\ eos_id = 0 /\ capacity = 0 /\ rows = <<>> /\ generate_pc = "unused"
    \/ /\ decoder = "generate" /\ Generate!Init
       /\ lookahead = 1 /\ ids = <<>> /\ proposed = <<>> /\ full = <<>> /\ choice = <<>>
       /\ base = 0 /\ j = 0 /\ pc = "unused"

DecodingNext == /\ UNCHANGED decoder
                /\ \/ decoder = "speculative" /\ Next /\ UNCHANGED cacheVars
                   \/ decoder = "generate" /\ Generate!Next /\ UNCHANGED roundVars

\* The function is called and runs.
decodingVars == <<decoder, vars, cacheVars>>
DecodingSpec == DecodingInit /\ [][DecodingNext]_decodingVars /\ WF_decodingVars(DecodingNext)

Tail2(c) == IF Len(c) > 1 THEN c[Len(c) - 1] ELSE 0
Target(c) == 1 + (((c[1] + Len(c) + c[Len(c)] + Tail2(c)) \div 2) % 2)

SomePrompts == {<<1>>, <<2, 1>>}

\* Either decoder returns, with all it was asked for.
AnswersComplete == /\ decoder = "speculative" => Completes
                   /\ decoder = "generate" => Generate!Completes
=============================================================================
