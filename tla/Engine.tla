------------------------------- MODULE Engine -------------------------------
(***************************************************************************)
(* The continuous-batching engine of src/engine/engine.cpp over the pooled *)
(* KV cache of BlockManager, with Model::forward_batch between them.       *)
(*                                                                         *)
(* One call of step() is a run of small steps, told apart by pc: admission *)
(* (one waiting sequence at a time), assembly of the batch (one running    *)
(* sequence at a time), preemption, the forward (reserve, write, commit,   *)
(* one item at a time), sampling (one item at a time) and retirement.  The *)
(* caller holds the engine for the whole of step(), so requests are added  *)
(* between steps only.                                                     *)
(*                                                                         *)
(* Abstractions.  A token drawn from logits is a member of Sample(context);*)
(* the logits of a batch item are those of the context its gathered rows   *)
(* belong to, and arbitrary when they belong to none.  Counters that are   *)
(* only reported (preemptions, prefix_hits) are left out.                  *)
(***************************************************************************)
EXTENDS Integers, Sequences, FiniteSets

CONSTANTS Blocks, Tokens, BlockSize, MaxLen, ChainHash(_), Junk, \* of BlockManager
          NumRequests,   \* bound: requests submitted in a behaviour
          RequestKinds,  \* what may be asked: [prompt, max_tokens, eos]
          NoRequest,     \* an id not handed out yet
          MaxBatch,      \* max_batch
          PrefixCache,   \* enable_prefix_cache
          Vocab,         \* token ids the embedding knows
          Sample(_)      \* tokens the sampler may draw after a context

Seqs == 0..(NumRequests - 1)

VARIABLES
    ref_count, block_table, ctx, pend, written, kv, prefix, older,  \* of BlockManager
    request, output, status, prefilled,  \* EngineSequence, by id
    waiting, running,                    \* deque and vector of ids
    next_id,
    pc,       \* the phase of step()
    scan,     \* position in running (assembly) or in items (forward, sampling)
    budget,   \* blocks left to the batch being assembled
    items     \* the batch: [id, tokens, prefill, register, seen]

poolVars == <<ref_count, block_table, ctx, pend, written, kv, prefix, older>>
seqVars  == <<request, output, status, prefilled>>
stepVars == <<scan, budget, items>>
vars == <<poolVars, seqVars, waiting, running, next_id, pc, stepVars>>

Pool == INSTANCE BlockManager

ASSUME NumRequestsAssumption == NumRequests \in Nat
ASSUME PoolAssumption ==
    /\ IsFiniteSet(Blocks) /\ BlockSize \in Nat \ {0} /\ MaxLen \in Nat
    /\ Junk \notin Pool!Contexts
ASSUME RequestAssumption ==
    /\ NoRequest \notin RequestKinds
    /\ \A r \in RequestKinds : /\ r.prompt \in Pool!Contexts \ {<<>>} /\ r.max_tokens \in Int
                               /\ Len(r.prompt) + r.max_tokens <= MaxLen
ASSUME TokensAssumption == /\ Vocab \subseteq Tokens
                           /\ \A c \in Pool!Contexts \ {<<>>} : Sample(c) \subseteq Tokens
ASSUME PrefixCacheAssumption == PrefixCache \in BOOLEAN

-----------------------------------------------------------------------------
(* Helpers *)

\* prompt + everything generated so far.
Context(id) == request[id].prompt \o output[id]

\* step_tokens(): the last token of a prefilled sequence, otherwise the part of
\* the context that no row covers yet (rows: how many the sequence has).
StepTokens(id, rows) ==
    IF prefilled[id] THEN <<output[id][Len(output[id])]>>
    ELSE SubSeq(Context(id), rows + 1, Len(Context(id)))

\* Mutant of Shareable: no token is left for the forward.
ShareableWhole(c) == SubSeq(c, 1, (Len(c) \div BlockSize) * BlockSize)

\* The part of a context a running sequence looks up in the prefix cache: whole
\* blocks, at least one token short of the context.
Shareable(c) == SubSeq(c, 1, ((Len(c) - 1) \div BlockSize) * BlockSize)

NumFree == Cardinality(Pool!Free)

Batched == {items[k].id : k \in DOMAIN items}

\* A sequence that needs delta more blocks can join the batch.
Affordable(delta) == delta <= budget

\* Mutant of Remaining: every item is judged against the whole pool.
RemainingAll(delta) == budget

\* What the items taken so far leave to the next.
Remaining(delta) == budget - delta

\* Mutant of Stops: the token just drawn is not counted.
StopsLate(id, token) == token = request[id].eos \/ Len(output[id]) >= request[id].max_tokens

\* The token ends its sequence: end-of-sequence token, or budget filled.
Stops(id, token) == token = request[id].eos \/ Len(output[id]) + 1 >= request[id].max_tokens

\* Mutant of Without: nothing is removed.
WithoutNone(q, S) == q

\* A queue without the ids in S: kept[n] is what is left of its first n entries.
Without(q, S) ==
    LET kept[n \in 0..Len(q)] == IF n = 0 THEN <<>>
                                ELSE IF q[n] \in S THEN kept[n - 1] ELSE Append(kept[n - 1], q[n])
    IN kept[Len(q)]

\* Mutant of HolderPositions: no running sequence is preempted.
HolderPositionsNone == {}

\* Positions of running sequences that hold blocks; the last is preempted first.
HolderPositions == {i \in DOMAIN running : block_table[running[i]] # <<>>}

HasWork == waiting # <<>> \/ running # <<>>

-----------------------------------------------------------------------------

Init == /\ Pool!Init
        /\ request = [id \in Seqs |-> NoRequest]
        /\ output = [id \in Seqs |-> <<>>]
        /\ status = [id \in Seqs |-> "Waiting"]
        /\ prefilled = [id \in Seqs |-> FALSE]
        /\ waiting = <<>> /\ running = <<>>
        /\ next_id = 0
        /\ pc = "idle" /\ scan = 1 /\ budget = 0 /\ items = <<>>

\* add_request(): a new id at the back of the waiting queue.
AddRequest(r) ==
    /\ pc = "idle" /\ next_id < NumRequests
    /\ request' = [request EXCEPT ![next_id] = r]
    /\ waiting' = Append(waiting, next_id)
    /\ next_id' = next_id + 1
    /\ UNCHANGED <<poolVars, output, status, prefilled, running, pc, stepVars>>

\* A caller with work left calls step().
BeginStep == /\ pc = "idle" /\ HasWork
             /\ pc' = "admit"
             /\ UNCHANGED <<poolVars, seqVars, waiting, running, next_id, stepVars>>

\* Admission of the head of the queue: room in the batch, and enough free blocks
\* for its whole context.
Admissible ==
    /\ waiting # <<>> /\ Len(running) < MaxBatch
    /\ Pool!CanAppend(Head(waiting),
                      IF prefilled[Head(waiting)] THEN 1 ELSE Len(Context(Head(waiting))))

Admit == /\ pc = "admit" /\ Admissible
         /\ status' = [status EXCEPT ![Head(waiting)] = "Running"]
         /\ running' = Append(running, Head(waiting))
         /\ waiting' = Tail(waiting)
         /\ UNCHANGED <<poolVars, request, output, prefilled, next_id, pc, stepVars>>

\* The first sequence that cannot be admitted ends admission.
BeginAssembly == /\ pc = "admit" /\ ~ Admissible
                 /\ pc' = "assemble" /\ scan' = 1 /\ items' = <<>> /\ budget' = NumFree
                 /\ UNCHANGED <<poolVars, seqVars, waiting, running, next_id>>

\* Assembly looks at one running sequence: it takes the cached prefix it can
\* share, then joins the batch if the blocks it still needs are in the budget.
Assemble ==
    /\ pc = "assemble" /\ scan <= Len(running)
    /\ LET id == running[scan]
           fresh == PrefixCache /\ ~ prefilled[id] /\ block_table[id] = <<>>
       IN /\ IF fresh /\ Shareable(Context(id)) # <<>>
             THEN Pool!AcquireSharedPrefix(id, Shareable(Context(id)))
             ELSE UNCHANGED poolVars
          /\ LET tokens == StepTokens(id, Len(ctx'[id]))
                 delta == Pool!BlocksFor(Len(ctx'[id]) + Len(tokens)) - Len(block_table'[id])
             IN IF ~ Affordable(delta)
                THEN UNCHANGED <<budget, items>>
                ELSE /\ budget' = Remaining(delta)
                     /\ items' = Append(items,
                          [id |-> id, tokens |-> tokens,
                           register |-> IF PrefixCache /\ ~ prefilled[id]
                                        THEN Context(id) ELSE <<>>,
                           seen |-> Junk])
    /\ scan' = scan + 1
    /\ UNCHANGED <<seqVars, waiting, running, next_id, pc>>

\* preempt_youngest(): with an empty batch and more than one running sequence,
\* the last one that holds blocks gives them up and goes to the head of the
\* queue; assembly starts over.
Preempt ==
    /\ pc = "assemble" /\ scan > Len(running)
    /\ items = <<>> /\ Len(running) > 1
    /\ \E i \in HolderPositions :
         /\ \A j \in HolderPositions : j <= i
         /\ Pool!FreeSeq(running[i])
         /\ prefilled' = [prefilled EXCEPT ![running[i]] = FALSE]
         /\ status' = [status EXCEPT ![running[i]] = "Waiting"]
         /\ running' = SubSeq(running, 1, i - 1) \o SubSeq(running, i + 1, Len(running))
         /\ waiting' = <<running[i]>> \o waiting
    /\ scan' = 1 /\ items' = <<>> /\ budget' = NumFree'
    /\ UNCHANGED <<request, output, next_id, pc>>

\* Nothing can run in this step.
GiveUp == /\ pc = "assemble" /\ scan > Len(running) /\ items = <<>>
          /\ Len(running) <= 1 \/ HolderPositions = {}
          /\ pc' = "idle" /\ scan' = 1 /\ items' = <<>> /\ budget' = 0
          /\ UNCHANGED <<poolVars, seqVars, waiting, running, next_id>>

BeginForward == /\ pc = "assemble" /\ scan > Len(running) /\ items # <<>>
                /\ pc' = "reserve" /\ scan' = 1
                /\ UNCHANGED <<poolVars, seqVars, waiting, running, next_id, budget, items>>

\* forward_batch reserves blocks for every item, in order; a reserve that runs
\* out of blocks throws out of step().
ForwardReserve ==
    /\ pc = "reserve" /\ scan <= Len(items)
    /\ Pool!Reserve(items[scan].id, items[scan].tokens)
    /\ pc' = IF pend'[items[scan].id] = <<>> THEN "abort" ELSE pc
    /\ scan' = scan + 1
    /\ UNCHANGED <<seqVars, waiting, running, next_id, budget, items>>

\* The embedding lookup throws on a token id outside the vocabulary.
Embed == /\ pc = "reserve" /\ scan > Len(items)
         /\ pc' = IF \A k \in DOMAIN items : \A i \in DOMAIN items[k].tokens :
                         items[k].tokens[i] \in Vocab
                  THEN "write" ELSE "abort"
         /\ scan' = 1
         /\ UNCHANGED <<poolVars, seqVars, waiting, running, next_id, budget, items>>

\* The exception leaves step(): blocks reserved so far stay in their tables.
Abort == /\ pc = "abort"
         /\ pend' = [id \in Seqs |-> <<>>]
         /\ pc' = "idle" /\ scan' = 1 /\ items' = <<>> /\ budget' = 0
         /\ UNCHANGED <<ref_count, block_table, ctx, written, kv, prefix, older,
                        seqVars, waiting, running, next_id>>

\* Rows of one item are written, and all its rows gathered for attention.
ForwardWrite ==
    /\ pc = "write" /\ scan <= Len(items)
    /\ \E id \in {items[scan].id} :
          /\ Pool!Write(id)
          /\ items' = [items EXCEPT ![scan].seen =
                         Pool!ContextOf(Pool!Gather(id, Len(ctx[id]) + Len(pend[id]))')]
    /\ scan' = scan + 1
    /\ UNCHANGED <<seqVars, waiting, running, next_id, pc, budget>>

BeginCommit == /\ pc = "write" /\ scan > Len(items)
               /\ pc' = "commit" /\ scan' = 1
               /\ UNCHANGED <<poolVars, seqVars, waiting, running, next_id, budget, items>>

ForwardCommit ==
    /\ pc = "commit" /\ scan <= Len(items)
    /\ Pool!Commit(items[scan].id)
    /\ scan' = scan + 1
    /\ UNCHANGED <<seqVars, waiting, running, next_id, pc, budget, items>>

BeginSampling == /\ pc = "commit" /\ scan > Len(items)
                 /\ pc' = "sample" /\ scan' = 1
                 /\ UNCHANGED <<poolVars, seqVars, waiting, running, next_id, budget, items>>

\* One token is drawn for one item.  A finished sequence gives its blocks back;
\* one that goes on after its prefill registers its full blocks for sharing.
SampleItem ==
    /\ pc = "sample" /\ scan <= Len(items)
    /\ LET item == items[scan]
           id == item.id
       IN \E token \in IF item.seen = Junk THEN Vocab ELSE Sample(item.seen) :
            /\ output' = [output EXCEPT ![id] = Append(@, token)]
            /\ prefilled' = [prefilled EXCEPT ![id] = TRUE]
            /\ status' = IF Stops(id, token) THEN [status EXCEPT ![id] = "Finished"] ELSE status
            /\ IF Stops(id, token) THEN Pool!FreeSeq(id)
               ELSE IF item.register # <<>> THEN Pool!RegisterPrefix(id, item.register)
               ELSE UNCHANGED poolVars
    /\ scan' = scan + 1
    /\ UNCHANGED <<request, waiting, running, next_id, pc, budget, items>>

\* Finished sequences leave the running set; step() returns.
Retire == /\ pc = "sample" /\ scan > Len(items)
          /\ running' = Without(running, {id \in Seqs : status[id] = "Finished"})
          /\ pc' = "idle" /\ scan' = 1 /\ items' = <<>> /\ budget' = 0
          /\ UNCHANGED <<poolVars, seqVars, waiting, next_id>>

\* The steps of step(), once it is called.
StepNext == \/ Admit \/ BeginAssembly \/ Assemble \/ Preempt \/ GiveUp \/ BeginForward
            \/ ForwardReserve \/ Embed \/ Abort \/ ForwardWrite \/ BeginCommit
            \/ ForwardCommit \/ BeginSampling \/ SampleItem \/ Retire

\* Every request has been submitted and served.
Done == next_id = NumRequests /\ ~ HasWork /\ UNCHANGED vars

Next == \/ \E r \in RequestKinds : AddRequest(r)
        \/ BeginStep \/ StepNext \/ Done

Spec == Init /\ [][Next]_vars

\* step() runs to its end, and its callers (generate(), the server's loop) call
\* it again as long as there is work.
FairSpec == Spec /\ WF_vars(BeginStep \/ StepNext)

-----------------------------------------------------------------------------
(* Properties *)

\* Every live request is in exactly one of the two queues, once, and the queue
\* agrees with its status; a finished one leaves the running set with its step.
QueuesExact ==
    /\ Pool!Injective(waiting \o running)
    /\ \A id \in Seqs :
        /\ id \in Pool!Entries(waiting) <=> id < next_id /\ status[id] = "Waiting"
        /\ id \in Pool!Entries(running) <=>
               \/ status[id] = "Running"
               \/ status[id] = "Finished" /\ pc = "sample" /\ id \in Batched

\* Only running sequences hold blocks: a waiting sequence gave its blocks back
\* when it was preempted, a finished one "immediately".
OnlyRunningHold == \A id \in Seqs :
    status[id] # "Running" => block_table[id] = <<>> /\ ctx[id] = <<>> /\ pend[id] = <<>>

\* Between forwards the rows of a prefilled sequence cover its context except the
\* last token, which the next decode feeds: no token is fed twice or skipped,
\* however often the sequence was preempted and recomputed.
RowsMatchContext == \A id \in Pool!Entries(running) :
    pc \in {"idle", "admit", "assemble"} =>
        IF prefilled[id] THEN ctx[id] = SubSeq(Context(id), 1, Len(Context(id)) - 1)
                         ELSE ctx[id] = SubSeq(Context(id), 1, Len(ctx[id]))
                              /\ Len(ctx[id]) < Len(Context(id))

\* The budget of the assembly is honest: each reserve of the forward finds the
\* blocks it needs in the free list, so it neither throws nor evicts.
ReserveFits == pc = "reserve" /\ scan <= Len(items) =>
    Pool!CanAppend(items[scan].id, Len(items[scan].tokens))

\* Batching, paging, preemption and prefix sharing never show in an output.
Server == INSTANCE Serving WITH finished <- {id \in Seqs : status[id] = "Finished"}
ImplementsServing == Server!Spec

\* Every submitted request finishes (with the cache off and requests that each fit
\* the pool alone), whatever is preempted on the way.
EveryRequestFinishes == \A id \in Seqs :
    request[id] # NoRequest ~> status[id] = "Finished"
=============================================================================
