----------------------------- MODULE CudaEngine -----------------------------
(***************************************************************************)
(* The GPU engine of src/cuda/engine.cu, over the per-sequence device      *)
(* caches of src/cuda/kv_cache.cu, with CudaModel::forward_batch and       *)
(* forward_batch_argmax between them.  There is no pool to share and no    *)
(* preemption: a sequence is given a cache for its whole life on admission.*)
(*                                                                         *)
(* One call of step() is a run of small steps, told apart by pc.  Calls    *)
(* into the device may fail: an allocation when the device is full, any    *)
(* other one at will (Faults bounds how often).  An exception leaves step()*)
(* wherever it is thrown; the engine is then used again.                   *)
(*                                                                         *)
(* Rows and logits are represented as in Engine; the tokens of a step are  *)
(* all drawn before the first is appended, which no sequence can tell from *)
(* drawing each when it is appended.                                       *)
(***************************************************************************)
EXTENDS Integers, Sequences, FiniteSets

CONSTANTS Tokens,        \* token ids
          NumRequests,   \* bound: requests submitted in a behaviour
          RequestKinds,  \* what may be asked: [prompt, max_tokens, eos]
          NoRequest, Junk,
          MaxBatch,      \* max_batch
          Buffers,       \* device buffers of a cache: K and V of each layer
          Memory,        \* rows, of one buffer, that fit the device
          Faults,        \* bound: failing device calls in a behaviour
          Sample(_)      \* tokens the sampler, or the argmax, may choose

Seqs == 0..(NumRequests - 1)

\* Requests are typed as the code's are; add_request() refuses an empty prompt.
ASSUME NumRequestsAssumption == NumRequests \in Nat
ASSUME RequestAssumption ==
    /\ NoRequest \notin RequestKinds
    /\ \A r \in RequestKinds : r.prompt \in Seq(Tokens) \ {<<>>} /\ r.max_tokens \in Int
ASSUME JunkAssumption == Junk \notin Seq(Tokens)

VARIABLES
    request, output, status, prefilled,  \* Seq, by id
    cache,             \* cache[id]: GpuKVCache of a sequence; capacity 0 when it has none
    waiting, running, next_id,
    pc, scan,
    items,             \* the batch: [id, tokens, seen]
    leaked,            \* rows of device memory that nothing points to any more
    faults             \* device calls that failed so far

seqVars == <<request, output, status, prefilled>>
vars == <<seqVars, cache, waiting, running, next_id, pc, scan, items, leaked, faults>>

-----------------------------------------------------------------------------
(* Helpers *)

Sum(f) == LET S[n \in 0..NumRequests] == IF n = 0 THEN 0 ELSE S[n - 1] + f[n - 1]
          IN S[NumRequests]

MemoryUsed == leaked + Buffers * Sum([id \in Seqs |-> cache[id].capacity])

\* Mutant of Capacity: no room for the tokens generated.
CapacityOfPrompt(r) == Len(r.prompt)

\* Rows of a request's cache.
Capacity(r) == Len(r.prompt) + r.max_tokens

NoCache == [capacity |-> 0, length |-> 0, rows |-> <<>>]

\* The tokens a sequence feeds in this step.
StepTokens(id) == IF prefilled[id] THEN <<output[id][Len(output[id])]>> ELSE request[id].prompt

\* The rows of cache c once toks are appended at its length, each the row of the
\* context that the rows before it belong to.
Appended(c, toks) ==
    LET past == IF c.length = 0 THEN <<>> ELSE c.rows[c.length]
        row(i) == IF past # Junk /\ Len(past) = c.length THEN past \o SubSeq(toks, 1, i) ELSE Junk
    IN [r \in 1..(c.length + Len(toks)) |->
          IF r <= c.length THEN c.rows[r] ELSE row(r - c.length)]

\* The context rows g are the rows of.
ContextOf(g) ==
    IF g[Len(g)] # Junk /\ \A r \in DOMAIN g : g[r] = SubSeq(g[Len(g)], 1, r)
    THEN g[Len(g)] ELSE Junk

Stops(id, token) == token = request[id].eos \/ Len(output[id]) + 1 >= request[id].max_tokens

\* Mutant of Without: nobody is removed.
WithoutNone(q, S) == q

\* A queue without the ids in S: kept[n] is what is left of its first n entries.
Without(q, S) ==
    LET kept[n \in 0..Len(q)] == IF n = 0 THEN <<>>
                                ELSE IF q[n] \in S THEN kept[n - 1] ELSE Append(kept[n - 1], q[n])
    IN kept[Len(q)]

HasWork == waiting # <<>> \/ running # <<>>

ReturnFromStep == pc' = "idle" /\ scan' = 1 /\ items' = <<>>

-----------------------------------------------------------------------------

Init == /\ request = [id \in Seqs |-> NoRequest]
        /\ output = [id \in Seqs |-> <<>>]
        /\ status = [id \in Seqs |-> "Waiting"]
        /\ prefilled = [id \in Seqs |-> FALSE]
        /\ cache = [id \in Seqs |-> NoCache]
        /\ waiting = <<>> /\ running = <<>> /\ next_id = 0
        /\ pc = "idle" /\ scan = 1 /\ items = <<>>
        /\ leaked = 0 /\ faults = 0

AddRequest(r) ==
    /\ pc = "idle" /\ next_id < NumRequests
    /\ request' = [request EXCEPT ![next_id] = r]
    /\ waiting' = Append(waiting, next_id)
    /\ next_id' = next_id + 1
    /\ UNCHANGED <<output, status, prefilled, cache, running, pc, scan, items, leaked, faults>>

BeginStep == /\ pc = "idle" /\ HasWork
             /\ pc' = "admit"
             /\ UNCHANGED <<seqVars, cache, waiting, running, next_id, scan, items, leaked, faults>>

Admitting == pc = "admit" /\ waiting # <<>> /\ Len(running) < MaxBatch

Allocatable(n) == n > 0 /\ MemoryUsed + Buffers * n <= Memory

\* Admission of the head of the queue: its cache is allocated, then it moves.
Admit ==
    /\ Admitting
    /\ \E id \in {Head(waiting)} :
         /\ Allocatable(Capacity(request[id]))
         /\ cache' = [cache EXCEPT ![id] =
                        [capacity |-> Capacity(request[id]), length |-> 0, rows |-> <<>>]]
         /\ status' = [status EXCEPT ![id] = "Running"]
         /\ running' = Append(running, id)
         /\ waiting' = Tail(waiting)
    /\ UNCHANGED <<request, output, prefilled, next_id, pc, scan, items, leaked, faults>>

\* The cache cannot be allocated, or has no rows: the exception leaves step()
\* with the request still at the head of the queue.  A constructor that throws
\* has no destructor run: the buffers it had allocated are lost.
AdmitThrows ==
    /\ Admitting
    /\ LET n == Capacity(request[Head(waiting)])
       IN /\ ~ Allocatable(n)
          /\ leaked' = IF n > 0 THEN leaked + n * ((Memory - MemoryUsed) \div n) ELSE leaked
    /\ ReturnFromStep
    /\ UNCHANGED <<seqVars, cache, waiting, running, next_id, faults>>

\* The batch is every running sequence.
Assemble ==
    /\ pc = "admit" /\ ~ Admitting
    /\ items' = [k \in 1..Len(running) |->
                   [id |-> running[k], tokens |-> StepTokens(running[k]), seen |-> Junk]]
    /\ pc' = IF running = <<>> THEN "idle" ELSE "forward"
    /\ scan' = 1
    /\ UNCHANGED <<seqVars, cache, waiting, running, next_id, leaked, faults>>

Fits(c, toks) == c.length + Len(toks) <= c.capacity

\* Mutant of ForwardItem: append() commits the rows at once.
ForwardItemCommits ==
    /\ pc = "forward" /\ scan <= Len(items)
    /\ LET id == items[scan].id
           rows == Appended(cache[id], items[scan].tokens)
       IN /\ Fits(cache[id], items[scan].tokens)
          /\ cache' = [cache EXCEPT ![id].rows = rows, ![id].length = Len(rows)]
          /\ items' = [items EXCEPT ![scan].seen = ContextOf(rows)]
    /\ scan' = scan + 1
    /\ UNCHANGED <<seqVars, waiting, running, next_id, pc, leaked, faults>>

\* append() of one item at the length of its cache, and attention over all rows.
ForwardItem ==
    /\ pc = "forward" /\ scan <= Len(items)
    /\ LET id == items[scan].id
           rows == Appended(cache[id], items[scan].tokens)
       IN /\ Fits(cache[id], items[scan].tokens)
          /\ cache' = [cache EXCEPT ![id].rows = rows]
          /\ items' = [items EXCEPT ![scan].seen = ContextOf(rows)]
    /\ scan' = scan + 1
    /\ UNCHANGED <<seqVars, waiting, running, next_id, pc, leaked, faults>>

\* A device call of the forward fails, or append() finds its cache full: rows
\* appended so far stay behind the length of their caches.
ForwardThrows ==
    /\ pc = "forward"
    /\ IF scan <= Len(items) /\ ~ Fits(cache[items[scan].id], items[scan].tokens)
       THEN UNCHANGED faults
       ELSE faults < Faults /\ faults' = faults + 1
    /\ ReturnFromStep
    /\ UNCHANGED <<seqVars, cache, waiting, running, next_id, leaked>>

\* advance() of every cache, once the tokens are back on the host.
Advance ==
    /\ pc = "forward" /\ scan > Len(items)
    /\ cache' = [id \in Seqs |->
                   IF \E k \in DOMAIN items : items[k].id = id
                   THEN [cache[id] EXCEPT !.length = Len(cache[id].rows)] ELSE cache[id]]
    /\ pc' = "sample" /\ scan' = 1
    /\ UNCHANGED <<seqVars, waiting, running, next_id, items, leaked, faults>>

\* One item's token is appended to its output; a finished sequence frees its cache.
SampleItem ==
    /\ pc = "sample" /\ scan <= Len(items)
    /\ LET id == items[scan].id
       IN \E token \in IF items[scan].seen = Junk THEN Tokens ELSE Sample(items[scan].seen) :
            /\ output' = [output EXCEPT ![id] = Append(@, token)]
            /\ prefilled' = [prefilled EXCEPT ![id] = TRUE]
            /\ status' = IF Stops(id, token) THEN [status EXCEPT ![id] = "Finished"] ELSE status
            /\ cache' = IF Stops(id, token) THEN [cache EXCEPT ![id] = NoCache] ELSE cache
    /\ scan' = scan + 1
    /\ UNCHANGED <<request, waiting, running, next_id, pc, items, leaked, faults>>

Retire == /\ pc = "sample" /\ scan > Len(items)
          /\ running' = Without(running, {id \in Seqs : status[id] = "Finished"})
          /\ ReturnFromStep
          /\ UNCHANGED <<seqVars, cache, waiting, next_id, leaked, faults>>

StepNext == Admit \/ AdmitThrows \/ Assemble \/ ForwardItem \/ ForwardThrows
            \/ Advance \/ SampleItem \/ Retire

Done == next_id = NumRequests /\ ~ HasWork /\ UNCHANGED vars

Next == \/ \E r \in RequestKinds : AddRequest(r)
        \/ BeginStep \/ StepNext \/ Done

Spec == Init /\ [][Next]_vars

\* step() runs to its end, and its caller calls it again while there is work.
FairSpec == Spec /\ WF_vars(BeginStep \/ StepNext)

-----------------------------------------------------------------------------
(* Properties *)

Entries(q) == {q[k] : k \in DOMAIN q}

\* Every live request is in one queue, once; the running set holds exactly the
\* sequences with a cache, so no batch item has a null one, except those that
\* finished in the step under way.
QueuesExact ==
    /\ \A i, j \in DOMAIN (waiting \o running) :
         (waiting \o running)[i] = (waiting \o running)[j] => i = j
    /\ \A id \in Seqs :
        /\ id \in Entries(waiting) <=> id < next_id /\ status[id] = "Waiting"
        /\ id \in Entries(running) <=>
              \/ cache[id].capacity > 0
              \/ status[id] = "Finished" /\ pc = "sample" /\ \E k \in DOMAIN items : items[k].id = id

\* "Sized for prompt + generated tokens" is enough: no append() of a sequence
\* ever finds its cache full, also after forwards that failed and were retried,
\* unless its budget was negative.
CacheNeverFull == pc = "forward" /\ scan <= Len(items) =>
    LET id == items[scan].id
    IN request[id].max_tokens >= 0 => Fits(cache[id], items[scan].tokens)

\* Between steps a cache holds the context but its last token, which the next
\* decode feeds, or nothing before the prefill: a forward that failed half way
\* leaves no row that the next one would count twice.
LengthMatchesContext == \A id \in Entries(running) : pc \in {"idle", "admit"} =>
    cache[id].length = IF prefilled[id] THEN Len(request[id].prompt) + Len(output[id]) - 1 ELSE 0

\* The GPU engine serves its clients as the CPU engine does, whatever device
\* call fails.
Server == INSTANCE Serving WITH finished <- {id \in Seqs : status[id] = "Finished"}
ImplementsServing == Server!Spec

\* Rows asked for by the sequences running now.
RunningRows == Sum([id \in Seqs |-> IF id \in Entries(running) THEN Capacity(request[id]) ELSE 0])

\* The head of the queue asks for a cache of no rows, or for one that does not
\* fit next to those of the running sequences.  Each step admits first, so from
\* then on every step throws before it serves anyone.
HeadRefused ==
    /\ waiting # <<>> /\ Len(running) < MaxBatch
    /\ LET n == Capacity(request[Head(waiting)])
       IN n <= 0 \/ Buffers * (RunningRows + n) > Memory

\* A running sequence has a budget so negative that its prompt overflows its
\* cache: every forward throws, for the whole batch.
PromptRefused == \E id \in Entries(running) : Len(request[id].prompt) > Capacity(request[id])

\* Every submitted request finishes, also after device calls that failed, unless
\* some request does not fit at its turn, alone or next to those running: that
\* stops the engine for everybody.  What finished, left or failed before takes
\* no room: only what the requests of the moment ask for counts.
EveryRequestFinishes == \A id \in Seqs :
    request[id] # NoRequest ~> status[id] = "Finished" \/ HeadRefused \/ PromptRefused

\* A GpuKVCache "owns its device allocations": none outlives it.
AllocationsOwned == leaked = 0
=============================================================================
