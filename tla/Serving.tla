------------------------------ MODULE Serving ------------------------------
(***************************************************************************)
(* What the engine promises its clients: every request is served as if it  *)
(* ran alone.  A request's next token is one the sampler may draw after its*)
(* own prompt and its own output so far; output only grows; the request is *)
(* finished by the token that is its end-of-sequence token or fills its    *)
(* budget, and nothing is emitted afterwards.  Batching, paging, preemption*)
(* and prefix sharing are invisible.                                       *)
(***************************************************************************)
EXTENDS Integers, Sequences

CONSTANTS Seqs,          \* request ids
          RequestKinds,  \* requests: [prompt, max_tokens, eos]
          NoRequest,     \* an id nobody has submitted
          Sample(_)      \* tokens the sampler may draw after a context

VARIABLES request,  \* request[id]: what was asked
          output,   \* output[id]: the tokens generated so far
          finished  \* ids whose generation is complete

vars == <<request, output, finished>>

Init == /\ request = [id \in Seqs |-> NoRequest]
        /\ output = [id \in Seqs |-> <<>>]
        /\ finished = {}

Submit(id, r) == /\ request[id] = NoRequest
                 /\ request' = [request EXCEPT ![id] = r]
                 /\ UNCHANGED <<output, finished>>

Emit(id) ==
    /\ request[id] # NoRequest /\ id \notin finished
    /\ \E token \in Sample(request[id].prompt \o output[id]) :
         /\ output' = [output EXCEPT ![id] = Append(@, token)]
         /\ finished' = IF token = request[id].eos \/ Len(output[id]) + 1 >= request[id].max_tokens
                        THEN finished \cup {id} ELSE finished
    /\ UNCHANGED request

Next == \E id \in Seqs : Emit(id) \/ \E r \in RequestKinds : Submit(id, r)

Spec == Init /\ [][Next]_vars
=============================================================================
