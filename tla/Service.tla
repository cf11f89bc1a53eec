------------------------------ MODULE Service ------------------------------
(***************************************************************************)
(* The server of python/engine/server.py: one asyncio task steps the engine*)
(* and fans new tokens out to a queue per request; HTTP handlers submit    *)
(* requests and read their queues.  Everything runs on one event loop, so  *)
(* what the code does between two awaits is one action here.               *)
(*                                                                         *)
(* The engine is what Engine implements, Serving; a step of it serves any  *)
(* of the live requests, or throws.                                        *)
(***************************************************************************)
EXTENDS Integers, Sequences

CONSTANTS Tokens,        \* token ids
          NumRequests,   \* bound: requests submitted in a behaviour
          RequestKinds,  \* what may be asked: [prompt, max_tokens, eos]
          NoRequest,
          Sample(_),     \* tokens the engine may choose after a context
          StepThrows     \* whether a step of the engine may throw

ASSUME StepThrowsAssumption == StepThrows \in BOOLEAN

Seqs == 0..(NumRequests - 1)

VARIABLES
    request, output, finished,  \* the engine
    queues,    \* _queues: id -> messages not read yet
    emitted,   \* _emitted: id -> tokens put on its queue
    wakeup,    \* _wakeup is set
    task,      \* _run(): "run", "waiting" for _wakeup, "dead" or "stopped"
    client,    \* client[id]: "none", "opened", "reading", "done", "closing" or "gone"
    streams,   \* ids answered by a stream, which a disconnect can close
    received   \* received[id]: tokens its handler has read

engineVars == <<request, output, finished>>
vars == <<engineVars, queues, emitted, wakeup, task, client, streams, received>>

-----------------------------------------------------------------------------

Token(t) == <<"token", t>>
DoneMessage == <<"done", 0>>

Restricted(f, S) == [id \in DOMAIN f \cap S |-> f[id]]

Live == {id \in Seqs : request[id] # NoRequest /\ id \notin finished}
HasWork == Live # {}

Ends(id, token) == token = request[id].eos \/ Len(output[id]) + 1 >= request[id].max_tokens

Clients(state) == {id \in Seqs : client[id] = state}

-----------------------------------------------------------------------------

Init == /\ request = [id \in Seqs |-> NoRequest]
        /\ output = [id \in Seqs |-> <<>>]
        /\ finished = {}
        /\ queues = <<>> /\ emitted = <<>>
        /\ wakeup = FALSE /\ task = "run"
        /\ client = [id \in Seqs |-> "none"]
        /\ streams = {}
        /\ received = [id \in Seqs |-> <<>>]

\* Mutant of WakeupOnSubmit: the task is not told.
WakeupUnchanged == wakeup

\* _wakeup once a request is submitted.
WakeupOnSubmit == TRUE

\* A handler submits its request.  A stream is read when the response is first
\* iterated; a plain answer reads the queue at once.
Submit(id, r, stream) ==
    /\ task # "stopped"
    /\ client[id] = "none" /\ \A earlier \in 0..(id - 1) : client[earlier] # "none"
    /\ request' = [request EXCEPT ![id] = r]
    /\ queues' = [q \in DOMAIN queues \cup {id} |-> IF q = id THEN <<>> ELSE queues[q]]
    /\ emitted' = [q \in DOMAIN emitted \cup {id} |-> IF q = id THEN 0 ELSE emitted[q]]
    /\ wakeup' = WakeupOnSubmit
    /\ client' = [client EXCEPT ![id] = IF stream THEN "opened" ELSE "reading"]
    /\ streams' = IF stream THEN streams \cup {id} ELSE streams
    /\ UNCHANGED <<output, finished, task, received>>

\* The generator of a stream starts.
BeginStream(id) == /\ client[id] = "opened"
                   /\ client' = [client EXCEPT ![id] = "reading"]
                   /\ UNCHANGED <<engineVars, queues, emitted, wakeup, task, streams, received>>

\* Mutant of Close: only the queue is removed.
CloseQueueOnly(id) == /\ queues' = Restricted(queues, Seqs \ {id})
                      /\ UNCHANGED emitted

\* The finally clause of stream_tokens().
Close(id) == /\ queues' = Restricted(queues, Seqs \ {id})
             /\ emitted' = Restricted(emitted, Seqs \ {id})

\* A handler takes a token off its queue.
Receive(id) ==
    /\ client[id] = "reading" /\ queues[id] # <<>> /\ Head(queues[id]) # DoneMessage
    /\ received' = [received EXCEPT ![id] = Append(@, Head(queues[id])[2])]
    /\ queues' = [queues EXCEPT ![id] = Tail(@)]
    /\ UNCHANGED <<engineVars, emitted, wakeup, task, client, streams>>

\* A handler takes the end of the stream off its queue.
ReceiveDone(id) ==
    /\ client[id] = "reading" /\ queues[id] # <<>> /\ Head(queues[id]) = DoneMessage
    /\ Close(id)
    /\ client' = [client EXCEPT ![id] = "done"]
    /\ UNCHANGED <<engineVars, wakeup, task, streams, received>>

\* A client disconnects.  A generator that never started has no finally to run:
\* its queue stays.  One that waits for the queue is cancelled there; one that is
\* between two tokens is closed when it is collected.  The engine is never told.
Disconnect(id) ==
    /\ id \in streams
    /\ \/ /\ client[id] = "opened"
          /\ client' = [client EXCEPT ![id] = "gone"] /\ UNCHANGED <<queues, emitted>>
       \/ /\ client[id] = "reading" /\ queues[id] = <<>>
          /\ client' = [client EXCEPT ![id] = "gone"] /\ Close(id)
       \/ /\ client[id] = "reading"
          /\ client' = [client EXCEPT ![id] = "closing"] /\ UNCHANGED <<queues, emitted>>
    /\ UNCHANGED <<engineVars, wakeup, task, streams, received>>

Collect(id) == /\ client[id] = "closing" /\ Close(id)
               /\ client' = [client EXCEPT ![id] = "gone"]
               /\ UNCHANGED <<engineVars, wakeup, task, streams, received>>

\* _run() finds no work and waits.
AwaitWork == /\ task = "run" /\ ~ HasWork
             /\ wakeup' = FALSE /\ task' = "waiting"
             /\ UNCHANGED <<engineVars, queues, emitted, client, streams, received>>

Wake == /\ task = "waiting" /\ wakeup
        /\ task' = "run"
        /\ UNCHANGED <<engineVars, queues, emitted, wakeup, client, streams, received>>

\* engine.step(): the requests that tokens names get one each.
EngineStep(tokens) ==
    /\ \A id \in DOMAIN tokens : tokens[id] \in Sample(request[id].prompt \o output[id])
    /\ output' = [id \in Seqs |-> IF id \in DOMAIN tokens THEN Append(output[id], tokens[id])
                                  ELSE output[id]]
    /\ finished' = finished \cup {id \in DOMAIN tokens : Ends(id, tokens[id])}
    /\ UNCHANGED request

\* The messages of a request since the last fan-out.
Fresh(id) == [k \in 1..(Len(output'[id]) - emitted[id]) |-> Token(output'[id][emitted[id] + k])]

\* Mutant of Messages: the end is announced before the last tokens.
MessagesDoneFirst(id) == (IF id \in finished' THEN <<DoneMessage>> ELSE <<>>) \o Fresh(id)

Messages(id) == Fresh(id) \o (IF id \in finished' THEN <<DoneMessage>> ELSE <<>>)

\* Mutant of Counted: the count of emitted tokens is not updated.
CountedNever(id) == emitted[id]

Counted(id) == Len(output'[id])

\* The loop over _emitted after a step.
FanOut == /\ queues' = [id \in DOMAIN queues |->
                          IF id \in DOMAIN emitted THEN queues[id] \o Messages(id) ELSE queues[id]]
          /\ emitted' = [id \in DOMAIN emitted \ finished' |-> Counted(id)]

\* One turn of _run(): a step and its fan-out, with no await between them.
RunStep(tokens) == /\ task = "run" /\ HasWork
                   /\ EngineStep(tokens)
                   /\ FanOut
                   /\ UNCHANGED <<wakeup, task, client, streams, received>>

Steps(S) == \E tokens \in [S -> Tokens] : RunStep(tokens)

\* The step throws: the exception ends the task, and nothing starts another.
RunThrows == /\ StepThrows /\ task = "run" /\ HasWork
             /\ task' = "dead"
             /\ UNCHANGED <<engineVars, queues, emitted, wakeup, client, streams, received>>

\* stop(), once the server has no open connection left.
Stop == /\ task \in {"run", "waiting"}
        /\ Clients("opened") \cup Clients("reading") = {}
        /\ task' = "stopped"
        /\ UNCHANGED <<engineVars, queues, emitted, wakeup, client, streams, received>>

\* The bound on requests is reached: a server nobody writes to idles.
Idle == /\ task = "stopped" \/ Clients("none") = {}
        /\ UNCHANGED vars

ClientNext(id) == BeginStream(id) \/ Receive(id) \/ ReceiveDone(id)

Next == \/ \E id \in Seqs : \/ \E r \in RequestKinds, stream \in BOOLEAN : Submit(id, r, stream)
                            \/ ClientNext(id)
                            \/ Disconnect(id) \/ Collect(id)
        \/ AwaitWork \/ Wake \/ \E S \in SUBSET Live : Steps(S)
        \/ RunThrows \/ Stop \/ Idle

Spec == Init /\ [][Next]_vars

\* A step that serves request id, among others.
Serves(id) == \E S \in SUBSET Live : id \in S /\ Steps(S)

\* The event loop runs every handler and the task.  Nothing is said of whom a
\* step serves: the engine may starve a request, as Engine does when its prefix
\* cache pins the pool or when a request before it is too large.
FairSpec == /\ Spec
            /\ WF_vars(AwaitWork \/ Wake)
            /\ \A id \in Seqs : WF_vars(ClientNext(id))

-----------------------------------------------------------------------------
(* Properties *)

\* The two dictionaries never send anyone to a queue that is gone: not the
\* fan-out (a KeyError would end the task for all clients), not a reader.
QueuesPresent == /\ DOMAIN emitted \subseteq DOMAIN queues
                 /\ \A s \in {"opened", "reading", "closing"} : Clients(s) \subseteq DOMAIN queues

\* An answer that was closed as complete is complete, whoever else was served,
\* disconnected or arrived in between.
DoneIsComplete == \A id \in Clients("done") : id \in finished /\ received[id] = output[id]

\* While requests are live the task never sleeps for good: it is running or its
\* event is set, also when a submit falls between the test and the wait.
NoLostWakeup == task = "waiting" /\ HasWork => wakeup

\* What the clients read is what the engine promises: each reads its own tokens,
\* once, in order, whatever happens to the others.
Read == INSTANCE Serving WITH
            output <- received,
            finished <- {id \in finished : received[id] = output[id]}
ImplementsServing == Read!Spec

Left(id) == client[id] \in {"done", "closing", "gone"}

\* Whatever the engine does, a client that reads and stays catches up with what
\* was produced for it, and is told the end of a finished answer, also when the
\* task has died since.  If moreover the engine does not starve the request while
\* the task runs, its client is answered to the end, unless a step threw.
EveryClientServed == \A id \in Seqs :
    /\ client[id] = "reading" ~> received[id] = output[id] \/ Left(id)
    /\ client[id] = "reading" /\ id \in finished ~> Left(id)
    /\ WF_vars(Serves(id)) => (client[id] = "reading" ~> Left(id) \/ task = "dead")
=============================================================================
