---------------------------- MODULE ServiceProofs ----------------------------
(***************************************************************************)
(* The server keeps every reader's queue, never sleeps on live requests,   *)
(* and delivers to each client exactly what the engine promises, for any   *)
(* number of clients and any interleaving of them with the step task.      *)
(*                                                                         *)
(* The argument: between two turns of the event loop the tokens a client   *)
(* has read and the messages on its queue are together the output of its   *)
(* request, with the end announced last and only when it is the end        *)
(* (Delivery); the fan-out keeps it so because it counts what it sent      *)
(* (Counts).  A token read is then the next one of the output, which was   *)
(* drawn after the tokens before it (Served).                              *)
(***************************************************************************)
EXTENDS Service, SequenceTheorems, TLAPS

ClientStates == {"none", "opened", "reading", "done", "closing", "gone"}

Message == {Token(t) : t \in Tokens} \cup {DoneMessage}

Shape == /\ request \in [Seqs -> RequestKinds \cup {NoRequest}]
         /\ output \in [Seqs -> Seq(Tokens)] /\ received \in [Seqs -> Seq(Tokens)]
         /\ finished \subseteq Seqs
         /\ queues \in [DOMAIN queues -> Seq(Message)] /\ DOMAIN queues \subseteq Seqs
         /\ client \in [Seqs -> ClientStates]

\* Nothing is known of a request nobody submitted.
Fallow == \A id \in Clients("none") : /\ request[id] = NoRequest
                                      /\ output[id] = <<>> /\ received[id] = <<>>
                                      /\ id \notin finished

\* A request leaves _emitted with its last messages, or with its queue.
Counts == \A id \in DOMAIN queues :
    /\ id \in DOMAIN emitted <=> id \notin finished
    /\ id \in DOMAIN emitted => emitted[id] = Len(output[id])

\* What a client has read is what its request produced first.
Prefix(id) == /\ Len(received[id]) <= Len(output[id])
              /\ \A k \in 1..Len(received[id]) : received[id][k] = output[id][k]

Unread(id) == Len(output[id]) - Len(received[id])

\* The queue holds the rest of the output, then its end if that is known.
Delivery(id) ==
    /\ Len(queues[id]) = Unread(id) + IF id \in finished THEN 1 ELSE 0
    /\ \A k \in 1..Unread(id) : queues[id][k] = Token(output[id][Len(received[id]) + k])
    /\ id \in finished => queues[id][Unread(id) + 1] = DoneMessage

Before(s, k) == [j \in 1..(k - 1) |-> s[j]]

\* Every token was drawn after those before it, and the last one is the end.
Served(id) == \A k \in 1..Len(output[id]) :
    /\ output[id][k] \in Sample(request[id].prompt \o Before(output[id], k))
    /\ (output[id][k] = request[id].eos \/ k >= request[id].max_tokens)
          <=> k = Len(output[id]) /\ id \in finished

Asked(id) == /\ output[id] # <<>> => request[id] # NoRequest
             /\ id \in finished => output[id] # <<>>

Histories == \A id \in Seqs : Prefix(id) /\ Served(id) /\ Asked(id)

Deliveries == \A id \in DOMAIN queues : Delivery(id)

IInv == /\ Shape /\ Fallow /\ Counts /\ Histories /\ Deliveries
        /\ QueuesPresent /\ DoneIsComplete /\ NoLostWakeup

-----------------------------------------------------------------------------

LEMMA InitInv == Init => IInv
  <1> SUFFICES ASSUME Init PROVE IInv
    OBVIOUS
  <1>1. Shape /\ Fallow
    BY DEF Init, Shape, Fallow, Clients, ClientStates
  <1>2. Counts /\ Deliveries /\ QueuesPresent
    BY DEF Init, Counts, Deliveries, QueuesPresent, Clients
  <1>3. Histories
    BY DEF Init, Histories, Prefix, Served, Asked
  <1>4. DoneIsComplete /\ NoLostWakeup
    BY DEF Init, DoneIsComplete, NoLostWakeup, Clients
  <1>5. QED
    BY <1>1, <1>2, <1>3, <1>4 DEF IInv

\* A request, once asked, may be asked differently only before its first token.
LEMMA HistoriesKept ==
  ASSUME Histories, UNCHANGED <<output, finished, received>>,
         \A id \in Seqs : request'[id] = request[id] \/ output[id] = <<>>
  PROVE  Histories'
  BY DEF Histories, Prefix, Served, Asked, Before

LEMMA DeliveriesKept ==
  ASSUME Deliveries, UNCHANGED <<output, finished, received>>,
         DOMAIN queues' \subseteq DOMAIN queues,
         \A id \in DOMAIN queues' : queues'[id] = queues[id]
  PROVE  Deliveries'
  BY DEF Deliveries, Delivery, Unread

LEMMA SubmitInv ==
  ASSUME IInv, NEW id \in Seqs, NEW r \in RequestKinds, NEW stream \in BOOLEAN,
         Submit(id, r, stream)
  PROVE  IInv'
  <1>1. /\ client[id] = "none" /\ id \in Clients("none")
        /\ output[id] = <<>> /\ received[id] = <<>> /\ id \notin finished
    BY DEF Submit, IInv, Fallow, Clients
  <1>2. Shape'
    BY <1>1 DEF Submit, IInv, Shape, ClientStates
  <1>3. Fallow'
    BY DEF Submit, IInv, Shape, Fallow, Clients
  <1>4. Counts'
    BY <1>1 DEF Submit, IInv, Counts
  <1>5. Histories'
    BY <1>1, HistoriesKept DEF Submit, IInv, Shape
  <1>6. Deliveries'
    <2>1. ASSUME NEW q \in DOMAIN queues' PROVE Delivery(q)'
      <3>1. CASE q = id
        <4>1. queues'[q] = <<>> /\ output'[q] = <<>> /\ received'[q] = <<>> /\ q \notin finished'
          BY <1>1, <3>1 DEF Submit
        <4>2. Unread(q)' = 0
          BY <4>1 DEF Unread
        <4>3. QED
          BY <4>1, <4>2 DEF Delivery
      <3>2. CASE q # id
        BY <3>2 DEF Submit, IInv, Deliveries, Delivery, Unread
      <3>3. QED
        BY <3>1, <3>2
    <2>2. QED
      BY <2>1 DEF Deliveries
  <1>7. QueuesPresent'
    BY DEF Submit, IInv, Shape, QueuesPresent, Clients
  <1>8. DoneIsComplete'
    BY <1>1 DEF Submit, IInv, Shape, DoneIsComplete, Clients
  <1>9. NoLostWakeup'
    BY DEF Submit, NoLostWakeup, WakeupOnSubmit
  <1>10. QED
    BY <1>2, <1>3, <1>4, <1>5, <1>6, <1>7, <1>8, <1>9 DEF IInv

\* A turn of a handler that reads no token: its client goes from one state to
\* the next, and its queue and its count go with it if it is over.
ClientTurn(id, s) ==
    /\ client[id] # "none" /\ client' = [client EXCEPT ![id] = s]
    /\ UNCHANGED <<engineVars, received, wakeup, task>>
    /\ \/ s \in {"done", "gone"} /\ Close(id)
       \/ s \in {"reading", "closing"} /\ id \in DOMAIN queues /\ UNCHANGED <<queues, emitted>>
       \/ s = "gone" /\ UNCHANGED <<queues, emitted>>
    /\ s = "done" => id \in finished /\ received[id] = output[id]

LEMMA ClientInv ==
  ASSUME IInv, NEW id \in Seqs, NEW s, ClientTurn(id, s)
  PROVE  IInv'
  <1>1. /\ DOMAIN queues' \subseteq DOMAIN queues
        /\ \A q \in DOMAIN queues' : queues'[q] = queues[q]
        /\ \A q \in DOMAIN queues' : /\ q \in DOMAIN emitted' <=> q \in DOMAIN emitted
                                     /\ q \in DOMAIN emitted' => emitted'[q] = emitted[q]
        /\ DOMAIN emitted' \subseteq DOMAIN queues'
    BY DEF ClientTurn, Close, Restricted, IInv, QueuesPresent, Shape
  <1>2. Shape'
    <2>1. queues' \in [DOMAIN queues' -> Seq(Message)]
      BY DEF ClientTurn, Close, Restricted, IInv, Shape
    <2>2. QED
      BY <1>1, <2>1 DEF ClientTurn, IInv, Shape, ClientStates, engineVars
  <1>3. Fallow'
    BY DEF ClientTurn, IInv, Shape, Fallow, Clients, engineVars
  <1>4. Counts'
    BY <1>1 DEF ClientTurn, IInv, Counts, engineVars
  <1>5. Histories'
    BY HistoriesKept DEF ClientTurn, IInv, engineVars
  <1>6. Deliveries'
    BY <1>1, DeliveriesKept DEF ClientTurn, IInv, engineVars
  <1>7. QueuesPresent'
    <2>1. ASSUME NEW t \in {"opened", "reading", "closing"}, NEW q \in Clients(t)'
          PROVE  q \in DOMAIN queues'
      <3>1. CASE q = id
        <4>1. s = t
          BY <3>1 DEF ClientTurn, Clients, IInv, Shape
        <4>2. QED
          BY <3>1, <4>1 DEF ClientTurn, Close
      <3>2. CASE q # id
        <4>1. q \in Seqs /\ client[q] = t
          BY <3>2 DEF ClientTurn, Clients, IInv, Shape
        <4>2. q \in DOMAIN queues
          BY <4>1 DEF IInv, QueuesPresent, Clients
        <4>3. QED
          BY <3>2, <4>1, <4>2 DEF ClientTurn, Close, Restricted
      <3>3. QED
        BY <3>1, <3>2
    <2>2. QED
      BY <1>1, <2>1 DEF QueuesPresent
  <1>8. DoneIsComplete'
    BY DEF ClientTurn, IInv, Shape, DoneIsComplete, Clients, engineVars
  <1>9. NoLostWakeup'
    BY DEF ClientTurn, IInv, NoLostWakeup, HasWork, Live, engineVars
  <1>10. QED
    BY <1>2, <1>3, <1>4, <1>5, <1>6, <1>7, <1>8, <1>9 DEF IInv

\* The head of a reader's queue is its next token, or the end.
LEMMA HeadOfQueue ==
  ASSUME IInv, NEW id \in Seqs, client[id] = "reading", queues[id] # <<>>
  PROVE  /\ id \in DOMAIN queues /\ queues[id] \in Seq(Message)
         /\ Head(queues[id]) # DoneMessage =>
              /\ Len(received[id]) < Len(output[id])
              /\ Head(queues[id]) = Token(output[id][Len(received[id]) + 1])
         /\ Head(queues[id]) = DoneMessage => id \in finished /\ received[id] = output[id]
  <1>1. id \in DOMAIN queues
    BY DEF IInv, QueuesPresent, Clients
  <1>2. queues[id] \in Seq(Message) /\ output[id] \in Seq(Tokens) /\ received[id] \in Seq(Tokens)
    BY <1>1 DEF IInv, Shape
  <1>3. Delivery(id) /\ Prefix(id)
    BY <1>1 DEF IInv, Deliveries, Histories
  <1> DEFINE n == Len(received[id])
             m == Len(output[id])
  <1>n. n \in Nat /\ m \in Nat /\ Unread(id) = m - n
    BY <1>2 DEF Unread
  <1>4. Unread(id) \in Nat /\ Head(queues[id]) = queues[id][1] /\ Len(queues[id]) >= 1
    BY <1>2, <1>3 DEF Unread, Prefix
  <1>5. CASE Unread(id) > 0
    <2>1. Head(queues[id]) = Token(output[id][Len(received[id]) + 1])
      BY <1>3, <1>4, <1>5 DEF Delivery
    <2>2. Head(queues[id]) # DoneMessage
      BY <2>1 DEF Token, DoneMessage
    <2>3. n < m
      <3> HIDE DEF n, m
      <3>1. QED
        BY <1>n, <1>5
    <2>4. QED
      BY <1>1, <1>2, <2>1, <2>2, <2>3
  <1>6. CASE Unread(id) = 0
    <2>1. id \in finished /\ Head(queues[id]) = DoneMessage
      BY <1>3, <1>4, <1>6 DEF Delivery
    <2>2. received[id] = output[id]
      <3>1. Len(received[id]) = Len(output[id])
        BY <1>2, <1>6 DEF Unread
      <3>2. \A k \in 1..Len(received[id]) : received[id][k] = output[id][k]
        BY <1>3 DEF Prefix
      <3>3. QED
        BY <1>2, <3>1, <3>2, SeqEqual
    <2>3. QED
      BY <1>1, <1>2, <2>1, <2>2
  <1>7. QED
    BY <1>4, <1>5, <1>6

LEMMA ReceiveInv ==
  ASSUME IInv, NEW id \in Seqs, Receive(id)
  PROVE  IInv'
  <1> DEFINE n == Len(received[id])
             t == output[id][n + 1]
  <1>1. /\ client[id] = "reading" /\ queues[id] # <<>> /\ Head(queues[id]) # DoneMessage
        /\ queues' = [queues EXCEPT ![id] = Tail(@)]
        /\ UNCHANGED <<engineVars, emitted, wakeup, task, client, streams>>
    BY DEF Receive
  <1>2. /\ id \in DOMAIN queues /\ queues[id] \in Seq(Message)
        /\ n < Len(output[id]) /\ Head(queues[id]) = Token(t)
    BY <1>1, HeadOfQueue
  <1>3. /\ output[id] \in Seq(Tokens) /\ received[id] \in Seq(Tokens) /\ t \in Tokens
        /\ Len(output[id]) \in Nat /\ n \in Nat
    BY <1>2 DEF IInv, Shape
  <1>4. received' = [received EXCEPT ![id] = Append(received[id], t)]
    <2>1. Head(queues[id])[2] = t
      BY <1>2 DEF Token
    <2>2. QED
      BY <2>1 DEF Receive
  <1>5. Shape'
    <2>1. Tail(queues[id]) \in Seq(Message)
      BY <1>1, <1>2
    <2>2. queues' \in [DOMAIN queues' -> Seq(Message)] /\ DOMAIN queues' = DOMAIN queues
      BY <1>1, <2>1 DEF IInv, Shape
    <2>3. received' \in [Seqs -> Seq(Tokens)]
      BY <1>3, <1>4 DEF IInv, Shape
    <2>4. QED
      BY <1>1, <2>2, <2>3 DEF IInv, Shape, engineVars
  <1>6. Fallow'
    BY <1>1, <1>4 DEF IInv, Fallow, Clients, engineVars
  <1>7. Counts'
    BY <1>1 DEF IInv, Counts, engineVars
  <1>8. Histories'
    <2>1. ASSUME NEW q \in Seqs PROVE (Prefix(q) /\ Served(q) /\ Asked(q))'
      <3>1. Served(q)' /\ Asked(q)'
        BY <1>1 DEF IInv, Histories, Served, Asked, Before, engineVars
      <3>2. Prefix(q)'
        <4>1. CASE q = id
          <5>1. received'[q] = Append(received[id], t) /\ Prefix(id)
            BY <1>4, <4>1 DEF IInv, Shape, Histories
          <5>2. Len(received'[q]) = n + 1
            BY <1>3, <5>1
          <5>3. \A k \in 1..(n + 1) : received'[q][k] = output[id][k]
            BY <1>3, <5>1 DEF Prefix
          <5>4. QED
            BY <1>1, <1>2, <1>3, <4>1, <5>2, <5>3 DEF Prefix, engineVars
        <4>2. CASE q # id
          BY <1>1, <1>4, <4>2 DEF IInv, Shape, Histories, Prefix, engineVars
        <4>3. QED
          BY <4>1, <4>2
      <3>3. QED
        BY <3>1, <3>2
    <2>2. QED
      BY <2>1 DEF Histories
  <1>9. Deliveries'
    <2>1. ASSUME NEW q \in DOMAIN queues PROVE Delivery(q)'
      <3>1. CASE q = id
        <4> DEFINE u == Len(output[id]) - n
        <4>1. queues'[id] = Tail(queues[id]) /\ Len(received'[id]) = n + 1
          BY <1>1, <1>2, <1>3, <1>4 DEF IInv, Shape
        <4>2. Delivery(id) /\ u \in Nat \ {0} /\ Unread(id) = u
          BY <1>2, <1>3 DEF IInv, Deliveries, Unread
        <4>3. Unread(id)' = u - 1
          BY <1>1, <1>3, <4>1 DEF Unread, engineVars
        <4>4. /\ Len(queues[id]) \in Nat /\ Len(queues'[id]) = Len(queues[id]) - 1
              /\ \A k \in 1..(Len(queues[id]) - 1) : queues'[id][k] = queues[id][k + 1]
          BY <1>1, <1>2, <4>1
        <4> HIDE DEF u
        <4>5. Len(queues'[id]) = u - 1 + IF id \in finished THEN 1 ELSE 0
          BY <1>2, <1>3, <4>2, <4>4 DEF Delivery
        <4>6. ASSUME NEW k \in 1..(u - 1)
              PROVE  queues'[id][k] = Token(output[id][n + 1 + k])
          <5>1. queues'[id][k] = queues[id][k + 1] /\ k + 1 \in 1..u
            BY <1>2, <1>3, <4>2, <4>4, <4>5
          <5>2. queues[id][k + 1] = Token(output[id][n + (k + 1)])
            BY <4>2, <5>1 DEF Delivery
          <5>3. n + (k + 1) = n + 1 + k
            <6>1. n \in Nat /\ k \in Int
              BY <1>3, <4>2
            <6> HIDE DEF n
            <6>2. QED
              BY <6>1
          <5>4. QED
            BY <5>1, <5>2, <5>3
        <4>7. id \in finished => queues'[id][u] = DoneMessage
          <5> SUFFICES ASSUME id \in finished PROVE queues'[id][u] = DoneMessage
            OBVIOUS
          <5>1. Len(queues[id]) = u + 1 /\ queues[id][u + 1] = DoneMessage
            BY <4>2 DEF Delivery
          <5>2. u \in 1..(Len(queues[id]) - 1)
            BY <4>2, <5>1
          <5>3. QED
            BY <4>4, <5>1, <5>2
        <4>8. u - 1 + 1 = u
          BY <4>2
        <4>9. QED
          BY <1>1, <3>1, <4>1, <4>3, <4>5, <4>6, <4>7, <4>8 DEF Delivery, engineVars
      <3>2. CASE q # id
        BY <1>1, <1>4, <3>2 DEF IInv, Shape, Deliveries, Delivery, Unread, engineVars
      <3>3. QED
        BY <3>1, <3>2
    <2>2. QED
      BY <1>1, <2>1 DEF Deliveries
  <1>10. QueuesPresent'
    BY <1>1 DEF IInv, QueuesPresent, Clients
  <1>11. DoneIsComplete'
    BY <1>1, <1>4 DEF IInv, Shape, DoneIsComplete, Clients, engineVars
  <1>12. NoLostWakeup'
    BY <1>1 DEF IInv, NoLostWakeup, HasWork, Live, engineVars
  <1>13. QED
    BY <1>5, <1>6, <1>7, <1>8, <1>9, <1>10, <1>11, <1>12 DEF IInv

LEMMA ReceiveDoneInv ==
  ASSUME IInv, NEW id \in Seqs, ReceiveDone(id)
  PROVE  IInv'
  <1>1. id \in finished /\ received[id] = output[id]
    BY HeadOfQueue DEF ReceiveDone
  <1>2. ClientTurn(id, "done")
    BY <1>1 DEF ReceiveDone, ClientTurn
  <1>3. QED
    BY <1>2, ClientInv

LEMMA BeginStreamInv ==
  ASSUME IInv, NEW id \in Seqs, BeginStream(id)
  PROVE  IInv'
  <1>1. id \in DOMAIN queues
    BY DEF BeginStream, IInv, QueuesPresent, Clients
  <1>2. ClientTurn(id, "reading")
    BY <1>1 DEF BeginStream, ClientTurn
  <1>3. QED
    BY <1>2, ClientInv

LEMMA DisconnectInv ==
  ASSUME IInv, NEW id \in Seqs, Disconnect(id)
  PROVE  IInv'
  <1>1. client[id] = "reading" => id \in DOMAIN queues
    BY DEF IInv, QueuesPresent, Clients
  <1>2. ClientTurn(id, "gone") \/ ClientTurn(id, "closing")
    BY <1>1 DEF Disconnect, ClientTurn
  <1>3. QED
    BY <1>2, ClientInv

LEMMA CollectInv ==
  ASSUME IInv, NEW id \in Seqs, Collect(id)
  PROVE  IInv'
  <1>1. ClientTurn(id, "gone")
    BY DEF Collect, ClientTurn
  <1>2. QED
    BY <1>1, ClientInv

\* Steps of the task between two turns touch neither requests nor queues.
LEMMA TaskInv ==
  ASSUME IInv, AwaitWork \/ Wake \/ RunThrows \/ Stop \/ Idle \/ UNCHANGED vars
  PROVE  IInv'
  <1>1. UNCHANGED <<engineVars, queues, emitted, client, received>>
    BY DEF AwaitWork, Wake, RunThrows, Stop, Idle, vars
  <1>2. Shape' /\ Fallow' /\ Counts' /\ QueuesPresent' /\ DoneIsComplete'
    BY <1>1 DEF IInv, Shape, Fallow, Counts, QueuesPresent, DoneIsComplete, Clients, engineVars
  <1>3. Histories'
    BY <1>1, HistoriesKept DEF IInv, engineVars
  <1>4. Deliveries'
    BY <1>1, DeliveriesKept DEF IInv, engineVars
  <1>5. NoLostWakeup'
    BY <1>1 DEF AwaitWork, Wake, RunThrows, Stop, Idle, vars, IInv, NoLostWakeup, HasWork, Live,
                engineVars
  <1>6. QED
    BY <1>2, <1>3, <1>4, <1>5 DEF IInv

\* What a step does to one request: nothing, or one more token.
LEMMA StepOne ==
  ASSUME IInv, NEW S \in SUBSET Live, NEW tokens \in [S -> Tokens], RunStep(tokens), NEW id \in Seqs
  PROVE  /\ id \notin S => output'[id] = output[id] /\ (id \in finished' <=> id \in finished)
         /\ id \in S => /\ tokens[id] \in Tokens
                        /\ tokens[id] \in Sample(request[id].prompt \o output[id])
                        /\ id \notin finished /\ request[id] # NoRequest /\ client[id] # "none"
                        /\ output'[id] = Append(output[id], tokens[id])
                        /\ id \in finished' <=> Ends(id, tokens[id])
         /\ id \in finished => id \in finished'
         /\ request' = request
  <1>1. /\ output' = [q \in Seqs |-> IF q \in S THEN Append(output[q], tokens[q]) ELSE output[q]]
        /\ finished' = finished \cup {q \in S : Ends(q, tokens[q])}
        /\ \A q \in S : tokens[q] \in Sample(request[q].prompt \o output[q])
        /\ request' = request
    BY DEF RunStep, EngineStep
  <1>2. id \in S => id \notin finished /\ request[id] # NoRequest /\ client[id] # "none"
    BY DEF Live, IInv, Fallow, Clients
  <1>3. QED
    BY <1>1, <1>2

\* A function on 1..n is a sequence.
LEMMA FunctionIsSeq ==
  ASSUME NEW T, NEW n \in Nat, NEW f \in [1..n -> T]
  PROVE  f \in Seq(T) /\ Len(f) = n
  <1>1. f \in Seq(T)
    BY SeqDef
  <1>2. DOMAIN f = 1..n /\ DOMAIN f = 1..Len(f) /\ Len(f) \in Nat
    BY <1>1, LenProperties
  <1>3. QED
    BY <1>1, <1>2

\* What is put on a queue comes after what is on it.
LEMMA Queued ==
  ASSUME NEW p \in Seq(Message), NEW q \in Seq(Message)
  PROVE  /\ p \o q \in Seq(Message) /\ Len(p \o q) = Len(p) + Len(q)
         /\ \A k \in 1..(Len(p) + Len(q)) :
              (p \o q)[k] = IF k <= Len(p) THEN p[k] ELSE q[k - Len(p)]
  BY ConcatProperties

\* How many tokens a step gives a request.
Gained(S, id) == IF id \in S THEN 1 ELSE 0

\* What the fan-out puts on one queue: the new token if there is one, then the end.
LEMMA MessagesOne ==
  ASSUME IInv, NEW S \in SUBSET Live, NEW tokens \in [S -> Tokens], RunStep(tokens),
         NEW id \in Seqs, id \in DOMAIN emitted, id \in DOMAIN queues
  PROVE  /\ Messages(id) \in Seq(Message)
         /\ Len(Messages(id)) = Gained(S, id) + IF id \in finished' THEN 1 ELSE 0
         /\ Gained(S, id) = 1 => Messages(id)[1] = Token(tokens[id])
         /\ id \in finished' => Messages(id)[Gained(S, id) + 1] = DoneMessage
         /\ Len(output'[id]) = Len(output[id]) + Gained(S, id)
  <1> DEFINE d == Gained(S, id)
             n == Len(output[id])
  <1>1. emitted[id] = n /\ n \in Nat /\ output[id] \in Seq(Tokens)
    BY DEF IInv, Counts, Shape
  <1>2. Len(output'[id]) = n + d /\ (d = 1 => output'[id][n + 1] = tokens[id] /\ tokens[id] \in Tokens)
    <2>1. /\ id \notin S => output'[id] = output[id]
          /\ id \in S => tokens[id] \in Tokens /\ output'[id] = Append(output[id], tokens[id])
      BY StepOne
    <2>2. CASE id \in S
      BY <1>1, <2>1, <2>2 DEF Gained
    <2>3. CASE id \notin S
      BY <1>1, <2>1, <2>3 DEF Gained
    <2>4. QED
      BY <2>2, <2>3
  <1>3. Fresh(id) = [k \in 1..d |-> Token(output'[id][n + k])]
    <2> HIDE DEF n, d
    <2>1. d \in Nat
      BY DEF d, Gained
    <2>2. Len(output'[id]) - emitted[id] = d
      BY <1>1, <1>2, <2>1
    <2>3. QED
      BY <1>1, <2>2 DEF Fresh
  <1>4. Fresh(id) \in [1..d -> Message] /\ (d = 1 => Fresh(id)[1] = Token(tokens[id]))
    BY <1>2, <1>3 DEF Message, Gained
  <1>5. Fresh(id) \in Seq(Message) /\ Len(Fresh(id)) = d
    <2>1. d \in Nat
      BY DEF Gained
    <2>2. QED
      BY <1>4, <2>1, FunctionIsSeq
  <1> DEFINE e == IF id \in finished' THEN <<DoneMessage>> ELSE <<>>
  <1>6. e \in Seq(Message) /\ Len(e) = IF id \in finished' THEN 1 ELSE 0
    <2>1. DoneMessage \in Message
      BY DEF Message
    <2>2. CASE id \in finished'
      BY <2>1, <2>2
    <2>3. CASE id \notin finished'
      BY <2>3
    <2>4. QED
      BY <2>2, <2>3
  <1>7. id \in finished' => e[1] = DoneMessage
    OBVIOUS
  <1>8. Messages(id) = Fresh(id) \o e
    BY DEF Messages
  <1>9. QED
    <2> HIDE DEF e, n
    <2>1. /\ Messages(id) \in Seq(Message) /\ Len(Messages(id)) = Len(Fresh(id)) + Len(e)
          /\ \A i \in 1..(Len(Fresh(id)) + Len(e)) :
               Messages(id)[i] = IF i <= Len(Fresh(id)) THEN Fresh(id)[i] ELSE e[i - Len(Fresh(id))]
      BY <1>5, <1>6, <1>8, Queued
    <2>2. CASE id \in S
      BY <1>2, <1>4, <1>5, <1>6, <1>7, <2>1, <2>2 DEF n, Gained
    <2>3. CASE id \notin S
      BY <1>2, <1>4, <1>5, <1>6, <1>7, <2>1, <2>3 DEF n, Gained
    <2>4. QED
      BY <2>2, <2>3

\* The token drawn in a step is the next of its request, and ends it or not.
LEMMA ServedOne ==
  ASSUME IInv, NEW S \in SUBSET Live, NEW tokens \in [S -> Tokens], RunStep(tokens),
         NEW id \in Seqs, id \in S
  PROVE  Served(id)'
  <1> DEFINE out == output[id]
             n == Len(out)
             t == tokens[id]
  <1>1. /\ out \in Seq(Tokens) /\ n \in Nat /\ Served(id)
    BY DEF IInv, Shape, Histories
  <1>2. /\ output'[id] = Append(out, t) /\ t \in Tokens /\ id \notin finished
        /\ t \in Sample(request[id].prompt \o out) /\ request'[id] = request[id]
        /\ id \in finished' <=> Ends(id, t)
    BY StepOne
  <1>3. /\ Len(output'[id]) = n + 1 /\ output'[id][n + 1] = t
        /\ \A k \in 1..n : output'[id][k] = out[k]
    BY <1>1, <1>2
  <1>4. \A k \in 1..(n + 1) : Before(output'[id], k) = Before(out, k)
    BY <1>1, <1>3 DEF Before
  <1>5. Before(out, n + 1) = out
    <2>1. n + 1 - 1 = n /\ out = [j \in 1..n |-> out[j]]
      BY <1>1
    <2>2. QED
      BY <2>1 DEF Before
  <1>6. ASSUME NEW k \in 1..(n + 1)
        PROVE  /\ output'[id][k] \in Sample(request'[id].prompt \o Before(output'[id], k))
               /\ (output'[id][k] = request'[id].eos \/ k >= request'[id].max_tokens)
                     <=> k = n + 1 /\ id \in finished'
    <2>1. CASE k = n + 1
      BY <1>2, <1>3, <1>4, <1>5, <2>1 DEF Ends
    <2>2. CASE k # n + 1
      <3>1. k \in 1..n
        BY <1>1, <2>2
      <3>2. QED
        BY <1>1, <1>2, <1>3, <1>4, <2>2, <3>1 DEF Served
    <2>3. QED
      BY <2>1, <2>2
  <1>7. QED
    BY <1>3, <1>6 DEF Served

\* The fan-out appends to a queue what its request's output gained.
LEMMA DeliveryOne ==
  ASSUME IInv, NEW S \in SUBSET Live, NEW tokens \in [S -> Tokens], RunStep(tokens),
         NEW id \in DOMAIN queues
  PROVE  Delivery(id)' /\ queues'[id] \in Seq(Message)
  <1> DEFINE n == Len(output[id])
             m == Len(received[id])
             u == Unread(id)
             d == Gained(S, id)
  <1>1. /\ id \in Seqs /\ output[id] \in Seq(Tokens) /\ received[id] \in Seq(Tokens)
        /\ queues[id] \in Seq(Message)
    BY DEF IInv, Shape
  <1>2. n \in Nat /\ m \in Nat /\ u \in Nat /\ n = m + u /\ Delivery(id)
    BY <1>1 DEF IInv, Histories, Deliveries, Prefix, Unread
  <1>3. received' = received
    BY DEF RunStep
  <1>4. queues'[id] = IF id \in DOMAIN emitted THEN queues[id] \o Messages(id) ELSE queues[id]
    BY DEF RunStep, FanOut
  <1>5. CASE id \notin DOMAIN emitted
    <2>1. id \in finished
      BY <1>5 DEF IInv, Counts
    <2>2. id \notin S /\ id \in finished' /\ output'[id] = output[id]
      BY <1>1, <2>1, StepOne
    <2>3. QED
      BY <1>1, <1>2, <1>3, <1>4, <1>5, <2>1, <2>2 DEF Delivery, Unread
  <1>6. CASE id \in DOMAIN emitted
    <2> DEFINE new == Messages(id)
    <2>1. id \notin finished
      BY <1>6 DEF IInv, Counts
    <2>2. /\ new \in Seq(Message) /\ Len(new) = d + IF id \in finished' THEN 1 ELSE 0
          /\ d = 1 => new[1] = Token(tokens[id])
          /\ id \in finished' => new[d + 1] = DoneMessage
          /\ Len(output'[id]) = n + d
      BY <1>1, <1>6, MessagesOne
    <2>3. /\ queues'[id] \in Seq(Message) /\ Len(queues'[id]) = Len(queues[id]) + Len(new)
          /\ \A k \in 1..(Len(queues[id]) + Len(new)) :
               queues'[id][k] = IF k <= Len(queues[id]) THEN queues[id][k]
                                ELSE new[k - Len(queues[id])]
      BY <1>1, <1>4, <1>6, <2>2, Queued
    <2>4. Len(queues[id]) = u
      BY <1>2, <2>1 DEF Delivery
    <2>5. /\ \A k \in 1..n : output'[id][k] = output[id][k]
          /\ d = 1 => output'[id][n + 1] = tokens[id]
      <3>1. id \notin S => output'[id] = output[id]
        BY <1>1, StepOne
      <3>2. id \in S => output'[id] = Append(output[id], tokens[id]) /\ tokens[id] \in Tokens
        BY <1>1, StepOne
      <3>3. QED
        BY <1>1, <3>1, <3>2 DEF Gained
    <2>6. d \in {0, 1}
      BY DEF Gained
    <2> HIDE DEF d, new, n, m, u
    <2>7. Unread(id)' = u + d
      <3>1. Unread(id)' = Len(output'[id]) - Len(received[id])
        BY <1>3 DEF Unread
      <3>2. Unread(id)' = n + d - m
        BY <1>2, <2>2, <2>6, <3>1 DEF m
      <3>3. QED
        BY <1>2, <2>6, <3>2
    <2>8. Len(queues'[id]) = u + d + IF id \in finished' THEN 1 ELSE 0
      BY <1>2, <2>2, <2>3, <2>4, <2>6
    <2>9. ASSUME NEW k \in 1..(u + d)
          PROVE  queues'[id][k] = Token(output'[id][m + k])
      <3>1. CASE k <= u
        <4>1. queues'[id][k] = queues[id][k]
          BY <1>2, <2>2, <2>3, <2>4, <2>6, <3>1
        <4>2. queues[id][k] = Token(output[id][m + k]) /\ m + k \in 1..n
          BY <1>2, <2>9, <3>1 DEF Delivery, u, m
        <4>3. QED
          BY <2>5, <4>1, <4>2
      <3>2. CASE k > u
        <4>1. d = 1 /\ k = u + 1
          BY <1>2, <2>6, <3>2
        <4>2. queues'[id][k] = new[1]
          BY <1>2, <2>2, <2>3, <2>4, <4>1
        <4>3. m + k = n + 1
          BY <1>2, <4>1
        <4>4. QED
          BY <2>2, <2>5, <4>1, <4>2, <4>3
      <3>3. QED
        BY <1>2, <3>1, <3>2
    <2>10. id \in finished' => queues'[id][u + d + 1] = DoneMessage
      BY <1>2, <2>2, <2>3, <2>4, <2>6
    <2>11. QED
      BY <1>3, <2>3, <2>7, <2>8, <2>9, <2>10 DEF Delivery, m
  <1>7. QED
    BY <1>5, <1>6

LEMMA RunStepInv ==
  ASSUME IInv, NEW S \in SUBSET Live, NEW tokens \in [S -> Tokens], RunStep(tokens)
  PROVE  IInv'
  <1>1. /\ UNCHANGED <<received, client, task>> /\ task = "run" /\ DOMAIN queues' = DOMAIN queues
        /\ DOMAIN emitted' = DOMAIN emitted \ finished'
        /\ \A id \in DOMAIN emitted' : emitted'[id] = Len(output'[id])
    BY DEF RunStep, FanOut, Counted
  <1>2. \A id \in Seqs :
          /\ id \notin S => output'[id] = output[id] /\ (id \in finished' <=> id \in finished)
          /\ id \in S => /\ tokens[id] \in Tokens /\ id \notin finished /\ client[id] # "none"
                         /\ request[id] # NoRequest
                         /\ output'[id] = Append(output[id], tokens[id])
          /\ id \in finished => id \in finished'
    BY StepOne
  <1>3. request' = request /\ DOMAIN output' = Seqs /\ finished' \subseteq Seqs
    BY DEF RunStep, EngineStep, IInv, Shape, Live
  <1>4. Shape'
    <2>1. output' \in [Seqs -> Seq(Tokens)]
      <3>1. \A id \in Seqs : output'[id] \in Seq(Tokens)
        <4>1. ASSUME NEW id \in Seqs PROVE output'[id] \in Seq(Tokens)
          <5>1. output[id] \in Seq(Tokens)
            BY DEF IInv, Shape
          <5>2. CASE id \in S
            BY <1>2, <5>1, <5>2
          <5>3. CASE id \notin S
            BY <1>2, <5>1, <5>3
          <5>4. QED
            BY <5>2, <5>3
        <4>2. QED
          BY <4>1
      <3>2. output' = [id \in Seqs |-> output'[id]]
        BY DEF RunStep, EngineStep
      <3>3. QED
        BY <3>1, <3>2
    <2>2. queues' \in [DOMAIN queues' -> Seq(Message)]
      <3>1. \A id \in DOMAIN queues : queues'[id] \in Seq(Message)
        BY DeliveryOne
      <3>2. queues' = [id \in DOMAIN queues' |-> queues'[id]]
        BY DEF RunStep, FanOut
      <3>3. QED
        BY <1>1, <3>1, <3>2
    <2>3. QED
      BY <1>1, <1>3, <2>1, <2>2 DEF IInv, Shape
  <1>5. Fallow'
    BY <1>1, <1>2, <1>3 DEF IInv, Fallow, Clients
  <1>6. Counts'
    BY <1>1, <1>2 DEF IInv, Counts, Shape
  <1>7. Histories'
    <2>1. ASSUME NEW id \in Seqs PROVE (Prefix(id) /\ Served(id) /\ Asked(id))'
      <3>1. Prefix(id) /\ Served(id) /\ Asked(id) /\ output[id] \in Seq(Tokens) /\ received[id] \in Seq(Tokens)
        BY DEF IInv, Histories, Shape
      <3>2. CASE id \in S
        <4>1. Len(output'[id]) = Len(output[id]) + 1 /\ output'[id] # <<>>
              /\ \A k \in 1..Len(output[id]) : output'[id][k] = output[id][k]
          BY <1>2, <3>1, <3>2
        <4>2. Len(received[id]) \in Nat /\ Len(output[id]) \in Nat
          BY <3>1
        <4>3. Prefix(id)'
          BY <1>1, <3>1, <4>1, <4>2 DEF Prefix
        <4>4. Served(id)'
          BY <3>2, ServedOne
        <4>5. Asked(id)'
          BY <1>2, <1>3, <3>2, <4>1 DEF Asked
        <4>6. QED
          BY <4>3, <4>4, <4>5
      <3>3. CASE id \notin S
        BY <1>1, <1>2, <1>3, <3>1, <3>3 DEF Prefix, Served, Asked, Before
      <3>4. QED
        BY <3>2, <3>3
    <2>2. QED
      BY <2>1 DEF Histories
  <1>8. Deliveries'
    BY <1>1, DeliveryOne DEF Deliveries
  <1>9. QueuesPresent'
    BY <1>1 DEF IInv, QueuesPresent, Clients
  <1>10. DoneIsComplete'
    BY <1>1, <1>2 DEF IInv, DoneIsComplete, Clients
  <1>11. NoLostWakeup'
    BY <1>1 DEF NoLostWakeup
  <1>12. QED
    BY <1>4, <1>5, <1>6, <1>7, <1>8, <1>9, <1>10, <1>11 DEF IInv

LEMMA NextInv ==
  ASSUME IInv, [Next]_vars
  PROVE  IInv'
  <1>1. ASSUME NEW id \in Seqs, NEW r \in RequestKinds, NEW stream \in BOOLEAN, Submit(id, r, stream)
        PROVE  IInv'
    BY <1>1, SubmitInv
  <1>2. ASSUME NEW id \in Seqs, ClientNext(id) PROVE IInv'
    BY <1>2, BeginStreamInv, ReceiveInv, ReceiveDoneInv DEF ClientNext
  <1>3. ASSUME NEW id \in Seqs, Disconnect(id) \/ Collect(id) PROVE IInv'
    BY <1>3, DisconnectInv, CollectInv
  <1>4. ASSUME NEW S \in SUBSET Live, Steps(S) PROVE IInv'
    BY <1>4, RunStepInv DEF Steps
  <1>5. ASSUME AwaitWork \/ Wake \/ RunThrows \/ Stop \/ Idle \/ UNCHANGED vars PROVE IInv'
    BY <1>5, TaskInv
  <1>6. QED
    BY <1>1, <1>2, <1>3, <1>4, <1>5 DEF Next

LEMMA Invariant == Spec => []IInv
  BY InitInv, NextInv, PTL DEF Spec

\* No fan-out and no reader looks up a queue that is gone.
THEOREM QueuesArePresent == Spec => []QueuesPresent
  <1>1. IInv => QueuesPresent
    BY DEF IInv
  <1>2. QED
    BY <1>1, Invariant, PTL

\* The task is not asleep while requests are live, whatever falls between its
\* test and its wait.
THEOREM NoWakeupIsLost == Spec => []NoLostWakeup
  <1>1. IInv => NoLostWakeup
    BY DEF IInv
  <1>2. QED
    BY <1>1, Invariant, PTL

\* A client told that its answer is over has read all of it.
THEOREM DoneMeansComplete == Spec => []DoneIsComplete
  <1>1. IInv => DoneIsComplete
    BY DEF IInv
  <1>2. QED
    BY <1>1, Invariant, PTL

-----------------------------------------------------------------------------

\* Reading a token is the engine's promise kept for one more token.
LEMMA ReceiveEmits ==
  ASSUME IInv, NEW id \in Seqs, Receive(id)
  PROVE  Read!Emit(id)
  <1> DEFINE n == Len(received[id])
             t == output[id][n + 1]
             mapped == {q \in finished : received[q] = output[q]}
  <1>1. n < Len(output[id]) /\ Head(queues[id]) = Token(t)
    BY HeadOfQueue DEF Receive
  <1>2. /\ output[id] \in Seq(Tokens) /\ received[id] \in Seq(Tokens) /\ n \in Nat
        /\ Len(output[id]) \in Nat /\ Prefix(id) /\ Served(id) /\ Asked(id)
    BY DEF IInv, Shape, Histories
  <1>3. /\ received' = [received EXCEPT ![id] = Append(@, t)]
        /\ UNCHANGED <<request, output, finished>>
    <2>1. Head(queues[id])[2] = t
      BY <1>1 DEF Token
    <2>2. QED
      BY <2>1 DEF Receive, engineVars
  <1>4. t \in Sample(request[id].prompt \o received[id])
    <2>1. n + 1 \in 1..Len(output[id]) /\ n + 1 - 1 = n
      BY <1>1, <1>2
    <2>2. Before(output[id], n + 1) = received[id]
      <3>1. received[id] = [j \in 1..n |-> received[id][j]]
        BY <1>2
      <3>2. \A j \in 1..n : received[id][j] = output[id][j]
        BY <1>2 DEF Prefix
      <3>3. QED
        BY <2>1, <3>1, <3>2 DEF Before
    <2>3. QED
      BY <1>2, <2>1, <2>2 DEF Served
  <1>5. id \notin mapped /\ request[id] # NoRequest
    BY <1>1, <1>2 DEF Asked
  <1>6. mapped' = IF t = request[id].eos \/ n + 1 >= request[id].max_tokens
                  THEN mapped \cup {id} ELSE mapped
    <2>1. \A q \in Seqs \ {id} : received'[q] = received[q]
      BY <1>3
    <2>2. received'[id] = Append(received[id], t)
      BY <1>3 DEF IInv, Shape
    <2>3. received'[id] = output[id] <=> n + 1 = Len(output[id])
      <3>1. t \in Tokens
        BY <1>1, <1>2
      <3>2. /\ received'[id] \in Seq(Tokens) /\ Len(received'[id]) = n + 1
            /\ received'[id][n + 1] = t
            /\ \A k \in 1..n : received'[id][k] = received[id][k]
        BY <1>2, <2>2, <3>1
      <3>3. \A k \in 1..(n + 1) : received'[id][k] = output[id][k]
        BY <1>2, <3>2 DEF Prefix
      <3>4. ASSUME n + 1 = Len(output[id]) PROVE received'[id] = output[id]
        BY <1>2, <3>2, <3>3, <3>4, SeqEqual
      <3>5. QED
        BY <3>2, <3>4
    <2>4. (t = request[id].eos \/ n + 1 >= request[id].max_tokens)
             <=> n + 1 = Len(output[id]) /\ id \in finished
      <3>1. n + 1 \in 1..Len(output[id])
        BY <1>1, <1>2
      <3>2. QED
        BY <1>2, <3>1 DEF Served
    <2>5. finished \subseteq Seqs
      BY DEF IInv, Shape
    <2>6. QED
      BY <1>3, <1>5, <2>1, <2>3, <2>4, <2>5
  <1>7. QED
    BY <1>3, <1>4, <1>5, <1>6 DEF Read!Emit

\* A step of the engine shows to no client before it is read: a request it ends
\* has its last token unread.
LEMMA RunStepHides ==
  ASSUME IInv, NEW S \in SUBSET Live, NEW tokens \in [S -> Tokens], RunStep(tokens)
  PROVE  UNCHANGED Read!vars
  <1>1. received' = received /\ request' = request /\ finished' \subseteq finished \cup S
        /\ finished \subseteq finished'
    BY DEF RunStep, EngineStep
  <1>2. ASSUME NEW id \in S PROVE id \notin finished /\ received[id] # output'[id]
    <2>1. id \in Seqs /\ id \notin finished
      BY DEF Live
    <2>2. output'[id] = Append(output[id], tokens[id]) /\ tokens[id] \in Tokens
      BY <2>1, StepOne
    <2>3. output[id] \in Seq(Tokens) /\ received[id] \in Seq(Tokens) /\ Prefix(id)
      BY <2>1 DEF IInv, Shape, Histories
    <2>4. Len(output'[id]) = Len(output[id]) + 1 /\ Len(output[id]) \in Nat /\ Len(received[id]) \in Nat
      BY <2>2, <2>3
    <2>5. Len(received[id]) < Len(output'[id])
      BY <2>3, <2>4 DEF Prefix
    <2>6. QED
      BY <2>1, <2>3, <2>5
  <1>3. ASSUME NEW id \in finished, id \notin S PROVE output'[id] = output[id]
    BY <1>3, StepOne DEF IInv, Shape
  <1>4. {id \in finished' : received'[id] = output'[id]} = {id \in finished : received[id] = output[id]}
    BY <1>1, <1>2, <1>3
  <1>5. QED
    BY <1>1, <1>4 DEF Read!vars

LEMMA StepRefines ==
  ASSUME IInv, [Next]_vars
  PROVE  [Read!Next]_(Read!vars)
  <1>1. ASSUME NEW id \in Seqs, NEW r \in RequestKinds, NEW stream \in BOOLEAN, Submit(id, r, stream)
        PROVE  Read!Next
    <2>1. request[id] = NoRequest
      BY <1>1 DEF Submit, IInv, Fallow, Clients
    <2>2. Read!Submit(id, r)
      BY <1>1, <2>1 DEF Submit, Read!Submit
    <2>3. QED
      BY <2>2 DEF Read!Next
  <1>2. ASSUME NEW id \in Seqs, Receive(id) PROVE Read!Next
    BY <1>2, ReceiveEmits DEF Read!Next
  <1>3. ASSUME NEW S \in SUBSET Live, Steps(S) PROVE UNCHANGED Read!vars
    BY <1>3, RunStepHides DEF Steps
  <1>4. ASSUME UNCHANGED <<engineVars, received>> PROVE UNCHANGED Read!vars
    BY <1>4 DEF engineVars, Read!vars
  <1>5. ASSUME NEW id \in Seqs, BeginStream(id) \/ ReceiveDone(id) \/ Disconnect(id) \/ Collect(id)
        PROVE  UNCHANGED <<engineVars, received>>
    BY <1>5 DEF BeginStream, ReceiveDone, Disconnect, Collect
  <1>6. ASSUME AwaitWork \/ Wake \/ RunThrows \/ Stop \/ Idle \/ UNCHANGED vars
        PROVE  UNCHANGED <<engineVars, received>>
    BY <1>6 DEF AwaitWork, Wake, RunThrows, Stop, Idle, vars
  <1>7. QED
    BY <1>1, <1>2, <1>3, <1>4, <1>5, <1>6 DEF Next, ClientNext

\* What the clients read is what the engine promises each of them, whatever the
\* others do.
THEOREM ClientsReadServing == Spec => ImplementsServing
  <1>1. Init => Read!Init
    BY DEF Init, Read!Init
  <1>2. QED
    BY <1>1, Invariant, StepRefines, PTL DEF Spec, Read!Spec, ImplementsServing

=============================================================================
