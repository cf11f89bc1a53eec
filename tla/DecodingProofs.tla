--------------------------- MODULE DecodingProofs ----------------------------
(***************************************************************************)
(* The two decoders of a single prompt are greedy decoding: speculative_   *)
(* greedy() for every target, draft, prompt, budget and lookahead, and     *)
(* CudaModel::generate() for every model, prompt, budget and end-of-       *)
(* sequence token.                                                         *)
(*                                                                         *)
(* speculative_greedy(): while a round is judged, the context has been     *)
(* extended only by tokens that agree with the proposals, so it is still a *)
(* prefix of what the one target forward was run on, and the row that is   *)
(* read is the target's choice after exactly this context (RowOfNext).     *)
(*                                                                         *)
(* generate(): between two forwards the cache and what is fed next are     *)
(* together the whole context, so the logits that are read are those of    *)
(* the context (Extends); and the context of the last forward is one short *)
(* of what the cache was made for.                                         *)
(***************************************************************************)
EXTENDS MCDecoding, SequenceTheorems, TLAPS

-----------------------------------------------------------------------------
(* speculative_greedy() *)

IInv == /\ TypeOK
        /\ lookahead \in {Clamp(k) : k \in Lookaheads}
        /\ ids = prompt \o out
        /\ RowOfNext

-----------------------------------------------------------------------------
(* Lemmas *)

\* A prompt is a sequence of tokens, and not empty.
LEMMA PromptIsSeq ==
  ASSUME NEW p \in Prompts
  PROVE  p \in Seq(Tokens) /\ Len(p) > 0
  <1>1. p \in Contexts /\ p # <<>>
    BY PromptsAssumption
  <1>2. PICK n \in 0..MaxLen : p \in [1..n -> Tokens]
    BY <1>1 DEF Contexts
  <1>3. n \in Nat
    BY MaxLenAssumption
  <1>4. p \in Seq(Tokens)
    BY <1>2, <1>3
  <1>5. QED
    BY <1>1, <1>4, EmptySeq

\* The target answers with a token whenever it is asked about a context that
\* is not too long.
LEMMA GreedyIsToken ==
  ASSUME NEW c \in Seq(Tokens), Len(c) \in 1..MaxLen
  PROVE  Greedy(c) \in Tokens
  <1>1. c \in [1..Len(c) -> Tokens] /\ Len(c) \in 0..MaxLen
    BY LenProperties
  <1>2. c \in Contexts
    BY <1>1 DEF Contexts
  <1>3. c # <<>>
    BY EmptySeq
  <1>4. QED
    BY <1>2, <1>3, GreedyAssumption

\* A clamped lookahead is positive.
LEMMA ClampIsPositive ==
  ASSUME NEW k \in Lookaheads
  PROVE  Clamp(k) \in Nat \ {0}
  BY ArgumentsAssumption DEF Clamp

\* Context and proposals of a round fit the target.
LEMMA RoundFits ==
  ASSUME IInv, Unfilled, Len(proposed) = lookahead
  PROVE  /\ ids \in Seq(Tokens) /\ Len(ids) \in Nat \ {0}
         /\ ids \o proposed \in Seq(Tokens)
         /\ Len(ids \o proposed) = Len(ids) + lookahead
         /\ Len(ids) + lookahead <= MaxLen
         /\ \A n \in 1..Len(ids) : (ids \o proposed)[n] = ids[n]
         /\ \A n \in 1..lookahead : (ids \o proposed)[Len(ids) + n] = proposed[n]
  <1>1. /\ ids \in Seq(Tokens) /\ proposed \in Seq(Tokens) /\ out \in Seq(Tokens)
        /\ lookahead \in Nat \ {0}
        /\ prompt \in Seq(Tokens) /\ Len(prompt) > 0
    BY PromptIsSeq DEF IInv, TypeOK
  <1>2. Len(ids) = Len(prompt) + Len(out)
    BY <1>1, ConcatProperties DEF IInv
  <1>3. Len(prompt) + max_tokens + lookahead <= MaxLen /\ max_tokens \in Int
    BY ArgumentsAssumption DEF IInv, TypeOK
  <1>4. Len(out) < max_tokens
    BY DEF Unfilled
  <1>5. Len(prompt) \in Nat /\ Len(out) \in Nat /\ Len(ids) \in Nat
    BY <1>1, LenProperties
  <1>6. Len(ids) + lookahead <= MaxLen /\ Len(ids) > 0
    BY <1>1, <1>2, <1>3, <1>4, <1>5, MaxLenAssumption
  <1>7. /\ ids \o proposed \in Seq(Tokens)
        /\ Len(ids \o proposed) = Len(ids) + lookahead
        /\ \A i \in 1..(Len(ids) + lookahead) :
              (ids \o proposed)[i] = IF i <= Len(ids) THEN ids[i] ELSE proposed[i - Len(ids)]
    BY <1>1, ConcatProperties
  <1>8. QED
    BY <1>1, <1>5, <1>6, <1>7

\* The token of row base + j is the target's choice after the context: it is
\* what greedy decoding emits next.
LEMMA RowIsGreedy ==
  ASSUME IInv, pc = "accept"
  PROVE  /\ choice[base + j] = Greedy(prompt \o out)
         /\ choice[base + j] \in Tokens
  <1> USE DEF IInv, TypeOK, RowOfNext
  <1>1. /\ base \in Nat \ {0} /\ j \in 0..lookahead /\ lookahead \in Nat
        /\ base + j \in 1..(base + lookahead)
    OBVIOUS
  <1>2. \A i \in 1..(base + j) : full[i] \in Tokens
    BY <1>1, LenProperties
  <1>3. /\ SubSeq(full, 1, base + j) \in Seq(Tokens)
        /\ Len(SubSeq(full, 1, base + j)) = base + j
        /\ \A i \in 1..(base + j) : SubSeq(full, 1, base + j)[i] = full[i]
    BY <1>1, <1>2, SubSeqProperties
  <1>4. SubSeq(full, 1, base + j) = ids
    BY <1>1, <1>3, SeqEqual
  <1>5. choice[base + j] = Greedy(SubSeq(full, 1, base + j))
    BY <1>1
  <1>6. choice[base + j] \in Tokens
    BY <1>1, ElementOfSeq
  <1>7. QED
    BY <1>4, <1>5, <1>6

\* Emitting a token keeps the context equal to prompt and output.
LEMMA EmitExtends ==
  ASSUME IInv, NEW token \in Tokens, Emit(token)
  PROVE  /\ out' \in Seq(Tokens) /\ ids' \in Seq(Tokens)
         /\ Len(ids') = Len(ids) + 1
         /\ \A n \in 1..Len(ids) : ids'[n] = ids[n]
         /\ ids'[Len(ids) + 1] = token
         /\ ids' = prompt \o out'
  <1>1. ids \in Seq(Tokens) /\ out \in Seq(Tokens) /\ prompt \in Seq(Tokens)
    BY PromptIsSeq DEF IInv, TypeOK
  <1>2. ids' = Append(ids, token) /\ out' = Append(out, token)
    BY DEF Emit
  <1>3. ids' = Append(prompt \o out, token)
    BY <1>2 DEF IInv
  <1>4. Append(prompt \o out, token) = prompt \o Append(out, token)
    BY <1>1
  <1>5. /\ Append(ids, token) \in Seq(Tokens)
        /\ Len(Append(ids, token)) = Len(ids) + 1
        /\ \A n \in 1..Len(ids) : Append(ids, token)[n] = ids[n]
        /\ Append(ids, token)[Len(ids) + 1] = token
    BY <1>1, AppendProperties
  <1>6. out' \in Seq(Tokens)
    BY <1>1, <1>2, AppendProperties
  <1>7. ids' = prompt \o out'
    BY <1>2, <1>3, <1>4
  <1>8. QED
    BY <1>2, <1>5, <1>6, <1>7

-----------------------------------------------------------------------------
(* The invariant *)

LEMMA InitInv == Init => IInv
  <1> SUFFICES ASSUME Init PROVE IInv
    OBVIOUS
  <1>1. prompt \in Seq(Tokens)
    BY PromptIsSeq DEF Init
  <1>2. ids = prompt \o out
    BY <1>1, ConcatEmptySeq DEF Init
  <1>3. lookahead \in Nat \ {0}
    BY ClampIsPositive DEF Init
  <1>4. QED
    BY <1>1, <1>2, <1>3 DEF Init, IInv, TypeOK, RowOfNext

LEMMA ProposeInv == ASSUME IInv, NEW t \in Tokens, Propose(t) PROVE IInv'
  BY DEF IInv, TypeOK, RowOfNext, Propose, args

\* The forward is run on the context and the proposals, so every row is the
\* target's choice after a prefix of the two.
LEMMA VerifyInv == ASSUME IInv, Verify PROVE IInv'
  <1> DEFINE f == ids \o proposed
             c == [n \in 1..Len(f) |-> Greedy(SubSeq(f, 1, n))]
  <1>1. /\ pc = "draft" /\ Unfilled /\ Len(proposed) = lookahead
        /\ full' = f /\ choice' = c /\ base' = Len(ids) /\ j' = 0 /\ pc' = "accept"
        /\ UNCHANGED <<args, out, ids, proposed>>
    BY DEF Verify
  <1>2. /\ ids \in Seq(Tokens) /\ Len(ids) \in Nat \ {0}
        /\ f \in Seq(Tokens)
        /\ Len(f) = Len(ids) + lookahead
        /\ Len(ids) + lookahead <= MaxLen
        /\ \A n \in 1..Len(ids) : f[n] = ids[n]
        /\ \A n \in 1..lookahead : f[Len(ids) + n] = proposed[n]
    BY <1>1, RoundFits
  <1>3. lookahead \in Nat \ {0} /\ MaxLen \in Nat
    BY MaxLenAssumption DEF IInv, TypeOK
  <1> HIDE DEF f
  <1>4. ASSUME NEW n \in 1..Len(f) PROVE Greedy(SubSeq(f, 1, n)) \in Tokens
    <2>1. n \in Int /\ \A i \in 1..n : f[i] \in Tokens
      BY <1>2, <1>3, LenProperties
    <2>2. SubSeq(f, 1, n) \in Seq(Tokens) /\ Len(SubSeq(f, 1, n)) = n
      BY <2>1, SubSeqProperties
    <2>3. n \in 1..MaxLen
      BY <1>2, <1>3
    <2>4. QED
      BY <2>2, <2>3, GreedyIsToken
  <1>5. c \in Seq(Tokens) /\ Len(c) = Len(f)
    BY <1>2, <1>3, <1>4
  <1>6. \A n \in 1..Len(f) : c[n] = Greedy(SubSeq(f, 1, n))
    OBVIOUS
  <1> HIDE DEF c
  <1>7. TypeOK' /\ (lookahead \in {Clamp(k) : k \in Lookaheads})' /\ ids' = prompt' \o out'
    BY <1>1, <1>2, <1>3, <1>5 DEF IInv, TypeOK, args
  <1>8. RowOfNext'
    BY <1>1, <1>2, <1>3, <1>5, <1>6 DEF IInv, RowOfNext, args
  <1>9. QED
    BY <1>7, <1>8 DEF IInv

\* An accepted choice is the proposal itself, so the context stays a prefix of
\* what the forward was run on.
LEMMA AcceptInv == ASSUME IInv, Accept PROVE IInv'
  <1> DEFINE t == choice[base + j]
  <1>1. /\ pc = "accept" /\ j < lookahead /\ Emit(t)
        /\ UNCHANGED <<args, full, choice, base>>
    BY DEF Accept
  <1>2. t \in Tokens
    BY <1>1, RowIsGreedy
  <1>3. /\ out' \in Seq(Tokens) /\ ids' \in Seq(Tokens)
        /\ Len(ids') = Len(ids) + 1
        /\ \A n \in 1..Len(ids) : ids'[n] = ids[n]
        /\ ids'[Len(ids) + 1] = t
        /\ ids' = prompt \o out'
    BY <1>1, <1>2, EmitExtends
  <1>4. /\ base \in Nat \ {0} /\ j \in Nat /\ lookahead \in Nat /\ Len(ids) = base + j
        /\ Len(proposed) = lookahead
    BY <1>1 DEF IInv, TypeOK, RowOfNext
  <1>5. CASE Agrees
    <2>1. j' = j + 1 /\ UNCHANGED <<proposed, pc>>
      BY <1>5 DEF Accept
    <2>2. TypeOK'
      BY <1>1, <1>3, <1>4, <2>1 DEF IInv, TypeOK, args
    <2>3. \A n \in 1..(base + j) : full[n] = ids'[n]
      BY <1>1, <1>3, <1>4 DEF IInv, RowOfNext
    <2>4. full[base + (j + 1)] = proposed[j + 1]
      BY <1>1, <1>4 DEF IInv, RowOfNext
    <2>5. full[base + (j + 1)] = ids'[base + (j + 1)]
      BY <1>3, <1>4, <1>5, <2>4 DEF Agrees
    <2>6. \A n \in 1..(base + (j + 1)) : full[n] = ids'[n]
      BY <1>4, <2>3, <2>5
    <2>7. RowOfNext'
      BY <1>1, <1>3, <1>4, <2>1, <2>6 DEF IInv, RowOfNext, args
    <2>8. QED
      BY <1>1, <1>3, <2>2, <2>7 DEF IInv, args
  <1>6. CASE ~ Agrees
    <2>1. j' = 0 /\ proposed' = <<>> /\ pc' = "draft"
      BY <1>6 DEF Accept
    <2>2. TypeOK'
      BY <1>1, <1>3, <1>4, <2>1 DEF IInv, TypeOK, args
    <2>3. QED
      BY <1>1, <1>3, <2>1, <2>2 DEF IInv, RowOfNext, args
  <1>7. QED
    BY <1>5, <1>6

LEMMA BonusInv == ASSUME IInv, Bonus PROVE IInv'
  <1> DEFINE t == choice[base + lookahead]
  <1>1. /\ pc = "accept" /\ j = lookahead /\ Emit(t)
        /\ j' = 0 /\ proposed' = <<>> /\ pc' = "draft"
        /\ UNCHANGED <<args, full, choice, base>>
    BY DEF Bonus
  <1>2. t \in Tokens
    BY <1>1, RowIsGreedy
  <1>3. out' \in Seq(Tokens) /\ ids' \in Seq(Tokens) /\ ids' = prompt \o out'
    BY <1>1, <1>2, EmitExtends
  <1>4. TypeOK'
    BY <1>1, <1>3 DEF IInv, TypeOK, args
  <1>5. QED
    BY <1>1, <1>3, <1>4 DEF IInv, RowOfNext, args

LEMMA ReturnInv == ASSUME IInv, Return PROVE IInv'
  BY DEF IInv, TypeOK, RowOfNext, Return, args

LEMMA StepInv == IInv /\ [Next]_vars => IInv'
  <1> SUFFICES ASSUME IInv, [Next]_vars PROVE IInv'
    OBVIOUS
  <1>1. ASSUME NEW t \in Tokens, Propose(t) PROVE IInv'
    BY <1>1, ProposeInv
  <1>2. CASE Verify
    BY <1>2, VerifyInv
  <1>3. CASE Accept
    BY <1>3, AcceptInv
  <1>4. CASE Bonus
    BY <1>4, BonusInv
  <1>5. CASE Return
    BY <1>5, ReturnInv
  <1>6. CASE UNCHANGED vars
    BY <1>6 DEF vars, IInv, TypeOK, RowOfNext
  <1>7. QED
    BY <1>1, <1>2, <1>3, <1>4, <1>5, <1>6 DEF Next, Finished

\* A step of a round emits the token greedy decoding emits next, or none.
LEMMA RoundStepIsGreedy ==
  ASSUME IInv, [Next]_vars
  PROVE  [Plain!Emit]_(Plain!vars)
  <1>1. ASSUME NEW t \in Tokens, Propose(t) PROVE UNCHANGED Plain!vars
    BY <1>1 DEF Propose, args, Plain!vars
  <1>2. CASE Verify
    BY <1>2 DEF Verify, args, Plain!vars
  <1>3. CASE Accept
    <2>1. /\ pc = "accept" /\ Unfilled /\ out' = Append(out, choice[base + j])
          /\ prompt' = prompt /\ max_tokens' = max_tokens
      BY <1>3 DEF Accept, Emit, args
    <2>2. QED
      BY <2>1, RowIsGreedy DEF Plain!Emit, Unfilled
  <1>4. CASE Bonus
    <2>1. /\ pc = "accept" /\ Unfilled /\ out' = Append(out, choice[base + j])
          /\ prompt' = prompt /\ max_tokens' = max_tokens
      BY <1>4 DEF Bonus, Emit, args
    <2>2. QED
      BY <2>1, RowIsGreedy DEF Plain!Emit, Unfilled
  <1>5. CASE Return
    BY <1>5 DEF Return, args, Plain!vars
  <1>6. CASE UNCHANGED vars
    BY <1>6 DEF vars, Plain!vars
  <1>7. QED
    BY <1>1, <1>2, <1>3, <1>4, <1>5, <1>6 DEF Next, Finished

-----------------------------------------------------------------------------
(* Theorems *)

\* The types hold, and whatever the draft proposed, the row read for the next
\* token is the target's choice after the context (speculative.cpp:58-71).
THEOREM RowIsRight == Spec => [](TypeOK /\ RowOfNext)
  <1>1. IInv => TypeOK /\ RowOfNext
    BY DEF IInv
  <1>2. QED
    BY InitInv, StepInv, <1>1, PTL DEF Spec

\* Speculative decoding implements plain greedy decoding: every step emits
\* nothing, or the token greedy decoding emits next, within the budget.
THEOREM SpeculativeIsGreedy == Spec => ImplementsGreedy
  <1>1. Init => Plain!Init
    BY DEF Init, Plain!Init
  <1>2. IInv /\ [Next]_vars => [Plain!Emit]_(Plain!vars)
    BY RoundStepIsGreedy
  <1>3. QED
    BY <1>1, <1>2, InitInv, StepInv, PTL DEF Spec, ImplementsGreedy, Plain!Spec

-----------------------------------------------------------------------------
(* CudaModel::generate() *)

\* Token ids are integers, and a model answers every context with one.  The arguments
\* of generate() are not bounded as those of the other decoder are.
GenerateArguments == /\ Prompts \subseteq Seq(Int) /\ Budgets \subseteq Int
                       /\ \A c \in Seq(Int) \ {<<>>} : Greedy(c) \in Int

Shape == /\ prompt \in Seq(Int) /\ max_tokens \in Int
         /\ out \in Seq(Int) /\ rows \in Seq(Int)
         /\ generate_pc \in {"start", "forward", "done"}

Extends == /\ generate_pc = "start" => out = <<>> /\ rows = <<>>
           /\ generate_pc = "forward" => /\ prompt # <<>>
                                /\ rows \o Generate!Fed = prompt \o out

Room == generate_pc = "forward" => /\ Len(out) < max_tokens
                          /\ capacity = Len(prompt) + max_tokens

GenerateInv == Shape /\ Extends /\ Room

\* What the code never meets: append() throwing on a full cache.
CacheHolds == generate_pc = "forward" => Len(rows) + Len(Generate!Fed) <= capacity

-----------------------------------------------------------------------------

LEMMA GenerateInitInv ==
  ASSUME GenerateArguments, Generate!Init
  PROVE  GenerateInv
  BY DEF GenerateArguments, Generate!Init, GenerateInv, Shape, Extends, Room

\* The first step sets up what the first forward needs.
LEMMA GenerateStartInv ==
  ASSUME GenerateInv, Generate!Start
  PROVE  GenerateInv'
  <1>1. UNCHANGED <<prompt, max_tokens, out, rows>> /\ out = <<>> /\ rows = <<>>
    BY DEF Generate!Start, Generate!args, GenerateInv, Extends
  <1>2. generate_pc' = "forward" => prompt # <<>> /\ max_tokens > 0 /\ capacity' = Len(prompt) + max_tokens
    BY DEF Generate!Start
  <1>3. generate_pc' \in {"forward", "done"}
    BY DEF Generate!Start
  <1>4. rows \o prompt = prompt \o out
    BY <1>1 DEF GenerateInv, Shape
  <1>5. Generate!Fed' = prompt
    BY <1>1 DEF Generate!Fed
  <1>6. QED
    BY <1>1, <1>2, <1>3, <1>4, <1>5 DEF GenerateInv, Shape, Extends, Room

\* A forward sees the context, and extends it by its answer.
LEMMA ForwardSees ==
  ASSUME GenerateArguments, GenerateInv, Generate!Forward
  PROVE  /\ rows' = prompt \o out /\ rows' \in Seq(Int)
         /\ out' = Append(out, Greedy(prompt \o out))
         /\ Greedy(prompt \o out) \in Int
         /\ Len(out) < max_tokens
  <1>1. rows \o Generate!Fed = prompt \o out
    BY DEF Generate!Forward, GenerateInv, Extends
  <1>2. prompt \o out \in Seq(Int) \ {<<>>}
    <2>1. prompt \in Seq(Int) /\ prompt # <<>> /\ out \in Seq(Int)
      BY DEF Generate!Forward, GenerateInv, Shape, Extends
    <2>2. PICK m, n : m = Len(prompt) /\ n = Len(out)
      OBVIOUS
    <2>3. m \in Nat \ {0} /\ n \in Nat
      BY <2>1, <2>2, LenProperties, EmptySeq
    <2>4. prompt \o out \in Seq(Int) /\ Len(prompt \o out) = m + n
      BY <2>1, <2>2, ConcatProperties
    <2>5. Len(prompt \o out) # 0
      BY <2>3, <2>4
    <2>6. QED
      BY <2>4, <2>5, EmptySeq
  <1>3. QED
    BY <1>1, <1>2 DEF Generate!Forward, GenerateArguments, GenerateInv, Room

LEMMA GenerateForwardInv ==
  ASSUME GenerateArguments, GenerateInv, Generate!Forward
  PROVE  GenerateInv'
  <1> DEFINE token == Greedy(prompt \o out)
  <1>1. /\ rows' = prompt \o out /\ rows' \in Seq(Int)
        /\ out' = Append(out, token) /\ token \in Int
        /\ UNCHANGED <<prompt, max_tokens, capacity>>
    BY ForwardSees DEF Generate!Forward, Generate!args
  <1>2. prompt \in Seq(Int) /\ out \in Seq(Int) /\ max_tokens \in Int
    BY DEF GenerateInv, Shape
  <1>3. Shape'
    BY <1>1, <1>2 DEF Shape, Generate!Forward
  <1>4. Generate!Fed' = <<token>>
    BY <1>1, <1>2 DEF Generate!Fed
  <1>5. rows' \o Generate!Fed' = prompt \o out'
    <2>1. out' = out \o <<token>>
      BY <1>1, <1>2, AppendIsConcat
    <2>2. (prompt \o out) \o <<token>> = prompt \o (out \o <<token>>)
      <3>1. <<token>> \in Seq(Int)
        BY <1>1
      <3>2. QED
        BY <1>2, <3>1, ConcatAssociative
    <2>3. QED
      BY <1>1, <1>4, <2>1, <2>2
  <1>6. Extends'
    BY <1>1, <1>5 DEF Extends, Generate!Forward, GenerateInv
  <1>7. rows \o Generate!Fed = prompt \o out /\ generate_pc = "forward"
    BY DEF Generate!Forward, GenerateInv, Extends
  <1>8. Len(out') = Len(out) + 1
    BY <1>1, <1>2
  <1>9. Room'
    BY <1>1, <1>2, <1>7, <1>8 DEF Room, Generate!Forward, GenerateInv, Generate!Stops
  <1>10. QED
    BY <1>3, <1>6, <1>9 DEF GenerateInv

LEMMA GenerateNextInv ==
  ASSUME GenerateArguments, GenerateInv, [Generate!Next]_(Generate!vars)
  PROVE  GenerateInv'
  <1>1. CASE UNCHANGED Generate!vars
    BY <1>1 DEF Generate!vars, GenerateInv, Shape, Extends, Room, Generate!Fed
  <1>2. CASE Generate!Next
    BY <1>1, <1>2, GenerateStartInv, GenerateForwardInv DEF Generate!Next, Generate!Returned
  <1>3. QED
    BY <1>1, <1>2

LEMMA InvCacheHolds ==
  ASSUME GenerateInv
  PROVE  CacheHolds
  <1>1. SUFFICES ASSUME generate_pc = "forward" PROVE Len(rows) + Len(Generate!Fed) <= capacity
    BY DEF CacheHolds
  <1>2. Generate!Fed \in Seq(Int)
    BY DEF GenerateInv, Shape, Generate!Fed
  <1>3. Len(rows) + Len(Generate!Fed) = Len(rows \o Generate!Fed)
    BY <1>2 DEF GenerateInv, Shape
  <1>4. Len(prompt \o out) = Len(prompt) + Len(out)
    BY DEF GenerateInv, Shape
  <1>5. QED
    BY <1>1, <1>3, <1>4 DEF GenerateInv, Shape, Extends, Room

\* A step emits a greedy token or nothing.
LEMMA StepIsGreedy ==
  ASSUME GenerateArguments, GenerateInv, [Generate!Next]_(Generate!vars)
  PROVE  [Generate!Plain!Emit]_(Generate!Plain!vars)
  <1>1. CASE Generate!Forward
    BY <1>1, ForwardSees DEF Generate!Forward, Generate!args, Generate!Plain!Emit
  <1>2. CASE Generate!Start \/ UNCHANGED Generate!vars
    BY <1>2 DEF Generate!Start, Generate!args, Generate!vars, Generate!Plain!vars
  <1>3. QED
    BY <1>1, <1>2 DEF Generate!Next, Generate!Returned

-----------------------------------------------------------------------------

\* The cache, sized once for prompt and max_tokens, has room for every forward of
\* generate(): append() never throws.
THEOREM GenerateCacheHolds == GenerateArguments => (Generate!Spec => []CacheHolds)
  <1>1. SUFFICES ASSUME GenerateArguments PROVE Generate!Spec => []CacheHolds
    OBVIOUS
  <1>2. Generate!Init => GenerateInv
    BY <1>1, GenerateInitInv
  <1>3. GenerateInv /\ [Generate!Next]_(Generate!vars) => GenerateInv'
    BY <1>1, GenerateNextInv
  <1>4. GenerateInv => CacheHolds
    BY InvCacheHolds
  <1>5. QED
    BY <1>2, <1>3, <1>4, PTL DEF Generate!Spec

\* generate() emits plain greedy decoding: every token is the model's choice after the
\* prompt and all tokens before it, and there are no more than max_tokens.
THEOREM GenerateIsGreedy == GenerateArguments => (Generate!Spec => Generate!ImplementsGreedy)
  <1>1. SUFFICES ASSUME GenerateArguments PROVE Generate!Spec => Generate!ImplementsGreedy
    OBVIOUS
  <1>2. Generate!Init => GenerateInv /\ Generate!Plain!Init
    BY <1>1, GenerateInitInv DEF Generate!Init, Generate!Plain!Init
  <1>3. GenerateInv /\ [Generate!Next]_(Generate!vars) => GenerateInv'
    BY <1>1, GenerateNextInv
  <1>4. GenerateInv /\ [Generate!Next]_(Generate!vars) => [Generate!Plain!Emit]_(Generate!Plain!vars)
    BY <1>1, StepIsGreedy
  <1>5. QED
    BY <1>2, <1>3, <1>4, PTL DEF Generate!Spec, Generate!ImplementsGreedy, Generate!Plain!Spec

-----------------------------------------------------------------------------
(* Both, as they are checked *)

DecodersInv ==
    \/ decoder = "speculative" /\ IInv
    \/ decoder = "generate" /\ GenerateInv /\ pc = "unused"

LEMMA DecodersInvInit ==
  ASSUME GenerateArguments, DecodingInit
  PROVE  DecodersInv
  BY InitInv, GenerateInitInv DEF DecodingInit, DecodersInv

LEMMA DecodersInvStep ==
  ASSUME GenerateArguments, DecodersInv, [DecodingNext]_decodingVars
  PROVE  DecodersInv'
  <1>1. CASE decoder = "speculative"
    <2>1. IInv /\ decoder' = decoder /\ [Next]_vars
      BY <1>1 DEF DecodersInv, DecodingNext, decodingVars
    <2>2. QED
      BY <1>1, <2>1, StepInv DEF DecodersInv
  <1>2. CASE decoder = "generate"
    <2>1. GenerateInv /\ pc = "unused" /\ UNCHANGED <<decoder, pc>>
      BY <1>2 DEF DecodersInv, DecodingNext, decodingVars, vars, roundVars
    <2>2. [Generate!Next]_(Generate!vars)
      BY <1>2 DEF DecodingNext, decodingVars, vars, cacheVars, Generate!vars
    <2>3. QED
      BY <1>2, <2>1, <2>2, GenerateNextInv DEF DecodersInv
  <1>3. QED
    BY <1>1, <1>2 DEF DecodersInv

\* A step of either decoder emits what greedy decoding emits next, or nothing.
LEMMA DecoderStepIsGreedy ==
  ASSUME GenerateArguments, DecodersInv, [DecodingNext]_decodingVars
  PROVE  [Plain!Emit]_(Plain!vars)
  <1>1. CASE decoder = "speculative"
    <2>1. IInv /\ [Next]_vars
      BY <1>1 DEF DecodersInv, DecodingNext, decodingVars
    <2>2. QED
      BY <2>1, RoundStepIsGreedy
  <1>2. CASE decoder = "generate"
    <2>1. GenerateInv /\ [Generate!Next]_(Generate!vars)
      BY <1>2 DEF DecodersInv, DecodingNext, decodingVars, vars, cacheVars, Generate!vars
    <2>2. [Generate!Plain!Emit]_(Generate!Plain!vars)
      BY <2>1, StepIsGreedy
    <2>3. QED
      BY <2>2 DEF Generate!Plain!Emit, Generate!Plain!vars, Plain!Emit, Plain!vars
  <1>3. QED
    BY <1>1, <1>2 DEF DecodersInv

\* The row read for the next token is the one of the context, in the composition that
\* is model-checked too.
THEOREM DecodingRowIsRight == GenerateArguments => (DecodingSpec => []RowOfNext)
  <1>1. SUFFICES ASSUME GenerateArguments PROVE DecodingSpec => []RowOfNext
    OBVIOUS
  <1>2. DecodingInit => DecodersInv
    BY <1>1, DecodersInvInit
  <1>3. DecodersInv /\ [DecodingNext]_decodingVars => DecodersInv'
    BY <1>1, DecodersInvStep
  <1>4. DecodersInv => RowOfNext
    BY DEF DecodersInv, IInv, RowOfNext
  <1>5. QED
    BY <1>2, <1>3, <1>4, PTL DEF DecodingSpec

\* Either decoder of a single prompt emits plain greedy decoding.
THEOREM DecodersAreGreedy == GenerateArguments => (DecodingSpec => ImplementsGreedy)
  <1>1. SUFFICES ASSUME GenerateArguments PROVE DecodingSpec => ImplementsGreedy
    OBVIOUS
  <1>2. DecodingInit => DecodersInv /\ Plain!Init
    BY <1>1, DecodersInvInit DEF DecodingInit, Init, Generate!Init, Plain!Init
  <1>3. DecodersInv /\ [DecodingNext]_decodingVars => DecodersInv'
    BY <1>1, DecodersInvStep
  <1>4. DecodersInv /\ [DecodingNext]_decodingVars => [Plain!Emit]_(Plain!vars)
    BY <1>1, DecoderStepIsGreedy
  <1>5. QED
    BY <1>2, <1>3, <1>4, PTL DEF DecodingSpec, ImplementsGreedy, Plain!Spec
=============================================================================
