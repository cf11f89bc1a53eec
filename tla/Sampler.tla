------------------------------ MODULE Sampler ------------------------------
(***************************************************************************)
(* Sampler::sample (src/sampler/sampler.cpp): greedy, or temperature,      *)
(* top-k, nucleus (top-p) and a draw from what is left.                    *)
(*                                                                         *)
(* Real numbers become naturals.  exp(logit / temperature - max) is a      *)
(* power of two that underflows to zero Underflow steps below the          *)
(* greatest logit; top_p is a number of Parts; the uniform draw is one of  *)
(* Draws equidistant points of [0, 1).  Probabilities are compared after   *)
(* multiplying by their denominators, so rounding is not modelled.         *)
(***************************************************************************)
EXTENDS Integers, FiniteSets, Functions, FiniteSetsExt

CONSTANTS Widths,     \* values of vocab
          Logits,     \* values a logit may have
          TopKs,      \* values of params.top_k
          Underflow, Parts, Draws

SamplerAssumption ==
    /\ Widths \subseteq Nat /\ Logits \subseteq Nat /\ TopKs \subseteq Int
    /\ Underflow \in Nat /\ Parts \in Nat \ {0} /\ Draws \in Nat \ {0}

VARIABLES logits, params,
          order,     \* token at each rank, set by the sort
          keep,      \* ranks left by top-k
          nucleus,   \* ranks left by top-p
          token,     \* result; NoToken before, and when the call throws
          pc

vars == <<logits, params, order, keep, nucleus, token, pc>>

NoToken == -1
Tokens == DOMAIN logits
vocab == Cardinality(Tokens)
Params == [greedy : BOOLEAN, top_k : TopKs, top_p : 0..Parts]

-----------------------------------------------------------------------------
(* Probabilities, unnormalised *)

Weight(t) == 2^Underflow \div 2^(Max(Range(logits)) - logits[t])
Mass(S) == SumFunctionOnSet([t \in Tokens |-> Weight(t)], S)
Ranked(n) == {order[i] : i \in 1..n}          \* the n first tokens
Cumulative(n) == Mass(Ranked(n))

\* The first rank up to n whose cumulative mass passes the test, else n.
FirstRank(n, Reaches(_)) == LET R == {i \in 1..n : Reaches(i)}
                            IN IF R = {} THEN n ELSE Min(R)

FirstMax == CHOOSE t \in Tokens : \A u \in Tokens :
                logits[u] < logits[t] \/ (logits[u] = logits[t] /\ t <= u)

-----------------------------------------------------------------------------

Init == /\ logits \in UNION {[0..(v - 1) -> Logits] : v \in Widths}
        /\ params \in Params
        /\ order = <<>> /\ keep = 0 /\ nucleus = 0 /\ token = NoToken /\ pc = "sample"

Throw == /\ pc = "sample" /\ vocab = 0
         /\ pc' = "thrown"
         /\ UNCHANGED <<logits, params, order, keep, nucleus, token>>

Greedy == /\ pc = "sample" /\ vocab > 0 /\ params.greedy
          /\ token' = FirstMax /\ pc' = "done"
          /\ UNCHANGED <<logits, params, order, keep, nucleus>>

\* std::sort leaves equal logits in any order.
Sort == /\ pc = "sample" /\ vocab > 0 /\ ~params.greedy
        /\ \E p \in Bijection(1..vocab, Tokens) :
               /\ \A i, j \in 1..vocab : i < j => logits[p[i]] >= logits[p[j]]
               /\ order' = p
        /\ pc' = "top_k"
        /\ UNCHANGED <<logits, params, keep, nucleus, token>>

Kept == IF params.top_k > 0 /\ params.top_k < vocab THEN params.top_k ELSE vocab

TopK == /\ pc = "top_k"
        /\ keep' = Kept /\ pc' = "top_p"
        /\ UNCHANGED <<logits, params, order, nucleus, token>>

\* Mutant of Reached: the cumulative probability has to exceed top_p.
ReachedStrict(i) == Cumulative(i) * Parts > params.top_p * Cumulative(keep)

\* cumulative >= params.top_p
Reached(i) == Cumulative(i) * Parts >= params.top_p * Cumulative(keep)

TopP == /\ pc = "top_p"
        /\ nucleus' = IF params.top_p < Parts THEN FirstRank(keep, Reached) ELSE keep
        /\ pc' = "draw"
        /\ UNCHANGED <<logits, params, order, keep, token>>

\* Mutant of Drawn: the threshold is a share of all that top-k kept.
DrawnOfKept(u) == order[FirstRank(nucleus, LAMBDA i : u * Cumulative(keep) <= Draws * Cumulative(i))]

\* The token for the uniform value u / Draws: threshold <= cumulative.
Drawn(u) == order[FirstRank(nucleus, LAMBDA i : u * Cumulative(nucleus) <= Draws * Cumulative(i))]

Draw == /\ pc = "draw"
        /\ \E u \in 0..(Draws - 1) : token' = Drawn(u)
        /\ pc' = "done"
        /\ UNCHANGED <<logits, params, order, keep, nucleus>>

Finished == pc \in {"done", "thrown"} /\ UNCHANGED vars

Next == Throw \/ Greedy \/ Sort \/ TopK \/ TopP \/ Draw \/ Finished

Spec == Init /\ [][Next]_vars

-----------------------------------------------------------------------------
(* Properties *)

\* S holds tokens of T that no other token of T is more likely than.
IsTop(S, T) == S \subseteq T /\ \A a \in S, b \in T \ S : logits[a] >= logits[b]

\* The order of top-k before top-p, written without ranks: the token is one of
\* a smallest set of most likely tokens that reaches top_p of what a largest
\* set of top_k most likely tokens holds, however ties were sorted.
DrawnFromNucleus == pc = "done" /\ ~params.greedy =>
    \E K \in SUBSET Tokens :
        /\ IsTop(K, Tokens)
        /\ Cardinality(K) = IF params.top_k \in 1..vocab THEN params.top_k ELSE vocab
        /\ \E S \in SUBSET K :
              /\ IsTop(S, K) /\ token \in S
              /\ \A R \in (SUBSET S) \ {{}, S} :
                    IsTop(R, S) => Mass(R) * Parts < params.top_p * Mass(K)

\* The draw is proportional to the weights, to one grid point, over all uniform
\* values: a token of the nucleus is drawn as often as its share of the nucleus,
\* and a token whose probability underflowed to zero is never drawn.
Hits(t) == {u \in 0..(Draws - 1) : Drawn(u) = t}

Multinomial == pc = "draw" =>
    \A t \in Ranked(nucleus) :
        LET error == Cardinality(Hits(t)) * Cumulative(nucleus) - Draws * Weight(t)
        IN /\ error \in -Cumulative(nucleus)..Cumulative(nucleus)
           /\ Weight(t) = 0 => Hits(t) = {}
=============================================================================
