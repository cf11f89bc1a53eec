------------------------------ MODULE MCEngine ------------------------------
(* Instances of Engine for TLC.  Tokens are small numbers; 9 is a token id  *)
(* no embedding row exists for; -1 as eos disables the end-of-sequence stop.*)
EXTENDS Engine, TLC

\* A hash without collisions: the prefix itself.
IdealHash(p) == p

\* The sampler's choices depend on the whole context; after some contexts it is
\* greedy, after others it may draw either token.
Mixing(c) == (c[1] + Len(c) + c[Len(c)]) % 2
Sampler(c) == IF Mixing(c) = 0 THEN {1, 2} ELSE {2}

\* A greedy sampler.
Greedy(c) == {1 + Mixing(c)}

Ask(p, m, e) == [prompt |-> p, max_tokens |-> m, eos |-> e]

\* Short and long prompts, with and without an end-of-sequence token; one asks
\* for no token at all.
MixedRequests == {Ask(<<1>>, 3, -1), Ask(<<1, 2, 1>>, 2, 2), Ask(<<2, 1>>, 0, -1)}

\* Prompts with a common first block, one with the same tokens elsewhere, and one
\* with a token id outside the vocabulary.
SharingRequests == {Ask(<<1, 9>>, 1, -1), Ask(<<1>>, 3, -1), Ask(<<1, 2>>, 2, 1), Ask(<<1, 2, 2>>, 1, -1),
                    Ask(<<2, 1>>, 1, -1)}

\* Prompts that share nothing: each leaves its own blocks in the cache.
DistinctRequests == {Ask(<<1, 1>>, 2, -1), Ask(<<2, 1>>, 2, -1)}

Symmetry == Permutations(Blocks)
=============================================================================
