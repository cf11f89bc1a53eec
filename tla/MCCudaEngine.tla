---------------------------- MODULE MCCudaEngine ----------------------------
(* Instances of CudaEngine for TLC.                                         *)
EXTENDS CudaEngine

Mixing(c) == (c[1] + Len(c) + c[Len(c)]) % 2
Sampler(c) == IF Mixing(c) = 0 THEN {1, 2} ELSE {2}
Greedy(c) == {1 + Mixing(c)}

Ask(p, m, e) == [prompt |-> p, max_tokens |-> m, eos |-> e]

\* Short and long requests, with and without an end-of-sequence token; one for
\* no token, one whose budget is so negative that its cache has no row, and one
\* whose budget is so negative that its cache is shorter than its prompt.
\* The long one fits the device alone, but next to no other than the shortest.
OddRequests == {Ask(<<1>>, 3, -1), Ask(<<1, 2>>, 2, 2), Ask(<<1, 2>>, 5, 2),
                Ask(<<2>>, 0, -1), Ask(<<2>>, -1, -1), Ask(<<1, 2>>, -1, -1)}

\* Requests the device can serve one or two at a time.
PlainRequests == {Ask(<<1>>, 3, -1), Ask(<<1, 2>>, 2, 2), Ask(<<2>>, 0, -1)}
=============================================================================
