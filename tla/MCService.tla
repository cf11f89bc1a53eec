----------------------------- MODULE MCService -----------------------------
(* An instance of Service for TLC.                                          *)
EXTENDS Service

Mixing(c) == (c[1] + Len(c) + c[Len(c)]) % 2
Sampler(c) == IF Mixing(c) = 0 THEN {1, 2} ELSE {2}

Ask(p, m, e) == [prompt |-> p, max_tokens |-> m, eos |-> e]

\* One that a token may end early, one for a single token.
Requests == {Ask(<<1>>, 2, 1), Ask(<<2>>, 1, -1)}
=============================================================================
