--------------------------- MODULE MCPagedKVCache ---------------------------
(* An instance of PagedKVCache for TLC: a pool is either the private one of *)
(* a cache, or driven call by call, as the allocator's unit tests do.       *)
EXTENDS PagedKVCache

VARIABLE driver

MCInit == PagedInit /\ driver \in {"cache", "test"}

Cached == driver = "cache" /\ PagedNext /\ UNCHANGED driver

Direct == driver = "test" /\ Next /\ UNCHANGED <<cacheVars, driver>>

MCSpec == MCInit /\ [][Cached \/ Direct]_<<vars, cacheVars, driver>>
=============================================================================
