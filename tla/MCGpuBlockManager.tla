------------------------ MODULE MCGpuBlockManager ------------------------
(* An instance of GpuBlockManager for TLC.                                  *)
EXTENDS GpuBlockManager, TLC

Symmetry == Permutations(Blocks) \cup Permutations(Seqs) \cup Permutations(Tokens)
=============================================================================
