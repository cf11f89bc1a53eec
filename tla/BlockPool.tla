----------------------------- MODULE BlockPool -----------------------------
(***************************************************************************)
(* What a reference-counted pool of KV blocks promises, whatever its free  *)
(* list looks like: a block is handed out only when nobody holds it, it is *)
(* shared only while somebody holds it, and it is held until its last      *)
(* holder drops it (the class comment of include/engine/block_allocator.hpp*)
(* and its three operations).                                              *)
(***************************************************************************)
EXTENDS Naturals

CONSTANTS Blocks,   \* the physical blocks of the pool
          MaxRef    \* bound on the holders of one block

VARIABLE holders    \* holders[b]: how many references to b are live

TypeOK == holders \in [Blocks -> 0..MaxRef]

Init == holders = [b \in Blocks |-> 0]

\* A free block gets its first holder.
HandOut(b) == holders[b] = 0 /\ holders' = [holders EXCEPT ![b] = 1]

\* A live block gets one more holder.
Share(b) == holders[b] \in 1..(MaxRef - 1) /\ holders' = [holders EXCEPT ![b] = @ + 1]

\* One holder lets a live block go.
Drop(b) == holders[b] > 0 /\ holders' = [holders EXCEPT ![b] = @ - 1]

Next == \E b \in Blocks : HandOut(b) \/ Share(b) \/ Drop(b)

Spec == Init /\ [][Next]_holders
=============================================================================
