---------------------------- MODULE DeviceMemory ----------------------------
(***************************************************************************)
(* Who owns the allocations on the device: the constructors, moves and     *)
(* destructors of DeviceArray (src/cuda/model.cu), GpuKVCache              *)
(* (src/cuda/kv_cache.cu) and GpuBlockManager (src/cuda/block_manager.cu), *)
(* its scratch table, and the copy-in/copy-out functions of                *)
(* src/cuda/device.cu.  All are called from one thread, so an operation is *)
(* one step; any of its device calls may fail.                             *)
(*                                                                         *)
(* An object is a pair of its key and value buffers and its table; a       *)
(* DeviceArray has one buffer and no table.  The buffers of a moved-from   *)
(* object are empty.  An allocation gets the lowest addresses free, so     *)
(* that what was freed is handed out again at once.                        *)
(***************************************************************************)
EXTENDS Integers, Sequences, FiniteSets

CONSTANTS Variables,  \* places an object can be in
          NumLayers,  \* layers of a cache and of a pool
          Addresses,  \* the memory of the device
          Faults      \* bound: operations in which a device call fails

NumLayersAssumption == NumLayers \in Nat \ {0}
AddressesAssumption == Addresses \subseteq Nat \ {0} /\ IsFiniteSet(Addresses)

VARIABLES heap,    \* addresses allocated
          object,  \* object[v]: [kind, buffers, table, cap], or Absent
          lost,    \* addresses nobody will free
          faults   \* operations that failed so far

vars == <<heap, object, lost, faults>>

Absent == [kind |-> "absent"]
Null == 0

-----------------------------------------------------------------------------

Held(obj) == IF obj.kind = "absent" THEN {}
             ELSE {obj.buffers[i] : i \in DOMAIN obj.buffers} \cup ({obj.table} \ {Null})

\* Allocations a constructor makes.
Need(kind) == IF kind = "array" THEN 1 ELSE 2 * NumLayers

\* The n lowest addresses that are free, in order.
Lowest(n, used) ==
    CHOOSE s \in [1..n -> Addresses \ used] :
        /\ \A i, j \in 1..n : i < j => s[i] < s[j]
        /\ \A a \in Addresses \ used : (\E i \in 1..n : a <= s[i]) => \E i \in 1..n : s[i] = a
Available(n, used) == Cardinality(Addresses \ used) >= n

Init == /\ heap = {} /\ object = [v \in Variables |-> Absent]
        /\ lost = {} /\ faults = 0

Construct(v, kind) ==
    /\ object[v] = Absent /\ Available(Need(kind), heap)
    /\ LET got == Lowest(Need(kind), heap)
       IN /\ heap' = heap \cup {got[i] : i \in DOMAIN got}
          /\ object' = [object EXCEPT ![v] = [kind |-> kind, buffers |-> got,
                                              table |-> Null, cap |-> 0]]
    /\ UNCHANGED <<lost, faults>>

\* k allocations are made and then forgotten.
Lose(k) ==
    /\ faults < Faults /\ Available(k, heap)
    /\ LET got == Lowest(k, heap)
       IN /\ heap' = heap \cup {got[i] : i \in DOMAIN got}
          /\ lost' = lost \cup {got[i] : i \in DOMAIN got}
    /\ faults' = faults + 1
    /\ UNCHANGED object

\* A constructor throws after k allocations: no destructor runs.
ConstructThrows(kind, k) == k < Need(kind) /\ Lose(k)

\* A copy-in/copy-out function throws in an allocation, a copy or a launch, with k
\* buffers allocated: it frees them at its end only.  One that returns leaves the heap
\* as it was.
HostCallThrows(k) == Lose(k)

\* upload_table() for a longer table: the old scratch is freed, then a new one
\* allocated, or not.
GrowTable(v, need) ==
    /\ object[v] # Absent /\ object[v].kind = "manager" /\ object[v].buffers # <<>>
    /\ need > object[v].cap
    /\ LET kept == heap \ {object[v].table}
       IN \/ /\ Available(1, kept)
             /\ heap' = kept \cup {Lowest(1, kept)[1]}
             /\ object' = [object EXCEPT ![v].table = Lowest(1, kept)[1], ![v].cap = need]
             /\ UNCHANGED faults
          \/ /\ faults < Faults /\ faults' = faults + 1
             /\ heap' = kept
             /\ object' = [object EXCEPT ![v].table = Null]
    /\ UNCHANGED lost

\* Mutant of MovedFrom: the table stays with the source, too.
MovedFromKeepsTable(obj) == [obj EXCEPT !.buffers = <<>>]

\* What a move leaves in its source.
MovedFrom(obj) == [obj EXCEPT !.buffers = <<>>, !.table = Null, !.cap = 0]

\* Move construction: a new object takes everything.
MoveConstruct(v, w) ==
    /\ object[v] = Absent /\ object[w] # Absent
    /\ object' = [object EXCEPT ![v] = object[w], ![w] = MovedFrom(object[w])]
    /\ UNCHANGED <<heap, lost, faults>>

\* Move assignment: the target releases what it has, then takes everything.  To
\* oneself it does nothing.
MoveAssign(v, w) ==
    /\ v # w /\ Absent \notin {object[v], object[w]} /\ object[v].kind = object[w].kind
    /\ heap' = heap \ Held(object[v])
    /\ object' = [object EXCEPT ![v] = object[w], ![w] = MovedFrom(object[w])]
    /\ UNCHANGED <<lost, faults>>

\* The destructor.
Destroy(v) == /\ object[v] # Absent
              /\ heap' = heap \ Held(object[v])
              /\ object' = [object EXCEPT ![v] = Absent]
              /\ UNCHANGED <<lost, faults>>

Kinds == {"array", "cache", "manager"}

Next == \/ \E v \in Variables : \/ \E kind \in Kinds : Construct(v, kind)
                                \/ \E need \in 1..2 : GrowTable(v, need)
                                \/ \E w \in Variables : MoveConstruct(v, w) \/ MoveAssign(v, w)
                                \/ Destroy(v)
        \/ \E kind \in Kinds, k \in 0..(2 * NumLayers) : ConstructThrows(kind, k)
        \/ \E k \in 0..4 : HostCallThrows(k)

Spec == Init /\ [][Next]_vars

-----------------------------------------------------------------------------
(* Property *)

\* "Move-only owner of a device allocation": whatever is constructed, moved, assigned
\* over, destroyed or thrown out of, every pointer an object holds is to a live
\* allocation, no two pointers are to one, and every allocation that is not held was
\* lost by a failing constructor or copy-in.
OneOwner ==
    /\ heap = lost \cup UNION {Held(object[v]) : v \in Variables}
    /\ \A v \in Variables : object[v] # Absent =>
          Cardinality(Held(object[v])) = Len(object[v].buffers)
                                         + (IF object[v].table = Null THEN 0 ELSE 1)
    /\ \A v, w \in Variables : v # w => Held(object[v]) \cap Held(object[w]) = {}
    /\ \A v \in Variables : Held(object[v]) \cap lost = {}
    /\ lost # {} => faults > 0
=============================================================================
