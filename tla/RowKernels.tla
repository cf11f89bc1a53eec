----------------------------- MODULE RowKernels -----------------------------
(***************************************************************************)
(* The kernels of src/cuda/device.cu that give a thread block a row of a   *)
(* matrix: argmax_kernel and rms_norm_kernel.  Every thread scans a strided*)
(* slice, then the block halves the partial results round by round in      *)
(* shared memory, with a barrier between rounds; rms_norm then shares one  *)
(* scale, and every thread normalises its slice by it.  Threads interleave *)
(* freely between barriers.                                                *)
(*                                                                         *)
(* Numbers are small naturals; Lowest stands for -FLT_MAX.  A scale is     *)
(* represented by the sum of squares it is computed from.                  *)
(***************************************************************************)
EXTENDS Integers, FiniteSets, FiniteSetsExt

CONSTANTS NumThreads,  \* blockDim.x
          Widths,      \* values of cols (dim)
          Values       \* values an element of the row may have

Lowest == 0

RowKernelsAssumption == /\ \E k \in 0..10 : NumThreads = 2^k
                        /\ Values \subseteq Nat \ {Lowest}
                        /\ Widths \subseteq Nat \ {0}

Threads == 0..(NumThreads - 1)
NoOut == -1

VARIABLES kernel,      \* "argmax" or "rms_norm"
          cols, r,     \* the row
          sval, sidx,  \* shared memory; rms_norm has no indices
          scale,       \* the shared scale of rms_norm: <<>> until thread 0 has written it
          stride,      \* stride[t]: stride of the round thread t is in
          pc,          \* pc[t]: "scan", "sync", "load", "store", "scale", "write" or "done"
          other,       \* other[t]: the pair thread t has loaded
          out          \* out[j]: what argmax wrote for the row, at 0; what rms_norm
                       \* scaled element j by

vars == <<kernel, cols, r, sval, sidx, scale, stride, pc, other, out>>
row == <<kernel, cols, r>>

-----------------------------------------------------------------------------

Init == /\ kernel \in {"argmax", "rms_norm"}
        /\ cols \in Widths /\ r \in [0..(cols - 1) -> Values]
        /\ sval = [t \in Threads |-> Lowest] /\ sidx = [t \in Threads |-> 0]
        /\ scale = <<>>
        /\ stride = [t \in Threads |-> NumThreads]
        /\ pc = [t \in Threads |-> "scan"]
        /\ other = [t \in Threads |-> [val |-> Lowest, idx |-> 0]]
        /\ out = [j \in 0..(cols - 1) |-> NoOut]

Goto(t, label) == pc' = [pc EXCEPT ![t] = label]

\* The slice of thread t.
Slice(t) == {j \in 0..(cols - 1) : j % NumThreads = t}

FirstMax(S) == CHOOSE j \in S : \A k \in S : r[k] < r[j] \/ (r[k] = r[j] /\ j <= k)
SquareSum(S) == MapThenSumSet(LAMBDA j : r[j] * r[j], S)

\* The first of the greatest of the slice, or the sum of its squares.
Scan(t) ==
    /\ pc[t] = "scan"
    /\ \/ /\ kernel = "argmax" /\ Slice(t) # {}
          /\ sidx' = [sidx EXCEPT ![t] = FirstMax(Slice(t))]
          /\ sval' = [sval EXCEPT ![t] = r[FirstMax(Slice(t))]]
       \/ /\ kernel = "argmax" /\ Slice(t) = {}
          /\ UNCHANGED <<sval, sidx>>
       \/ /\ kernel = "rms_norm"
          /\ sval' = [sval EXCEPT ![t] = SquareSum(Slice(t))]
          /\ UNCHANGED sidx
    /\ Goto(t, "sync")
    /\ UNCHANGED <<row, scale, stride, other, out>>

\* Mutant of AllArrived: there is no barrier.
AllArrivedOrNot(t) == t \in Threads

\* Every thread has reached the barrier that t waits at, or has passed it.
AllArrived(t) == \A u \in Threads :
    stride[u] < stride[t] \/ (stride[u] = stride[t] /\ pc[u] = "sync")

\* A thread passes __syncthreads() into the next round of the reduction; after the
\* last one, of stride 1, argmax is over and rms_norm comes to the scale.
Sync(t) ==
    LET s == stride[t] \div 2
    IN /\ pc[t] = "sync" /\ stride[t] > 0 /\ AllArrived(t)
       /\ stride' = [stride EXCEPT ![t] = s]
       /\ \/ s > 0 /\ Goto(t, IF t < s THEN "load" ELSE "sync")
          \/ s = 0 /\ kernel = "argmax" /\ Goto(t, IF t = 0 THEN "write" ELSE "done")
          \/ s = 0 /\ kernel = "rms_norm" /\ Goto(t, IF t = 0 THEN "scale" ELSE "sync")
       /\ UNCHANGED <<row, sval, sidx, scale, other, out>>

Load(t) ==
    /\ pc[t] = "load"
    /\ other' = [other EXCEPT ![t] = [val |-> sval[t + stride[t]], idx |-> sidx[t + stride[t]]]]
    /\ Goto(t, "store")
    /\ UNCHANGED <<row, sval, sidx, scale, stride, out>>

\* The loaded pair wins: a greater logit, or the same at a smaller index.
Better(t) == \/ other[t].val > sval[t]
             \/ other[t].val = sval[t] /\ other[t].idx < sidx[t]

Store(t) ==
    /\ pc[t] = "store"
    /\ \/ /\ kernel = "argmax" /\ Better(t)
          /\ sval' = [sval EXCEPT ![t] = other[t].val]
          /\ sidx' = [sidx EXCEPT ![t] = other[t].idx]
       \/ /\ kernel = "argmax" /\ ~ Better(t)
          /\ UNCHANGED <<sval, sidx>>
       \/ /\ kernel = "rms_norm"
          /\ sval' = [sval EXCEPT ![t] = @ + other[t].val]
          /\ UNCHANGED sidx
    /\ Goto(t, "sync")
    /\ UNCHANGED <<row, scale, stride, other, out>>

\* Thread 0 of rms_norm writes the shared scale.
WriteScale(t) == /\ pc[t] = "scale"
                 /\ scale' = <<sval[0]>>
                 /\ Goto(t, "sync")
                 /\ UNCHANGED <<row, sval, sidx, stride, other, out>>

\* The barrier behind the scale.
SyncScale(t) == /\ pc[t] = "sync" /\ stride[t] = 0 /\ AllArrived(t)
                /\ stride' = [stride EXCEPT ![t] = -1]
                /\ Goto(t, "write")
                /\ UNCHANGED <<row, sval, sidx, scale, other, out>>

\* Thread 0 writes the index of the row; every thread of rms_norm its slice.
WriteOut(t) ==
    /\ pc[t] = "write"
    /\ out' = [j \in DOMAIN out |->
                 IF kernel = "argmax" /\ j = 0 THEN sidx[0]
                 ELSE IF kernel = "rms_norm" /\ j \in Slice(t) THEN scale[1] ELSE out[j]]
    /\ Goto(t, "done")
    /\ UNCHANGED <<row, sval, sidx, scale, stride, other>>

AllDone == \A t \in Threads : pc[t] = "done"
Finished == AllDone /\ UNCHANGED vars

Next == \/ \E t \in Threads : \/ Scan(t) \/ Sync(t) \/ Load(t) \/ Store(t)
                              \/ WriteScale(t) \/ SyncScale(t) \/ WriteOut(t)
        \/ Finished

Spec == Init /\ [][Next]_vars

-----------------------------------------------------------------------------
(* Properties *)

\* No thread loads a slot whose owner may still store to it before the next
\* barrier, nor one the owner has already reduced further; no thread reads the
\* scale before thread 0 wrote it.
RaceFree == \A t \in Threads :
    /\ pc[t] = "load" => LET u == t + stride[t]
                         IN pc[u] = "sync" /\ stride[u] >= stride[t]
    /\ kernel = "rms_norm" /\ pc[t] = "write" => scale # <<>> /\ pc[0] # "scale"

\* The CPU twins: sampler.cpp argmax() and nn.cpp rms_norm(), row by row.
ArgmaxTwin == out[0] = FirstMax(DOMAIN r)
RmsNormTwin == \A j \in DOMAIN r : out[j] = SquareSum(DOMAIN r)

\* "The tie rule matches the CPU sampler's first-max-wins", and the scale of a row
\* is that of all its elements, as in the "CPU twin": whatever the order of the
\* threads, however many of them have no element.
MatchesTwin == AllDone => IF kernel = "argmax" THEN ArgmaxTwin ELSE RmsNormTwin
=============================================================================
