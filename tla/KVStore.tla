------------------------------ MODULE KVStore ------------------------------
(***************************************************************************)
(* What the attention layer is promised by any KV cache of the engine      *)
(* (contiguous, paged, pooled, shared): every sequence owns a private list *)
(* of rows, row r computed from exactly the first r tokens of its context. *)
(* A step appends rows to one sequence or empties one; no other sequence's *)
(* rows change.                                                            *)
(***************************************************************************)
EXTENDS Naturals, Sequences

CONSTANTS Seqs,     \* the sequences that store rows
          Contexts  \* the token sequences a sequence may hold (closed under prefix)

VARIABLE rows       \* rows[s][r]: the context row r of s was computed from

\* The rows of a context: row r comes from its first r tokens.
RowsOf(c) == [r \in 1..Len(c) |-> SubSeq(c, 1, r)]

TypeOK == \A s \in Seqs : \E c \in Contexts : rows[s] = RowsOf(c)

Init == rows = [s \in Seqs |-> <<>>]

\* Rows for new tokens are appended to those s has, and no other sequence's change.
Extend(s) ==
    LET old == rows[s]
        new == rows'[s]
    IN /\ Len(new) > Len(old) /\ SubSeq(new, 1, Len(old)) = old
       /\ \E c \in Contexts : new = RowsOf(c)
       /\ rows' = [rows EXCEPT ![s] = new]

\* All rows of s are given back.
Reset(s) == rows' = [rows EXCEPT ![s] = <<>>]

Next == \E s \in Seqs : Extend(s) \/ Reset(s)

Spec == Init /\ [][Next]_rows
=============================================================================
