----------------------------- MODULE MCAfqBatch -----------------------------
(* Small instances of AfqBatch. *)
EXTENDS AfqBatch, TLC

CONSTANTS a1, a2, f1, w1, m1, r1, r2, q1, b1, b2

MCAcctOf == [i \in Work |-> IF i \in {f1, m1, r1} THEN a1 ELSE a2]
\* r1 belongs to the fsync, or to the mkdir.
MCFsyncReads == [r \in Read |-> IF r = r1 THEN f1 ELSE NoOne]
MCMkdirReads == [r \in Read |-> IF r = r1 THEN m1 ELSE NoOne]
Symmetry == Permutations(Batch)

=============================================================================
