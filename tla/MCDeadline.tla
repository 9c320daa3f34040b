----------------------------- MODULE MCDeadline -----------------------------
(* Small instances of Deadline. *)
EXTENDS Deadline, TLC

CONSTANTS r1, r2, r3, w1, w2

Symmetry == Permutations(Reads) \cup Permutations(Writes)

=============================================================================
