----------------------------- MODULE MCTbCharge -----------------------------
\* Model checking of TbCharge: two pages with room for one page of
\* other I/O between them.
EXTENDS TbCharge, TLC

CONSTANTS a1, a2, b1, b2

\* One account for the runs about tokens, two for the runs about sharing.
MCOne == {a1}
MCTwo == {a1, a2}
MCBlock == {b1, b2}
MCOffset == [b \in Block |-> IF b = b1 THEN 0 ELSE 2]

Symmetry == Permutations(Account)

=============================================================================
