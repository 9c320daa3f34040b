---------------------------- MODULE MCTbQueues ----------------------------
\* Model checking of TbQueues: the default account and a limited one.
EXTENDS TbQueues

CONSTANTS dflt, a1, r1, r2, r3, w1

MCRequest == {r1, r2, r3, w1}
\* r1, r2 and w1 belong to the limited account.
MCAcct == [r \in Request |-> IF r = r3 THEN dflt ELSE a1]
MCRw == [r \in Request |-> IF r = w1 THEN 1 ELSE 0]

=============================================================================
