------------------------------ MODULE MCLists ------------------------------
EXTENDS Lists, TLC

CONSTANTS t1, t2, p1, p2, l1, q1, q2, n1, n2

MCSymmetry == Permutations({p1, p2}) \cup Permutations({n1, n2})
=============================================================================
