------------------------------ MODULE MCSearch ------------------------------
(* A node with three peers, two artists that may be taken for one another, *)
(* and a track, for Search.                                                *)
EXTENDS Search

CONSTANTS p1, p2, p3, a1, a2, t1, s1, s2

\* Records are sent with confidence -1 or 1.
AgainstOrFor == {-1, 1}

EachItsSoul == [i \in Artist |-> IF i = a1 THEN s1 ELSE s2]

=============================================================================
