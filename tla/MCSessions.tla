----------------------------- MODULE MCSessions -----------------------------
(* Instances of Sessions for TLC.                                          *)
EXTENDS Sessions

CONSTANTS p1, p2, s1, n1, n2, big, a, b

TwoProcs == {p1, p2}
OneSession == {s1}
NodeIds == {n1, n2, big}
SmallNodes == {n1, n2}
BigNodes == {big}
TwoTopics == {a, b}
SameOrNot == [e \in TwoTopics \X TwoTopics |-> IF e[1] = e[2] THEN 10 ELSE 0]
Lists == {<<n1, n1>>}
Symmetry == Permutations(TwoProcs) \cup Permutations(TwoTopics)
=============================================================================
