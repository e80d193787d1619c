------------------------ MODULE MCIndexPublication ------------------------
(* Instances of IndexPublication for TLC.                                  *)
EXTENDS IndexPublication

CONSTANTS o1, o2, q1, m1, m2

TheOperator == {o1}
TwoOperators == {o1, o2}
OneQuery == {q1}
OneModel == {m1}
TwoModels == {m1, m2}
ExpectsM1 == [q \in OneQuery |-> m1]
NoQueryModel == [q \in {} |-> m1]
=============================================================================
