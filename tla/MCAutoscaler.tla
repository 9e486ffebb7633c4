---------------------------- MODULE MCAutoscaler ----------------------------
(* Small instances of Autoscaler for TLC. *)
EXTENDS Autoscaler, TLC

CONSTANTS t1, j1, j2, j3

OneType == {t1}
TwoJobs == {j1, j2}
FitAndOversize == {j2, j3}
SmallJob == {j1}
TypeOfJob == [j \in Jobs |-> t1]
SizeOfJob == [j \in Jobs |-> CASE j = j1 -> 1 [] j = j2 -> 2 [] j = j3 -> 3]
Count1 == [t \in Types |-> 1]
Count2 == [t \in Types |-> 2]
Size2 == [t \in Types |-> 2]
Nodes2 == [t \in Types |-> 2]
Nodes3 == [t \in Types |-> 3]
Symmetry == Permutations(Scripts)
=============================================================================
