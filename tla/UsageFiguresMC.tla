---------------------------- MODULE UsageFiguresMC ----------------------------
(* Instances of UsageFigures for TLC *)
EXTENDS UsageFigures, TLC

CONSTANTS u1, u2, f1, f2

TwoUsers == {u1, u2}
TwoFiles == {f1, f2}
Sizes == [f \in Files |-> IF f = f1 THEN 1 ELSE 2]
Statuses == [f \in Files |-> IF f = f1 THEN "public" ELSE "encrypted"]
Symmetry == Permutations(TwoUsers)
=============================================================================
