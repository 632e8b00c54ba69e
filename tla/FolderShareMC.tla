--------------------------- MODULE FolderShareMC ----------------------------
(* Instances of FolderShare for TLC *)
EXTENDS FolderShare, TLC

CONSTANTS d, e      \* e lies in d
CONSTANTS h, k

Two == {d, e}
Nested == [x \in Folders |-> IF x = d THEN Top ELSE d]
Preorder == [x \in Folders |-> IF x = d THEN <<d, e>> ELSE <<e>>]

ThreeFiles == 1..3
TwoFiles == 1..2
LastBelow == [f \in Files |-> IF f = 3 THEN e ELSE d]
Together == [f \in Files |-> d]
Distinct == [f \in Files |-> f]
Alike == [f \in Files |-> IF f = 3 THEN k ELSE h]
All == Files
AllButTwo == Files \ {2}
=============================================================================
