----------------------------- MODULE FolderTreeMC -----------------------------
(* Instances of FolderTree for TLC *)
EXTENDS FolderTree, TLC

CONSTANTS u1, u2, t1, t2, r1, r2

OneUser == {u1}
TwoUsers == {u1, u2}
OneTitle == {t1}
TwoTitles == {t1, t2}
Own == [u \in Users |-> IF u = u1 THEN {t1} ELSE {t2}]
Common == [u \in Users |-> Titles]
OneReq == {r1}
TwoReqs == {r1, r2}

AllRoutes == {"create", "upload", "moveFolder", "moveFile", "delete"}
UploadsAndDeletes == {"upload", "delete"}
CreatesMovesDeletes == {"create", "moveFolder", "delete"}
=============================================================================
