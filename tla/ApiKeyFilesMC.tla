---------------------------- MODULE ApiKeyFilesMC ----------------------------
(* Instances of ApiKeyFiles for TLC *)
EXTENDS ApiKeyFiles, TLC

CONSTANTS u1, u2, x, y

TwoUsers == {u1, u2}
TwoContents == {x, y}
Sizes == [c \in Contents |-> IF c = x THEN 1 ELSE 3]
JustY == [u \in Users |-> {{y}}]
OneOrBoth == [u \in Users |-> IF u = u1 THEN {{x, y}} ELSE {{x}}]

(* one user does everything, the other has the same content *)
KindsOfBoth ==
    [u \in Users |-> IF u = u1 THEN AllKinds ELSE {"create", "delete"}]
=============================================================================
