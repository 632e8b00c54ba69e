-------------------------- MODULE MultipartUploadMC --------------------------
(* Instances of MultipartUpload for TLC *)
EXTENDS MultipartUpload, TLC

CONSTANTS k1, k2, x, y

OneClient == {k1}
TwoClients == {k1, k2}
OneCid == {x}
TwoCids == {x, y}

(* two contents, or one that both clients have *)
OwnContent == [k \in Clients |-> IF k = k1 THEN x ELSE y]
SameContent == [k \in Clients |-> x]

NoFailures == {}
AllFailures == {"initiate", "part", "complete", "abort"}
LostCompletion == {"complete"}

FromStart == {"first"}
FromStartOrSame == {"same", "first"}
=============================================================================
