---------------------------- MODULE PublicLinksMC ----------------------------
(* Instances of PublicLinks for TLC *)
EXTENDS PublicLinks, TLC

CONSTANTS f1, f2, f3, h1, h2, r1, r2

OneFile == {f1}
TwoFiles == {f1, f2}
ThreeFiles == {f1, f2, f3}
OneHash == {h1}
TwoHashes == {h1, h2}
OneReq == {r1}
TwoReqs == {r1, r2}

(* every file has the same name, or may be renamed *)
AnyName == [f \in Files |-> Hashes]

AllTypes == {"public", "one-time", "monthly"}
OneTime == {"one-time"}
PublicOrOneTime == {"public", "one-time"}

AllRoutes == Routes
Publishing == {"publish", "unpublish", "open", "delete"}
Opening == {"publish", "open"}
Sharing == {"share", "publish"}
Grouping == {"publish", "group", "unpublish"}
=============================================================================
