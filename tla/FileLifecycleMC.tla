-------------------------- MODULE FileLifecycleMC --------------------------
(* Instances of FileLifecycle for TLC *)
EXTENDS FileLifecycle, TLC, FiniteSetsExt

CONSTANTS u1, u2, c1, c2, r1, r2

TwoUsers == {u1, u2}
OneCid == {c1}
TwoCids == {c1, c2}
OneReq == {r1}
TwoReqs == {r1, r2}
ReqSymmetry == Permutations(TwoReqs)

(* sizes differ, so that a charge of the wrong file shows *)
Sizes == [c \in Cids |-> IF c = c1 THEN 2 ELSE 3]

Nothing == << >>
Unused == [u \in Users |-> 0]

Row(c, u, p) == [cid |-> c, user |-> u, perm |-> p]

(* u1 uploaded c1 *)
Sent == << Row(c1, u1, "owner") >>
(* u1 uploaded c1 and shared it with u2, whose row is the newer one *)
Shared == << Row(c1, u1, "owner"), Row(c1, u2, "shared") >>
(* two users uploaded the content independently *)
TwoOwners == << Row(c1, u1, "owner"), Row(c1, u2, "owner") >>
(* u1 has the content twice *)
Copies == << Row(c1, u1, "owner"), Row(c1, u1, "owner"), Row(c1, u2, "shared") >>

(* two contents, whose owners have three rows each: the transfer of one goes
   to the owner of the other *)
Crossed == << Row(c1, u1, "owner"), Row(c1, u2, "shared"), Row(c1, u1, "owner"),
              Row(c2, u2, "owner"), Row(c2, u1, "shared"), Row(c2, u2, "owner") >>

(* storage_used as the uploads of the owners left it *)
Uploaded == [u \in Users |->
    MapThenSumSet(LAMBDA f : SizeOf[Preload[f].cid],
                  {f \in DOMAIN Preload : /\ Preload[f].user = u
                                          /\ Preload[f].perm = "owner"})]

(* the same when u2 got its rows from the pool, which does not charge *)
FirstCharged == [u \in Users |-> IF u = u1 THEN Uploaded[u1] ELSE 0]
=============================================================================
