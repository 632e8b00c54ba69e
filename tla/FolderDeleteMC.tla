--------------------------- MODULE FolderDeleteMC ---------------------------
(* Instances of FolderDelete for TLC, and the properties that add up sizes *)
EXTENDS FolderDelete, TLC, FiniteSetsExt

CONSTANTS u1, u2, c1, c2, d1, d2

TwoUsers == {u1, u2}
TwoCids == {c1, c2}
TwoFolders == {d1, d2}
Each == [d \in Folders |-> IF d = d1 THEN u1 ELSE u2]
ThreeFiles == 1..3
SixFiles == 1..6
TwoFiles == 1..2
Sizes == [c \in Cids |-> IF c = c1 THEN 2 ELSE 3]

OwnedSize(files, userOf(_), cidOf(_), owned(_), u) ==
    MapThenSumSet(LAMBDA f : SizeOf[cidOf(f)],
                  {f \in files : userOf(f) = u /\ owned(f)})

(* storage_used as the uploads of the owners left it *)
Uploaded(w) == [u \in Users |->
    OwnedSize(FileIds, LAMBDA f : w[f].user, LAMBDA f : w[f].cid,
              LAMBDA f : w[f].perm = "owner", u)]

(* a shared row has an older row of an owner of the content *)
Reachable(w) == \A f \in FileIds : w[f].perm = "shared" =>
    \E g \in FileIds : g < f /\ w[g].cid = w[f].cid /\ w[g].perm = "owner"

AllWorlds == {w \in [FileIds -> File] : Reachable(w)}

(* every file is in a folder of its user *)
Own == {w \in AllWorlds : \A f \in FileIds : w[f].user = Owner[w[f].root]}

(* and no content is held twice *)
Distinct == {w \in Own : \A f, g \in FileIds : f # g => w[f].cid # w[g].cid}

(* u1 has two files in d1 and has shared each of them with u2, twice *)
Row(c, u, d, p) == [cid |-> c, user |-> u, root |-> d, perm |-> p]
Inherited == { << Row(c1, u1, d1, "owner"), Row(c2, u1, d1, "owner"),
                  Row(c1, u2, d2, "shared"), Row(c2, u2, d2, "shared"),
                  Row(c1, u2, d2, "shared"), Row(c2, u2, d2, "shared") >> }

LiveOwned(u) == OwnedSize(live, LAMBDA f : world[f].user, LAMBDA f : world[f].cid,
                          LAMBDA f : perm[f] = "owner", u)

(* When every content is held once, a delete takes the sizes of all files of
   the user in the folder off storage_used. *)
DebitsAddUp ==
    Quiet /\ world \in Distinct => \A u \in Users : storage[u] <= LiveOwned(u)

(* A user who inherits files pays for all of them. *)
OwnersAreCharged == Quiet => \A u \in Users : storage[u] >= LiveOwned(u)
=============================================================================
