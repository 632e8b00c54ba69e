---------------------------- MODULE FolderDelete ----------------------------
(***************************************************************************)
(* What DeleteFolder does to the files of a folder: the loop of            *)
(* DeleteAllFilesInFolder over files, permissions, storage and objects.    *)
(* All files are handled in one transaction, but every read and one of the *)
(* writes go through db.Db(), that is, over another connection: they do    *)
(* not see the transaction, and wait for its locks.                        *)
(*                                                                         *)
(* One delete at a time: interleaved deletes are the subject of            *)
(* FileLifecycle, subfolders that of FolderTree.  Alone, a file in the     *)
(* loop is live for GetNextOwner and the newest but one row has a user, so *)
(* that the branches for a missing next owner are only reached when the    *)
(* query fails.                                                            *)
(***************************************************************************)
EXTENDS Integers, FiniteSets

CONSTANTS
    Users, Cids, Folders,
    Owner,          \* Folders -> Users: who may delete the folder
    SizeOf,         \* Cids -> Nat: files.size
    FileIds,        \* a newer row has a greater id
    Worlds,         \* what the files may be when the first delete comes
    UsedIn(_),      \* world -> Users -> storage_used
    MaxRequests, MaxFailures    \* bounds

File == [cid : Cids, user : Users, root : Folders, perm : {"owner", "shared"}]

ASSUME FolderDeleteAssumption ==
    /\ FileIds \subseteq Nat /\ IsFiniteSet(FileIds) /\ FileIds # {}
    /\ SizeOf \in [Cids -> Nat] /\ Owner \in [Folders -> Users]
    /\ Worlds \subseteq [FileIds -> File]
    /\ \A w \in Worlds : UsedIn(w) \in [Users -> Nat]
    /\ MaxRequests \in Nat /\ MaxFailures \in Nat

NoWrite == -1
None == "-"

VARIABLES
    world,          \* the columns that stay: cid, user, root
    live,           \* rows of `files` without deleted_at
    perm,           \* FileIds -> files_users.permission
    storage, s3,
    folders,        \* live folders
    pc, user, folder,   \* the request
    todo, file,         \* its loop
    txDeleted, txPerm, txUsed,  \* its transaction
    started, failures

committed == <<live, perm, storage, s3, folders>>
tx == <<txDeleted, txPerm, txUsed>>
vars == <<world, live, perm, storage, s3, folders, pc, user, folder, todo, file,
          txDeleted, txPerm, txUsed, started, failures>>

Permissions == {"owner", "shared", "deleted"}

TypeOK ==
    /\ live \subseteq FileIds
    /\ perm \in [FileIds -> Permissions]
    /\ storage \in [Users -> Nat]
    /\ s3 \subseteq Cids /\ folders \subseteq Folders
    /\ pc \in {"idle", "file", "row", "isOwner", "debitNow", "giveOwner",
               "s3Delete", "debit", "permission"}
    /\ user \in Users /\ folder \in Folders
    /\ todo \subseteq FileIds /\ file \in FileIds
    /\ txDeleted \subseteq FileIds
    /\ txPerm \in [FileIds -> Permissions \cup {None}]
    /\ txUsed \in [Users -> Nat \cup {NoWrite}]

NoPerm == [f \in FileIds |-> None]
NoUsed == [u \in Users |-> NoWrite]

Init ==
    /\ world \in Worlds
    /\ live = FileIds
    /\ perm = [f \in FileIds |-> world[f].perm]
    /\ storage = UsedIn(world)
    /\ s3 = {world[f].cid : f \in FileIds}
    /\ folders = Folders
    /\ pc = "idle"
    /\ user = CHOOSE u \in Users : TRUE
    /\ folder = CHOOSE d \in Folders : TRUE
    /\ todo = {} /\ file = CHOOSE f \in FileIds : TRUE
    /\ txDeleted = {} /\ txPerm = NoPerm /\ txUsed = NoUsed
    /\ started = 0 /\ failures = 0

-----------------------------------------------------------------------------
Size(f) == SizeOf[world[f].cid]
LiveRows(c) == {f \in live : world[f].cid = c}

Debit(used, size) == IF size <= used THEN used - size ELSE 0

(* mutant: only other users count *)
OthersHold(f) == \E g \in LiveRows(world[f].cid) : world[g].user # world[f].user

(* someone else, or the user itself, has the content in another row:
   FindUsersByFileCID or FindFilesByUserAndFileCID finds two rows *)
HeldElsewhere(f) == LiveRows(world[f].cid) # {f}

(* files[1] of the rows in the order created_at DESC *)
SecondNewest(g, c) ==
    g \in LiveRows(c) /\ Cardinality({h \in LiveRows(c) : h > g}) = 1

(* a step of the loop: only pc, and what is named *)
InLoop(p, q) == /\ pc = p /\ pc' = q
                /\ UNCHANGED <<world, folders, user, folder, started, failures>>

-----------------------------------------------------------------------------
(* The files are those of the folder, whose users they are.  *)
DeleteFolder(d) ==
    /\ pc = "idle" /\ d \in folders /\ started < MaxRequests
    /\ pc' = "file" /\ user' = Owner[d] /\ folder' = d
    /\ todo' = {f \in live : world[f].root = d}
    /\ started' = started + 1
    /\ UNCHANGED <<world, committed, file, tx, failures>>

(* mutant: a range over the rows that are still there *)
NextLiveFile ==
    /\ InLoop("file", "row")
    /\ file' \in todo /\ UNCHANGED todo
    /\ UNCHANGED <<live, perm, storage, s3, tx>>

NextFile ==
    /\ InLoop("file", "row")
    /\ file' \in todo /\ todo' = todo \ {file'}
    /\ UNCHANGED <<live, perm, storage, s3, tx>>

(* mutant: the row is forgotten when the object goes *)
KeepSoleRow ==
    /\ InLoop("row", IF HeldElsewhere(file) THEN "isOwner" ELSE "s3Delete")
    /\ txDeleted' = IF HeldElsewhere(file) THEN txDeleted \cup {file} ELSE txDeleted
    /\ UNCHANGED <<live, perm, storage, s3, todo, file, txPerm, txUsed>>

(* query.DeleteFileUser marks the row of `files` *)
DeleteFileUser ==
    /\ InLoop("row", IF HeldElsewhere(file) THEN "isOwner" ELSE "s3Delete")
    /\ txDeleted' = txDeleted \cup {file}
    /\ UNCHANGED <<live, perm, storage, s3, todo, file, txPerm, txUsed>>

IsFileOwner ==
    /\ InLoop("isOwner", IF world[file].user = user /\ perm[file] = "owner"
                           THEN "debitNow" ELSE "permission")
    /\ UNCHANGED <<live, perm, storage, s3, todo, file, tx>>

(* user_detail.Update: on another connection, which waits for the row if the
   transaction has written it *)
DebitNow ==
    /\ InLoop("debitNow", "permission") /\ txUsed[user] = NoWrite
    /\ storage' = [storage EXCEPT ![user] = Debit(@, Size(file))]
    /\ UNCHANGED <<live, perm, s3, todo, file, tx>>

(* query.DeleteFilePermission: the row of the caller, if it has one *)
DeleteFilePermission ==
    /\ InLoop("permission",
              IF /\ HeldElsewhere(file)
                 /\ world[file].user = user /\ perm[file] = "owner"
                THEN "giveOwner" ELSE "file")
    /\ txPerm' = IF world[file].user = user
                   THEN [txPerm EXCEPT ![file] = "deleted"] ELSE txPerm
    /\ UNCHANGED <<live, perm, storage, s3, todo, file, txDeleted, txUsed>>

(* mutant: the column is set to the size *)
GiveOwnerAndOverwrite ==
    /\ InLoop("giveOwner", "file")
    /\ \E g \in live :
          LET v == world[g].user IN
          /\ SecondNewest(g, world[file].cid)
          /\ txPerm' = [txPerm EXCEPT ![g] = "owner"]
          /\ txUsed' = [txUsed EXCEPT ![v] = Size(file)]
    /\ UNCHANGED <<live, perm, storage, s3, todo, file, txDeleted>>

(* GetNextOwner, SetOwnerPermision, and storage_used of the next owner as it
   was committed, plus the size *)
GiveOwner ==
    /\ InLoop("giveOwner", "file")
    /\ \E g \in live :
          LET v == world[g].user IN
          /\ SecondNewest(g, world[file].cid)
          /\ txPerm' = [txPerm EXCEPT ![g] = "owner"]
          /\ txUsed' = [txUsed EXCEPT ![v] = storage[v] + Size(file)]
    /\ UNCHANGED <<live, perm, storage, s3, todo, file, txDeleted>>

(* the object is gone at once, whatever becomes of the transaction *)
DeleteFileFromS3 ==
    /\ InLoop("s3Delete", "debit")
    /\ s3' = s3 \ {world[file].cid}
    /\ UNCHANGED <<live, perm, storage, todo, file, tx>>

(* mutant: the unsigned subtraction is not guarded, and done twice *)
DebitBelowZero ==
    /\ InLoop("debit", "permission")
    /\ txUsed' = [txUsed EXCEPT ![user] = storage[user] - 2 * Size(file)]
    /\ UNCHANGED <<live, perm, storage, s3, todo, file, txDeleted, txPerm>>

(* the committed storage_used minus the size *)
DebitInTx ==
    /\ InLoop("debit", "permission")
    /\ txUsed' = [txUsed EXCEPT ![user] = Debit(storage[user], Size(file))]
    /\ UNCHANGED <<live, perm, storage, s3, todo, file, txDeleted, txPerm>>

(* what GetNextFileUser finds for a user with another row of the content: the
   newest but one row, if it is the user's too *)
NextFileUsers(c) ==
    {g \in live : /\ SecondNewest(g, c) /\ world[g].user = user
                  /\ \E h \in LiveRows(c) : h # g /\ world[h].user = user}

(* Errors that are logged, and the loop goes on: of user_detail.Update, even while
   it waits for a lock; of GetNextOwner, after which nobody is charged; and of
   DeleteFileFromS3, if the second call, for a key that nothing has, succeeds.
   They are not counted, but none comes after the last failure that is.  *)
LoggedFailure ==
    /\ failures < MaxFailures
    /\ \/ InLoop("debitNow", "permission") /\ UNCHANGED txPerm
       \/ InLoop("s3Delete", "debit") /\ UNCHANGED txPerm
       \/ /\ InLoop("giveOwner", "file")
          /\ LET next == NextFileUsers(world[file].cid)
             IN txPerm' = [f \in FileIds |-> IF f \in next THEN "owner" ELSE txPerm[f]]
    /\ UNCHANGED <<live, perm, storage, s3, todo, file, txDeleted, txUsed>>

-----------------------------------------------------------------------------
Ends == /\ pc' = "idle" /\ todo' = {}
        /\ txDeleted' = {} /\ txPerm' = NoPerm /\ txUsed' = NoUsed
        /\ UNCHANGED <<world, s3, user, folder, file, started>>

Commit ==
    /\ pc = "file" /\ todo = {}
    /\ live' = live \ txDeleted
    /\ perm' = [f \in FileIds |-> IF txPerm[f] = None THEN perm[f] ELSE txPerm[f]]
    /\ storage' = [u \in Users |-> IF txUsed[u] = NoWrite THEN storage[u]
                                                          ELSE txUsed[u]]
    /\ folders' = folders \ {folder}
    /\ Ends
    /\ UNCHANGED failures

(* a statement or the commit fails, or the process dies *)
Rollback ==
    /\ pc # "idle" /\ failures < MaxFailures
    /\ failures' = failures + 1
    /\ Ends
    /\ UNCHANGED <<live, perm, storage, folders>>

Handler ==
    \/ NextFile \/ DeleteFileUser \/ IsFileOwner \/ DebitNow
    \/ DeleteFilePermission \/ GiveOwner \/ DeleteFileFromS3 \/ DebitInTx
    \/ Commit

Next == \/ \E d \in Folders : DeleteFolder(d)
        \/ Handler
        \/ LoggedFailure \/ Rollback

(* The handler runs on unless it waits for a lock. *)
Spec == Init /\ [][Next]_vars /\ WF_vars(Handler)

-----------------------------------------------------------------------------
Quiet == pc = "idle"

(* The object of a file stays for as long as a row of its content is live,
   whichever files of the content are in the folder, and unless a delete fails
   after it has removed the object. *)
HeldObjectsStay == Quiet /\ failures = 0 => \A f \in live : world[f].cid \in s3

(* The transaction is well-formed, and live rows have their objects.  *)
DeleteInv == TypeOK /\ HeldObjectsStay

(* A delete is over with nothing left in the folder and, if it fails, with no
   row and no permission changed. *)
AllOrNothing ==
    [][pc # "idle" /\ pc' = "idle" =>
         \/ folder \notin folders' /\ \A f \in live' : world[f].root # folder
         \/ folders' = folders /\ live' = live /\ perm' = perm]_vars

(* The storage of the other users never gets less: they keep what they have,
   and pay for what they inherit. *)
OthersAreNeverDebited ==
    [][\A u \in Users \ {user} : pc # "idle" => storage'[u] >= storage[u]]_vars

(* A delete concerns the folder as a whole, and takes nothing from other users.  *)
DeletesAreContained == AllOrNothing /\ OthersAreNeverDebited

(* A delete that is not answered waits for itself: user_detail.Update wants the
   row that its own transaction wrote for an earlier file of the folder.  *)
WaitsForItself == pc = "debitNow" /\ txUsed[user] # NoWrite

DeletesBlockOnlyThemselves == pc # "idle" ~> pc = "idle" \/ WaitsForItself

(* "@return 200 {string} string "ok"" (api/folder_delete.go:24): every delete is
   answered.  It is not; the README tells why.  *)
DeletesAreAnswered == pc # "idle" ~> pc = "idle"

(* An object goes with the last row of its content. *)
ObjectsFollowRows == Quiet => \A c \in s3 : LiveRows(c) # {}
=============================================================================
