------------------------- MODULE FolderDeleteProofs -------------------------
(***************************************************************************)
(* What holds of the delete of a folder's files for every number of files, *)
(* users, contents and folders, and whatever was shared before: the object *)
(* of a live row stays, a delete is whole or leaves the rows as they were, *)
(* and it takes nothing from other users.  That a delete waits for nobody  *)
(* but itself is a liveness property, and stays with TLC.                  *)
(***************************************************************************)
EXTENDS FolderDelete, TLAPS

(* The object of a content that leaves S3 has one live row, which goes with the
   transaction, so that every other live row keeps its object.  *)
SoleRow ==
    pc = "s3Delete" => file \in txDeleted /\ LiveRows(world[file].cid) = {file}

RowsHaveObjects ==
    failures = 0 => \A f \in live \ txDeleted : world[f].cid \in s3

(* The rows of the folder that the transaction has not marked are still to come.  *)
Marked == txDeleted \cup todo \cup (IF pc = "row" THEN {file} ELSE {})

FolderIsCovered ==
    pc # "idle" => \A f \in live : world[f].root = folder => f \in Marked

(* What the transaction has written for another user is no debit.  *)
OthersPay ==
    \A u \in Users \ {user} : txUsed[u] # NoWrite => txUsed[u] >= storage[u]

NoTransaction ==
    pc = "idle" => txDeleted = {} /\ txPerm = NoPerm /\ txUsed = NoUsed

IInv == /\ world \in Worlds /\ failures \in Nat /\ TypeOK
        /\ SoleRow /\ RowsHaveObjects /\ FolderIsCovered /\ OthersPay
        /\ NoTransaction

-----------------------------------------------------------------------------
(* Sizes and users of files. *)
LEMMA Files ==
  ASSUME world \in Worlds, NEW f \in FileIds
  PROVE  /\ world[f].cid \in Cids /\ world[f].user \in Users
         /\ world[f].root \in Folders /\ world[f].perm \in {"owner", "shared"}
         /\ Size(f) \in Nat
  <1>1. world[f] \in File
    BY FolderDeleteAssumption
  <1> QED BY <1>1, FolderDeleteAssumption DEF File, Size

(* A debit never gets below zero. *)
LEMMA Debits ==
  ASSUME NEW used \in Nat, NEW size \in Nat
  PROVE  Debit(used, size) \in Nat
  BY DEF Debit

(* The server starts without a delete. *)
LEMMA InitIInv == Init => IInv
  <1> SUFFICES ASSUME Init PROVE IInv
    OBVIOUS
  <1>1. /\ world \in Worlds /\ pc = "idle" /\ txDeleted = {} /\ txPerm = NoPerm
        /\ txUsed = NoUsed /\ failures = 0 /\ live = FileIds /\ folders = Folders
        /\ todo = {} /\ s3 = {world[f].cid : f \in FileIds}
    BY DEF Init
  <1>2. PICK f \in FileIds : file = f
    BY FolderDeleteAssumption DEF Init
  <1>3. user \in Users /\ folder \in Folders
    BY <1>1, <1>2, Files DEF Init
  <1>4. s3 \subseteq Cids
    BY <1>1, Files
  <1>5. perm \in [FileIds -> Permissions]
    BY <1>1, Files DEF Init, Permissions
  <1>6. storage \in [Users -> Nat]
    BY <1>1, FolderDeleteAssumption DEF Init
  <1>7. txPerm \in [FileIds -> Permissions \cup {None}] /\ txUsed \in [Users -> Nat \cup {NoWrite}]
    BY <1>1 DEF NoPerm, NoUsed
  <1>8. TypeOK
    BY <1>1, <1>2, <1>3, <1>4, <1>5, <1>6, <1>7 DEF TypeOK
  <1>9. OthersPay
    BY <1>1 DEF OthersPay, NoUsed
  <1> QED BY <1>1, <1>8, <1>9
          DEF IInv, SoleRow, RowsHaveObjects, FolderIsCovered, NoTransaction

(* The parts of the state that no step disturbs wrongly. *)
LEMMA NextTypeOK ==
  ASSUME IInv, [Next]_vars
  PROVE  world' = world /\ failures' \in Nat /\ TypeOK'
  <1>0. TypeOK /\ world \in Worlds /\ failures \in Nat
    BY DEF IInv
  <1>1. ASSUME NEW d \in Folders, DeleteFolder(d)
        PROVE  world' = world /\ failures' \in Nat /\ TypeOK'
    <2>1. Owner[d] \in Users
      BY FolderDeleteAssumption
    <2> QED BY <1>0, <1>1, <2>1 DEF DeleteFolder, TypeOK, committed, tx
  <1>2. CASE NextFile
    BY <1>0, <1>2 DEF NextFile, InLoop, TypeOK, tx
  <1>3. CASE DeleteFileUser
    BY <1>0, <1>3 DEF DeleteFileUser, InLoop, TypeOK
  <1>4. CASE IsFileOwner
    BY <1>0, <1>4 DEF IsFileOwner, InLoop, TypeOK, tx
  <1>5. CASE DebitNow
    <2>1. Debit(storage[user], Size(file)) \in Nat
      BY <1>0, Files, Debits DEF TypeOK
    <2>2. storage' \in [Users -> Nat]
      BY <1>0, <1>5, <2>1 DEF DebitNow, TypeOK
    <2> QED BY <1>0, <1>5, <2>2 DEF DebitNow, InLoop, TypeOK, tx
  <1>6. CASE DeleteFilePermission
    <2>1. txPerm' \in [FileIds -> Permissions \cup {None}]
      BY <1>0, <1>6 DEF DeleteFilePermission, TypeOK, Permissions
    <2> QED BY <1>0, <1>6, <2>1 DEF DeleteFilePermission, InLoop, TypeOK
  <1>7. CASE GiveOwner
    <2>1. PICK g \in live :
             /\ txPerm' = [txPerm EXCEPT ![g] = "owner"]
             /\ txUsed' = [txUsed EXCEPT ![world[g].user] =
                              storage[world[g].user] + Size(file)]
      BY <1>7 DEF GiveOwner
    <2>2. world[g].user \in Users /\ Size(file) \in Nat
      BY <1>0, Files DEF TypeOK
    <2>3. storage[world[g].user] + Size(file) \in Nat
      BY <1>0, <2>2 DEF TypeOK
    <2>4. txPerm' \in [FileIds -> Permissions \cup {None}]
      BY <1>0, <2>1 DEF TypeOK, Permissions
    <2>5. txUsed' \in [Users -> Nat \cup {NoWrite}]
      BY <1>0, <2>1, <2>3 DEF TypeOK
    <2> QED BY <1>0, <1>7, <2>4, <2>5 DEF GiveOwner, InLoop, TypeOK
  <1>8. CASE DeleteFileFromS3
    BY <1>0, <1>8 DEF DeleteFileFromS3, InLoop, TypeOK, tx
  <1>9. CASE DebitInTx
    <2>1. Debit(storage[user], Size(file)) \in Nat
      BY <1>0, Files, Debits DEF TypeOK
    <2>2. txUsed' \in [Users -> Nat \cup {NoWrite}]
      BY <1>0, <1>9, <2>1 DEF DebitInTx, TypeOK
    <2> QED BY <1>0, <1>9, <2>2 DEF DebitInTx, InLoop, TypeOK
  <1>10. NoPerm \in [FileIds -> Permissions \cup {None}]
         /\ NoUsed \in [Users -> Nat \cup {NoWrite}]
    BY DEF NoPerm, NoUsed
  <1>11. CASE Commit
    <2>1. perm' \in [FileIds -> Permissions]
      BY <1>0, <1>11 DEF Commit, TypeOK
    <2>2. storage' \in [Users -> Nat]
      BY <1>0, <1>11 DEF Commit, TypeOK
    <2> QED BY <1>0, <1>10, <1>11, <2>1, <2>2 DEF Commit, Ends, TypeOK
  <1>12. CASE Rollback
    BY <1>0, <1>10, <1>12 DEF Rollback, Ends, TypeOK
  <1>13. CASE UNCHANGED vars
    BY <1>0, <1>13 DEF vars, TypeOK
  <1>14. CASE LoggedFailure
    <2>1. txPerm' \in [FileIds -> Permissions \cup {None}]
      BY <1>0, <1>14 DEF LoggedFailure, TypeOK, Permissions
    <2> QED BY <1>0, <1>14, <2>1 DEF LoggedFailure, InLoop, TypeOK
  <1> QED BY <1>1, <1>2, <1>3, <1>4, <1>5, <1>6, <1>7, <1>8, <1>9, <1>11, <1>12, <1>13,
             <1>14
          DEF Next, Handler

(* A delete that has begun and ended leaves no transaction behind. *)
LEMMA NextNoTransaction ==
  ASSUME IInv, [Next]_vars
  PROVE  NoTransaction'
  BY DEF IInv, NoTransaction, Next, Handler, DeleteFolder, NextFile, DeleteFileUser,
         IsFileOwner, DebitNow, DeleteFilePermission, GiveOwner, DeleteFileFromS3,
         DebitInTx, LoggedFailure, Commit, Rollback, Ends, InLoop, vars, tx

(* An object is only removed for the one live row of its content. *)
LEMMA NextSoleRow ==
  ASSUME IInv, [Next]_vars
  PROVE  SoleRow'
  <1>1. SUFFICES ASSUME pc' = "s3Delete"
                 PROVE  SoleRow'
    BY DEF SoleRow
  <1>2. CASE DeleteFileUser
    BY <1>1, <1>2 DEF DeleteFileUser, InLoop, SoleRow, HeldElsewhere, LiveRows
  <1>3. CASE UNCHANGED vars
    BY <1>1, <1>3 DEF IInv, SoleRow, LiveRows, vars
  <1> QED BY <1>1, <1>2, <1>3
          DEF Next, Handler, DeleteFolder, NextFile, IsFileOwner, DebitNow,
              DeleteFilePermission, GiveOwner, DeleteFileFromS3, DebitInTx,
              LoggedFailure, Commit, Rollback, Ends, InLoop

(* Every other live row keeps its object. *)
LEMMA NextRowsHaveObjects ==
  ASSUME IInv, [Next]_vars
  PROVE  RowsHaveObjects'
  <1>0. /\ RowsHaveObjects /\ SoleRow /\ NoTransaction /\ failures \in Nat
        /\ world' = world
    BY NextTypeOK DEF IInv
  <1>1. ASSUME live' = live, s3' = s3, txDeleted \subseteq txDeleted', failures' = failures
        PROVE  RowsHaveObjects'
    BY <1>0, <1>1 DEF RowsHaveObjects
  <1>2. CASE DeleteFileFromS3
    <2>1. /\ s3' = s3 \ {world[file].cid} /\ live' = live /\ txDeleted' = txDeleted
          /\ failures' = failures /\ pc = "s3Delete"
      BY <1>2 DEF DeleteFileFromS3, InLoop, tx
    <2>2. \A f \in live \ txDeleted : world[f].cid # world[file].cid
      BY <1>0, <2>1 DEF SoleRow, LiveRows
    <2> QED BY <1>0, <2>1, <2>2 DEF RowsHaveObjects
  <1>3. CASE Commit
    BY <1>0, <1>3 DEF Commit, Ends, RowsHaveObjects
  <1>4. CASE Rollback
    <2>1. failures' # 0
      BY <1>0, <1>4 DEF Rollback
    <2> QED BY <2>1 DEF RowsHaveObjects
  <1> QED BY <1>1, <1>2, <1>3, <1>4
          DEF Next, Handler, DeleteFolder, NextFile, DeleteFileUser, IsFileOwner, DebitNow,
              DeleteFilePermission, GiveOwner, DebitInTx, LoggedFailure, InLoop,
              committed, tx, vars

(* The loop leaves no file of the folder out. *)
LEMMA NextFolderIsCovered ==
  ASSUME IInv, [Next]_vars
  PROVE  FolderIsCovered'
  <1>0. FolderIsCovered /\ world' = world
    BY NextTypeOK DEF IInv
  <1>1. ASSUME live' = live, folder' = folder, Marked \subseteq Marked', pc # "idle"
        PROVE  FolderIsCovered'
    BY <1>0, <1>1 DEF FolderIsCovered
  <1>2. ASSUME NEW d \in Folders, DeleteFolder(d)
        PROVE  FolderIsCovered'
    BY <1>0, <1>2 DEF DeleteFolder, FolderIsCovered, Marked, committed, tx
  <1>3. CASE NextFile
    <2>1. pc = "file" /\ pc' = "row" /\ todo' = todo \ {file'} /\ txDeleted' = txDeleted
      BY <1>3 DEF NextFile, InLoop, tx
    <2>2. Marked \subseteq Marked'
      BY <2>1 DEF Marked
    <2> QED BY <1>1, <1>3, <2>1, <2>2 DEF NextFile, InLoop
  <1>4. CASE DeleteFileUser
    <2>1. pc = "row" /\ todo' = todo /\ txDeleted' = txDeleted \cup {file}
      BY <1>4 DEF DeleteFileUser, InLoop
    <2>2. Marked \subseteq Marked'
      BY <2>1 DEF Marked
    <2> QED BY <1>1, <1>4, <2>1, <2>2 DEF DeleteFileUser, InLoop
  <1>5. CASE \/ IsFileOwner \/ DebitNow \/ DeleteFilePermission \/ GiveOwner
             \/ DeleteFileFromS3 \/ DebitInTx \/ LoggedFailure
    <2>1. /\ pc \notin {"idle", "row"} /\ todo' = todo /\ txDeleted' = txDeleted
          /\ live' = live /\ folder' = folder
      BY <1>5 DEF IsFileOwner, DebitNow, DeleteFilePermission, GiveOwner,
                  DeleteFileFromS3, DebitInTx, LoggedFailure, InLoop, tx
    <2>2. Marked \subseteq Marked'
      BY <2>1 DEF Marked
    <2> QED BY <1>1, <2>1, <2>2
  <1>6. CASE Commit \/ Rollback
    BY <1>6 DEF Commit, Rollback, Ends, FolderIsCovered
  <1>7. CASE UNCHANGED vars
    BY <1>0, <1>7 DEF vars, FolderIsCovered, Marked
  <1> QED BY <1>2, <1>3, <1>4, <1>5, <1>6, <1>7 DEF Next, Handler

(* What the transaction writes for others is never less than what they have. *)
LEMMA NextOthersPay ==
  ASSUME IInv, [Next]_vars
  PROVE  OthersPay'
  <1>0. TypeOK /\ OthersPay /\ world \in Worlds /\ NoTransaction
    BY DEF IInv
  <1>1. ASSUME user' = user, txUsed' = txUsed, storage' = storage
        PROVE  OthersPay'
    BY <1>0, <1>1 DEF OthersPay
  <1>2. ASSUME txUsed' = NoUsed
        PROVE  OthersPay'
    BY <1>2 DEF OthersPay, NoUsed
  <1>3. ASSUME NEW d \in Folders, DeleteFolder(d)
        PROVE  OthersPay'
    BY <1>0, <1>2, <1>3 DEF DeleteFolder, NoTransaction, tx
  <1>4. CASE Commit \/ Rollback
    BY <1>2, <1>4 DEF Commit, Rollback, Ends
  <1>5. CASE DebitNow
    <2>1. /\ user' = user /\ txUsed' = txUsed
          /\ \A u \in Users \ {user} : storage'[u] = storage[u]
      BY <1>0, <1>5 DEF DebitNow, InLoop, TypeOK, tx
    <2> QED BY <1>0, <2>1 DEF OthersPay
  <1>6. CASE DebitInTx
    <2>1. /\ user' = user /\ storage' = storage
          /\ \A u \in Users \ {user} : txUsed'[u] = txUsed[u]
      BY <1>0, <1>6 DEF DebitInTx, InLoop, TypeOK
    <2> QED BY <1>0, <2>1 DEF OthersPay
  <1>7. CASE GiveOwner
    <2>1. PICK g \in live :
             txUsed' = [txUsed EXCEPT ![world[g].user] =
                           storage[world[g].user] + Size(file)]
      BY <1>7 DEF GiveOwner
    <2>2. user' = user /\ storage' = storage /\ world[g].user \in Users /\ Size(file) \in Nat
      BY <1>0, <1>7, Files DEF GiveOwner, InLoop, TypeOK
    <2>3. ASSUME NEW u \in Users \ {user}, txUsed'[u] # NoWrite
          PROVE  txUsed'[u] >= storage[u]
      <3>1. CASE u = world[g].user
        BY <1>0, <2>1, <2>2, <3>1 DEF TypeOK
      <3>2. CASE u # world[g].user
        BY <1>0, <2>1, <2>3, <3>2 DEF TypeOK, OthersPay
      <3> QED BY <3>1, <3>2
    <2> QED BY <2>2, <2>3 DEF OthersPay
  <1> QED BY <1>1, <1>3, <1>4, <1>5, <1>6, <1>7
          DEF Next, Handler, NextFile, DeleteFileUser, IsFileOwner, DeleteFilePermission,
              DeleteFileFromS3, LoggedFailure, InLoop, tx, vars

(* The inductive invariant. *)
LEMMA AlwaysIInv == Spec => []IInv
  <1>1. IInv /\ [Next]_vars => IInv'
    BY NextTypeOK, NextNoTransaction, NextSoleRow, NextRowsHaveObjects,
       NextFolderIsCovered, NextOthersPay DEF IInv
  <1> QED BY InitIInv, <1>1, PTL DEF Spec

-----------------------------------------------------------------------------
(* A live row never loses its object, whichever rows of its content the folder has
   (DeleteInv): when no delete has failed, an object goes with its last row.  *)
THEOREM LiveRowsKeepObjects == Spec => []DeleteInv
  <1>1. IInv => DeleteInv
    BY DEF IInv, DeleteInv, HeldObjectsStay, Quiet, RowsHaveObjects, NoTransaction
  <1> QED BY <1>1, AlwaysIInv, PTL

(* A delete ends with the folder and all its rows gone, or with no row and no
   permission changed, and no step of it makes the storage of another user less
   (DeletesAreContained). *)
THEOREM DeletesContained == Spec => DeletesAreContained
  <1>1. ASSUME IInv, [Next]_vars, pc # "idle", pc' = "idle"
        PROVE  \/ folder \notin folders' /\ \A f \in live' : world[f].root # folder
               \/ folders' = folders /\ live' = live /\ perm' = perm
    <2>1. Commit \/ Rollback
      BY <1>1 DEF Next, Handler, DeleteFolder, NextFile, DeleteFileUser, IsFileOwner,
                  DebitNow, DeleteFilePermission, GiveOwner, DeleteFileFromS3, DebitInTx,
                  LoggedFailure, InLoop, vars
    <2>2. CASE Commit
      <3>1. pc = "file" /\ todo = {} /\ live' = live \ txDeleted /\ folders' = folders \ {folder}
        BY <2>2 DEF Commit
      <3>2. \A f \in live : world[f].root = folder => f \in txDeleted
        BY <1>1, <3>1 DEF IInv, FolderIsCovered, Marked
      <3> QED BY <3>1, <3>2
    <2>3. CASE Rollback
      BY <2>3 DEF Rollback
    <2> QED BY <2>1, <2>2, <2>3
  <1>2. ASSUME IInv, [Next]_vars, NEW u \in Users \ {user}, pc # "idle"
        PROVE  storage'[u] >= storage[u]
    <2>0. TypeOK /\ OthersPay
      BY <1>2 DEF IInv
    <2>1. storage[u] \in Nat
      BY <2>0 DEF TypeOK
    <2>2. CASE storage' = storage
      BY <2>1, <2>2
    <2>3. CASE DebitNow
      <3>1. storage'[u] = storage[u]
        BY <2>0, <2>3 DEF DebitNow, TypeOK
      <3> QED BY <2>1, <3>1
    <2>4. CASE Commit
      <3>1. storage'[u] = IF txUsed[u] = NoWrite THEN storage[u] ELSE txUsed[u]
        BY <2>4 DEF Commit
      <3> QED BY <2>0, <2>1, <3>1 DEF OthersPay
    <2> QED BY <1>2, <2>2, <2>3, <2>4
            DEF Next, Handler, DeleteFolder, NextFile, DeleteFileUser, IsFileOwner,
                DeleteFilePermission, GiveOwner, DeleteFileFromS3, DebitInTx,
                LoggedFailure, Rollback, InLoop, committed, vars
  <1>3. IInv /\ [Next]_vars =>
          [pc # "idle" /\ pc' = "idle" =>
             \/ folder \notin folders' /\ \A f \in live' : world[f].root # folder
             \/ folders' = folders /\ live' = live /\ perm' = perm]_vars
    BY <1>1
  <1>4. IInv /\ [Next]_vars =>
          [\A u \in Users \ {user} : pc # "idle" => storage'[u] >= storage[u]]_vars
    BY <1>2
  <1>5. Spec => AllOrNothing
    BY <1>3, AlwaysIInv, PTL DEF Spec, AllOrNothing
  <1>6. Spec => OthersAreNeverDebited
    BY <1>4, AlwaysIInv, PTL DEF Spec, OthersAreNeverDebited
  <1> QED BY <1>5, <1>6 DEF DeletesAreContained
=============================================================================
