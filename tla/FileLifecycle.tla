--------------------------- MODULE FileLifecycle ---------------------------
(***************************************************************************)
(* The life of a file row: PutUploadFiles, CreateFile,                     *)
(* CheckFilesExistInPool, the share-with-a-user route and DeleteFile,      *)
(* running concurrently over PostgreSQL (READ COMMITTED) and S3.           *)
(*                                                                         *)
(* One step is one SQL statement, one S3 call or one commit.  A handler    *)
(* writes through its transaction (the tx... overlays) and reads through   *)
(* db.Db(), another connection, which sees committed rows only.  A row     *)
(* with a pending write is locked; a second writer waits.                  *)
(*                                                                         *)
(* The files table order created_at DESC is the order of ids.  Left out:   *)
(* names, MIME types and folders, the share-state tables (another          *)
(* component) and the flag files.is_in_pool, which no handler here reads.  *)
(***************************************************************************)
EXTENDS Integers, Sequences, FiniteSets, Functions

CONSTANTS
    Users,          \* user ids
    Cids,           \* content identifiers, which are also the S3 keys
    SizeOf,         \* Cids -> Nat: files.size
    Reqs,           \* slots for requests in flight: one goroutine each
    Handlers,       \* the routes that clients call
    Preload,        \* the rows at the start: a sequence of [cid, user, perm]
    PreStorage,     \* Users -> Nat: storage_used at the start
    MaxRequests,    \* bound: requests ever started
    MaxCrashes      \* bound: process crashes

FileIds == 1..(Len(Preload) + MaxRequests)  \* a request inserts one row at most
NoFile == 0
NoWrite == -1        \* no pending write to a user_details row
None == "-"          \* no pending write to a row; no files_users row

RowStates == {"absent", "live", "deleted"}
Permissions == {"owner", "shared", "deleted"}

Paths == {"none", "upload", "create", "pool", "share",
          "delete", "owner", "own", "shared", "sole"}

Phases == {"idle", "panicked",
           "head", "holdersOfCid", "poolHead", "insert", "readUsed", "charge",
           "relate", "holders", "copies", "isOwner", "s3Delete", "debit",
           "debitNow", "deleteRow", "deletePermission", "nextOwner",
           "nextCopy", "giveOwner", "leavePool", "readNextUsed", "credit",
           "commit"}

Routes == {"upload", "create", "pool", "share", "delete"}

ASSUME ConstantsAssumption ==
    /\ Users # {} /\ Cids # {}
    /\ MaxRequests \in Nat /\ MaxCrashes \in Nat
    /\ SizeOf \in [Cids -> Nat]
    /\ PreStorage \in [Users -> Nat]
    /\ Preload \in Seq([cid : Cids, user : Users, perm : {"owner", "shared"}])
    /\ Handlers \subseteq Routes

VARIABLES
    (* committed rows, and the bucket *)
    fileRow,     \* FileIds -> RowStates: the row of `files`, and its deleted_at
    perm,        \* FileIds -> files_users.permission, None without such a row
    storage,     \* Users -> user_details.storage_used
    s3,          \* the keys that have an object
    (* columns that are written once, when the row is inserted *)
    fileCid, fileUser, nextId,
    (* requests *)
    pc, req,
    (* their transactions: state, and the writes not yet committed *)
    txSt, txRow, txPerm, txUsed,
    (* goroutines of PutUploadFiles *)
    up,
    (* history: bytes ever added to storage_used; copies of a share whose
       relation was not committed *)
    charged, halfShared,
    (* bounds *)
    started, crashes

dbVars == <<fileRow, perm, storage>>
columns == <<fileCid, fileUser, nextId>>
txVars == <<txSt, txRow, txPerm, txUsed>>
bounds == <<halfShared, started, crashes>>
vars == <<fileRow, perm, storage, s3, fileCid, fileUser, nextId, pc, req,
          txSt, txRow, txPerm, txUsed, up, charged, halfShared, started,
          crashes>>

Request == [path : Paths, user : Users, file : FileIds \cup {NoFile},
            cid : Cids, next : FileIds \cup {NoFile}, used : Nat,
            others : BOOLEAN, copies : BOOLEAN,
            perm : {None, "owner", "shared"}]

TypeOK ==
    /\ fileRow \in [FileIds -> RowStates]
    /\ perm \in [FileIds -> Permissions \cup {None}]
    /\ storage \in [Users -> Nat]
    /\ s3 \subseteq Cids
    /\ fileCid \in [FileIds -> Cids]
    /\ fileUser \in [FileIds -> Users]
    /\ nextId \in Nat \ {0}
    /\ pc \in [Reqs -> Phases]
    /\ req \in [Reqs -> Request]
    /\ txSt \in [Reqs -> {"none", "open", "aborted", "closed"}]
    /\ txRow \in [Reqs -> [FileIds -> {None, "live", "deleted"}]]
    /\ txPerm \in [Reqs -> [FileIds -> Permissions \cup {None}]]
    /\ txUsed \in [Reqs -> [Users -> Nat \cup {NoWrite}]]
    /\ up \in [FileIds -> {"none", "running", "done", "failed"}]
    /\ charged \in [Users -> Nat]
    /\ halfShared \subseteq FileIds
    /\ started \in Nat
    /\ crashes \in Nat

-----------------------------------------------------------------------------
(* Queries over committed rows                                             *)

(* mutant: len(...) > 0 *)
AtLeastOne(S) == S # {}

AtLeastTwo(S) == \E a, b \in S : a # b

(* rows of `files` with this CID and no deleted_at *)
LiveRows(c) == {f \in FileIds : fileRow[f] = "live" /\ fileCid[f] = c}

(* mutant: only the owners are counted *)
OwnersOnly(c) == {f \in LiveRows(c) : perm[f] = "owner"}

(* FindUsersByFileCID joins files_users: one result for each row *)
Holders(c) == {f \in LiveRows(c) : perm[f] # None}

(* FindFilesByUserAndFileCID *)
CopiesOf(u, c) == {f \in Holders(c) : fileUser[f] = u}

(* files[1] of the live rows of the CID, ORDER BY created_at DESC *)
SecondNewest(g, c) ==
    /\ g \in LiveRows(c)
    /\ Cardinality({h \in LiveRows(c) : h > g}) = 1

(* mutant: the unsigned subtraction without the comparison (16 bits) *)
DebitWrapsAround(used, size) == (used - size) % 65536

(* mutant: signed, without the comparison *)
DebitBelowZero(used, size) == used - size

(* mutant: nothing is taken back *)
DebitNothing(used, size) == used

(* the clamped subtraction of DeleteFile on the unsigned storage_used *)
Debit(used, size) == IF size <= used THEN used - size ELSE 0

-----------------------------------------------------------------------------
(* Row locks and transactions                                              *)

(* phases whose statement runs on a connection of its own *)
Autocommit == {"debitNow", "leavePool"}

(* the files_users row that the handler names is one of the caller *)
Related(r) == fileUser[req[r].file] = req[r].user

(* the statement of r needs a row that the transaction of q has written *)
BlockedBy(r, q) ==
    /\ q # r \/ pc[r] = "leavePool"
    /\ \/ pc[r] \in {"debit", "debitNow", "charge"}
          /\ txUsed[q][req[r].user] # NoWrite
       \/ pc[r] = "credit" /\ txUsed[q][fileUser[req[r].next]] # NoWrite
       \/ pc[r] = "deleteRow" /\ txRow[q][req[r].file] # None
       \/ /\ pc[r] = "deletePermission" /\ Related(r)
          /\ txPerm[q][req[r].file] # None
       \/ pc[r] = "giveOwner" /\ txPerm[q][req[r].next] # None
       \/ pc[r] = "leavePool" /\ txRow[q][req[r].next] # None

Waiting(r) == /\ txSt[r] = "open" \/ pc[r] \in Autocommit
              /\ \E q \in Reqs : BlockedBy(r, q)

(* A lock has one holder, so a set in which everyone waits for a member and
   is waited for by a member consists of cycles.  *)
InDeadlock(r) ==
    \E S \in SUBSET Reqs :
        /\ r \in S
        /\ \A a \in S : /\ pc[a] \notin Autocommit /\ txSt[a] = "open"
                        /\ \E b \in S : BlockedBy(a, b)
                        /\ \E b \in S : BlockedBy(b, a)

NoRows == [f \in FileIds |-> None]
NoUsed == [u \in Users |-> NoWrite]

(* the transaction of r ends in state st and its pending writes are gone *)
Discard(r, st) ==
    /\ txSt' = [txSt EXCEPT ![r] = st]
    /\ txRow' = [txRow EXCEPT ![r] = NoRows]
    /\ txPerm' = [txPerm EXCEPT ![r] = NoRows]
    /\ txUsed' = [txUsed EXCEPT ![r] = NoUsed]

(* the pending writes of r become the committed rows *)
Publish(r) ==
    /\ fileRow' = [f \in FileIds |-> IF txRow[r][f] = None THEN fileRow[f]
                                                          ELSE txRow[r][f]]
    /\ perm' = [f \in FileIds |-> IF txPerm[r][f] = None THEN perm[f]
                                                       ELSE txPerm[r][f]]
    /\ storage' = [u \in Users |-> IF txUsed[r][u] = NoWrite THEN storage[u]
                                                           ELSE txUsed[r][u]]

Goto(r, p) == pc' = [pc EXCEPT ![r] = p]

(* no request: what a free slot holds *)
NoRequest == [path |-> "none", user |-> CHOOSE u \in Users : TRUE,
              file |-> NoFile, cid |-> CHOOSE c \in Cids : TRUE,
              next |-> NoFile, used |-> 0, others |-> FALSE,
              copies |-> FALSE, perm |-> None]

(* the handler returns; a transaction it leaves open holds no locks here *)
Return(r) == /\ Goto(r, "idle")
             /\ req' = [req EXCEPT ![r] = NoRequest]
             /\ Discard(r, "none")

-----------------------------------------------------------------------------
Init ==
    LET Old(f) == f <= Len(Preload) IN
    /\ fileRow = [f \in FileIds |-> IF Old(f) THEN "live" ELSE "absent"]
    /\ perm = [f \in FileIds |-> IF Old(f) THEN Preload[f].perm ELSE None]
    /\ fileCid = [f \in FileIds |-> IF Old(f) THEN Preload[f].cid
                                              ELSE NoRequest.cid]
    /\ fileUser = [f \in FileIds |-> IF Old(f) THEN Preload[f].user
                                               ELSE NoRequest.user]
    /\ nextId = Len(Preload) + 1
    /\ s3 = {Preload[f].cid : f \in DOMAIN Preload}
    /\ storage = PreStorage /\ charged = PreStorage
    /\ pc = [r \in Reqs |-> "idle"]
    /\ req = [r \in Reqs |-> NoRequest]
    /\ txSt = [r \in Reqs |-> "none"]
    /\ txRow = [r \in Reqs |-> NoRows]
    /\ txPerm = [r \in Reqs |-> NoRows]
    /\ txUsed = [r \in Reqs |-> NoUsed]
    /\ up = [f \in FileIds |-> "none"]
    /\ halfShared = {}
    /\ started = 0 /\ crashes = 0

-----------------------------------------------------------------------------
(* A client calls a route.  q holds what the handler reads from it.        *)

Call(r, route, p, q) ==
    /\ route \in Handlers
    /\ pc[r] = "idle" /\ started < MaxRequests
    /\ started' = started + 1
    /\ req' = [req EXCEPT ![r] = q]
    /\ Goto(r, p)
    /\ txSt' = [txSt EXCEPT ![r] = "open"]
    /\ UNCHANGED <<dbVars, columns, s3, txRow, txPerm, txUsed, up, charged,
                   halfShared, crashes>>

(* POST /upload with one file; the uploader becomes its owner *)
PutUploadFiles(r, u, c) ==
    Call(r, "upload", "insert", [NoRequest EXCEPT !.path = "upload",
                                 !.user = u, !.cid = c, !.perm = "owner"])

(* POST /create: isInPool comes from the client, or is found out *)
CreateFile(r, u, c) ==
    \/ \E p \in {"owner", "shared"} :
          Call(r, "create", "insert", [NoRequest EXCEPT !.path = "create",
                                       !.user = u, !.cid = c, !.perm = p])
    \/ Call(r, "create", "head", [NoRequest EXCEPT !.path = "create",
                                  !.user = u, !.cid = c, !.perm = "owner"])

(* POST /pool/check with one file; the client sends IsOwner *)
CheckFilesExistInPool(r, u, c, p) ==
    Call(r, "pool", "poolHead", [NoRequest EXCEPT !.path = "pool",
                                 !.user = u, !.cid = c, !.perm = p])

(* POST /share/:shareType/:user: only a wallet is compared with the caller's,
   so v may be the caller's own e-mail address; the copy gets the content id
   that the client sends, which differs when it shares a decrypted copy.  The
   uid of a half-shared copy is in no listing and in no answer: nobody shares
   or deletes it.  *)
ShareFile(r, f, v, c) ==
    /\ fileRow[f] = "live" /\ perm[f] # None
    /\ Call(r, "share", "insert",
            [NoRequest EXCEPT !.path = "share", !.user = v, !.file = f,
                              !.cid = c, !.perm = "shared"])

(* DELETE /delete/:uid by any user: the row is found by its uid alone *)
DeleteFile(r, u, f) ==
    /\ fileRow[f] = "live" /\ perm[f] # None
    /\ Call(r, "delete", "holders",
            [NoRequest EXCEPT !.path = "delete", !.user = u,
                              !.file = f, !.cid = fileCid[f]])

-----------------------------------------------------------------------------
(* Statements                                                              *)

Ready(r, p) == pc[r] = p /\ ~Waiting(r)

(* a step that reads: only the fields of the request change *)
Reads(r, p, q) ==
    /\ req' = [req EXCEPT ![r] = q]
    /\ Goto(r, p)
    /\ UNCHANGED <<dbVars, columns, s3, txVars, up, charged, bounds>>

(* s3.HeadObject in CreateFile *)
HeadObject(r) ==
    /\ pc[r] = "head"
    /\ Reads(r, IF req[r].cid \in s3 THEN "holdersOfCid" ELSE "insert", req[r])

(* the file is in the pool when a user holds the content *)
DecideInPool(r) ==
    /\ pc[r] = "holdersOfCid"
    /\ Reads(r, "insert",
             [req[r] EXCEPT !.perm = IF Holders(req[r].cid) # {} THEN "shared"
                                                                 ELSE "owner"])

(* s3.HeadObject in CheckFilesExistInPool *)
HeadPoolObject(r) ==
    /\ pc[r] = "poolHead"
    /\ Reads(r, IF req[r].cid \in s3 THEN "insert" ELSE "commit", req[r])

(* mutant: the handler forgets the files_users row *)
TxCreateFileOnly(r) ==
    /\ pc[r] = "insert" /\ req[r].path # "share" /\ nextId \in FileIds
    /\ fileCid' = [fileCid EXCEPT ![nextId] = req[r].cid]
    /\ fileUser' = [fileUser EXCEPT ![nextId] = req[r].user]
    /\ nextId' = nextId + 1
    /\ txRow' = [txRow EXCEPT ![r][nextId] = "live"]
    /\ Goto(r, "readUsed")
    /\ UNCHANGED <<dbVars, s3, req, txSt, txPerm, txUsed, up, charged, bounds>>

(* the rows of `files` and `files_users`; an upload also starts its goroutine *)
TxCreate(r) ==
    /\ pc[r] = "insert" /\ req[r].path # "share" /\ nextId \in FileIds
    /\ fileCid' = [fileCid EXCEPT ![nextId] = req[r].cid]
    /\ fileUser' = [fileUser EXCEPT ![nextId] = req[r].user]
    /\ nextId' = nextId + 1
    /\ txRow' = [txRow EXCEPT ![r][nextId] = "live"]
    /\ txPerm' = [txPerm EXCEPT ![r][nextId] = req[r].perm]
    /\ up' = IF req[r].path = "upload" THEN [up EXCEPT ![nextId] = "running"]
                                       ELSE up
    /\ Goto(r, IF req[r].path = "pool" THEN "commit" ELSE "readUsed")
    /\ UNCHANGED <<dbVars, s3, req, txSt, txUsed, charged, bounds>>

(* the first transaction of a share: the copy of the row is committed alone *)
CommitSharedCopy(r) ==
    /\ pc[r] = "insert" /\ req[r].path = "share" /\ nextId \in FileIds
    /\ fileCid' = [fileCid EXCEPT ![nextId] = req[r].cid]
    /\ fileUser' = [fileUser EXCEPT ![nextId] = req[r].user]
    /\ nextId' = nextId + 1
    /\ fileRow' = [fileRow EXCEPT ![nextId] = "live"]
    /\ req' = [req EXCEPT ![r].next = nextId]
    /\ Goto(r, "relate")
    /\ UNCHANGED <<perm, storage, s3, txVars, up, charged, bounds>>

(* the second: its files_users row, its share state and its link *)
CommitSharedRelation(r) ==
    /\ pc[r] = "relate"
    /\ perm' = [perm EXCEPT ![req[r].next] = "shared"]
    /\ Return(r)
    /\ UNCHANGED <<fileRow, storage, columns, s3, up, charged, bounds>>

(* one of its statements fails, as when another share has the same link: it is
   rolled back and the answer is 500, but the copy is committed *)
SharedRelationFails(r) ==
    /\ pc[r] = "relate"
    /\ halfShared' = halfShared \cup {req[r].next}
    /\ Return(r)
    /\ UNCHANGED <<dbVars, columns, s3, up, charged, started, crashes>>

(* FindUserDetailByUserID reads storage_used before it is written back *)
ReadUsed(r) ==
    /\ pc[r] = "readUsed"
    /\ Reads(r, CASE req[r].path = "owner" -> "debit"
                  [] req[r].path = "sole" -> "debitNow"
                  [] OTHER -> "charge",
             [req[r] EXCEPT !.used = storage[req[r].user]])

(* a write to user_details in the transaction; adding is what it adds *)
WriteUsed(r, u, used, adding) ==
    /\ txSt[r] = "open"
    /\ txUsed' = [txUsed EXCEPT ![r][u] = used]
    /\ charged' = [charged EXCEPT ![u] = @ + adding]
    /\ UNCHANGED <<dbVars, columns, s3, req, txSt, txRow, txPerm, up, bounds>>

Charge(r) ==
    /\ Ready(r, "charge")
    /\ LET size == SizeOf[req[r].cid] IN
       WriteUsed(r, req[r].user, req[r].used + size, size)
    /\ Goto(r, "commit")

(* a failed tx.Commit() is not noticed: the answer is 200 all the same *)
Commit(r) ==
    /\ pc[r] = "commit"
    /\ \/ txSt[r] = "open" /\ Publish(r)
       \/ txSt[r] # "open" /\ UNCHANGED dbVars
    /\ Return(r)
    /\ UNCHANGED <<columns, s3, up, charged, bounds>>

-----------------------------------------------------------------------------
(* Statements of DeleteFile                                                *)

FindUsersByFileCID(r) ==
    /\ pc[r] = "holders"
    /\ Reads(r, "copies",
             [req[r] EXCEPT !.others = AtLeastTwo(Holders(req[r].cid))])

(* with no other row of the content the object itself is removed *)
FindFilesByUserAndFileCID(r) ==
    LET copies == AtLeastTwo(CopiesOf(req[r].user, req[r].cid)) IN
    /\ pc[r] = "copies"
    /\ \/ /\ req[r].others \/ copies
          /\ Reads(r, "isOwner", [req[r] EXCEPT !.copies = copies])
       \/ /\ ~req[r].others /\ ~copies
          /\ Reads(r, "s3Delete", [req[r] EXCEPT !.path = "sole"])

IsFileOwner(r) ==
    LET isOwner == Related(r) /\ perm[req[r].file] = "owner" IN
    /\ pc[r] = "isOwner"
    /\ \/ /\ isOwner
          /\ Reads(r, "readUsed", [req[r] EXCEPT !.path = "owner"])
       \/ /\ ~isOwner
          /\ Reads(r, "deleteRow", [req[r] EXCEPT !.path = "shared"])

(* S3 may fail; the error is logged *)
DeleteFileFromS3(r) ==
    /\ pc[r] = "s3Delete"
    /\ s3' \in {s3, s3 \ {req[r].cid}}
    /\ Goto(r, "readUsed")
    /\ UNCHANGED <<dbVars, columns, req, txVars, up, charged, bounds>>

DebitOwner(r) ==
    /\ Ready(r, "debit")
    /\ WriteUsed(r, req[r].user, Debit(req[r].used, SizeOf[req[r].cid]), 0)
    /\ Goto(r, "deleteRow")

(* user_detail.Update: not part of the transaction *)
DebitNow(r) ==
    /\ Ready(r, "debitNow")
    /\ storage' = [storage EXCEPT ![req[r].user] =
                                    Debit(req[r].used, SizeOf[req[r].cid])]
    /\ Goto(r, "deleteRow")
    /\ UNCHANGED <<fileRow, perm, columns, s3, req, txVars, up, charged, bounds>>

DeleteFileUser(r) ==
    /\ Ready(r, "deleteRow") /\ txSt[r] = "open"
    /\ txRow' = [txRow EXCEPT ![r][req[r].file] = "deleted"]
    /\ Goto(r, "deletePermission")
    /\ UNCHANGED <<dbVars, columns, s3, req, txSt, txPerm, txUsed, up, charged,
                   bounds>>

(* mutant: db.Db() instead of tx *)
DeleteFilePermissionNow(r) ==
    /\ Ready(r, "deletePermission") /\ txSt[r] = "open"
    /\ perm' = IF Related(r) THEN [perm EXCEPT ![req[r].file] = "deleted"]
                             ELSE perm
    /\ Goto(r, IF req[r].path = "owner" THEN "nextOwner" ELSE "commit")
    /\ UNCHANGED <<fileRow, storage, columns, s3, req, txVars, up, charged,
                   bounds>>

(* WHERE file_id AND user_id: no row of another user is affected *)
DeleteFilePermission(r) ==
    /\ Ready(r, "deletePermission") /\ txSt[r] = "open"
    /\ txPerm' = IF Related(r)
                 THEN [txPerm EXCEPT ![r][req[r].file] = "deleted"]
                 ELSE txPerm
    /\ Goto(r, IF req[r].path = "owner" THEN "nextOwner" ELSE "commit")
    /\ UNCHANGED <<dbVars, columns, s3, req, txSt, txRow, txUsed, up, charged,
                   bounds>>

(* The nil UserDetail of user 0 is dereferenced: gin recovers, and nothing
   ends the transaction. *)
Panic(r) == Reads(r, "panicked", req[r])

(* An error when the file is already deleted.  Otherwise the second newest
   live row of the content, if there is one and it has a user. *)
GetNextOwner(r) ==
    LET f == req[r].file
        Next2(g) == SecondNewest(g, req[r].cid) /\ perm[g] # None
    IN  /\ pc[r] = "nextOwner"
        /\ \/ /\ fileRow[f] # "live"
              /\ Reads(r, IF req[r].copies THEN "nextCopy" ELSE "commit", req[r])
           \/ /\ fileRow[f] = "live"
              /\ \E g \in FileIds :
                    /\ Next2(g)
                    /\ Reads(r, "giveOwner", [req[r] EXCEPT !.next = g])
           \/ /\ fileRow[f] = "live"
              /\ \A g \in FileIds : ~Next2(g)
              /\ Panic(r)

(* files[1], or files[0] of a list of one; of an empty list, a panic *)
GetNextFileUser(r) ==
    LET L == LiveRows(req[r].cid)
        Pick(g) == \/ SecondNewest(g, req[r].cid)
                   \/ L = {g}
        Mine(g) == fileUser[g] = req[r].user /\ perm[g] # None
    IN  /\ pc[r] = "nextCopy"
        /\ \/ L = {} /\ Panic(r)
           \/ \E g \in L :
                 /\ Pick(g) /\ Mine(g)
                 /\ Reads(r, "giveOwner",
                          [req[r] EXCEPT !.next = g, !.path = "own"])
           \/ /\ \E g \in L : Pick(g) /\ ~Mine(g)
              /\ Reads(r, "commit", req[r])

AfterOwnership(r) == IF req[r].path = "own" THEN "leavePool" ELSE "readNextUsed"

(* mutant: the wrong constant *)
SetSharedPermission(r) ==
    /\ Ready(r, "giveOwner") /\ txSt[r] = "open"
    /\ txPerm' = [txPerm EXCEPT ![r][req[r].next] = "shared"]
    /\ Goto(r, AfterOwnership(r))
    /\ UNCHANGED <<dbVars, columns, s3, req, txSt, txRow, txUsed, up, charged,
                   bounds>>

SetOwnerPermision(r) ==
    /\ Ready(r, "giveOwner") /\ txSt[r] = "open"
    /\ txPerm' = [txPerm EXCEPT ![r][req[r].next] = "owner"]
    /\ Goto(r, AfterOwnership(r))
    /\ UNCHANGED <<dbVars, columns, s3, req, txSt, txRow, txUsed, up, charged,
                   bounds>>

ReadNextUsed(r) ==
    /\ pc[r] = "readNextUsed"
    /\ Reads(r, "credit",
             [req[r] EXCEPT !.used = storage[fileUser[req[r].next]]])

(* mutant: Update, on a connection of its own, instead of TxUpdate *)
CreditNextOwnerNow(r) ==
    LET u == fileUser[req[r].next] IN
    /\ pc[r] = "credit" /\ \A q \in Reqs : txUsed[q][u] = NoWrite
    /\ storage' = [storage EXCEPT ![u] = req[r].used + SizeOf[req[r].cid]]
    /\ Goto(r, "commit")
    /\ UNCHANGED <<fileRow, perm, columns, s3, req, txVars, up, charged, bounds>>

CreditNextOwner(r) ==
    /\ Ready(r, "credit")
    /\ LET size == SizeOf[req[r].cid] IN
       WriteUsed(r, fileUser[req[r].next], req[r].used + size, size)
    /\ Goto(r, "commit")

(* on a connection of its own; is_in_pool itself is not modelled *)
SetNextFileInPool(r) ==
    /\ Ready(r, "leavePool")
    /\ Reads(r, "commit", req[r])

-----------------------------------------------------------------------------
(* Statements of a transaction that has ended                              *)

(* the handler answers 500 *)
StatementFails(r) ==
    /\ pc[r] \in {"charge", "deleteRow", "deletePermission"}
    /\ txSt[r] # "open"
    /\ Return(r)
    /\ UNCHANGED <<dbVars, columns, s3, up, charged, bounds>>

(* the error is logged, or not even looked at *)
StatementFailsUnnoticed(r) ==
    /\ pc[r] \in {"debit", "giveOwner", "credit"} /\ txSt[r] # "open"
    /\ Reads(r, CASE pc[r] = "debit" -> "deleteRow"
                  [] pc[r] = "giveOwner" -> AfterOwnership(r)
                  [] OTHER -> "commit", req[r])

(* PostgreSQL aborts a transaction of a cycle; its statement then fails *)
DeadlockVictim(r) ==
    /\ InDeadlock(r)
    /\ Discard(r, "aborted")
    /\ UNCHANGED <<dbVars, columns, s3, pc, req, up, charged, bounds>>

-----------------------------------------------------------------------------
(* The goroutine that PutUploadFiles starts, and the process               *)

UploadDone(f) ==
    /\ up[f] = "running"
    /\ up' = [up EXCEPT ![f] = "done"]
    /\ s3' = s3 \cup {fileCid[f]}
    /\ UNCHANGED <<dbVars, columns, pc, req, txVars, charged, bounds>>

(* tx.Rollback() in the goroutine, while the handler may still use the
   transaction; a statement that runs is waited for *)
UploadFail(f) ==
    /\ up[f] = "running"
    /\ up' = [up EXCEPT ![f] = "failed"]
    /\ \/ \E r \in Reqs : /\ txRow[r][f] = "live" /\ ~Waiting(r)
                          /\ Discard(r, "closed")
       \/ /\ \A r \in Reqs : txRow[r][f] # "live"
          /\ UNCHANGED txVars
    /\ UNCHANGED <<dbVars, columns, s3, pc, req, charged, bounds>>

(* the process dies with its goroutines; PostgreSQL rolls back *)
Crash ==
    /\ crashes < MaxCrashes
    /\ crashes' = crashes + 1
    /\ pc' = [r \in Reqs |-> "idle"]
    /\ req' = [r \in Reqs |-> NoRequest]
    /\ txSt' = [r \in Reqs |-> "none"]
    /\ txRow' = [r \in Reqs |-> NoRows]
    /\ txPerm' = [r \in Reqs |-> NoRows]
    /\ txUsed' = [r \in Reqs |-> NoUsed]
    /\ up' = [f \in FileIds |-> IF up[f] = "running" THEN "failed" ELSE up[f]]
    /\ halfShared' = halfShared \cup
                       {req[r].next : r \in {q \in Reqs : pc[q] = "relate"}}
    /\ UNCHANGED <<dbVars, columns, s3, charged, started>>

-----------------------------------------------------------------------------
Calls(r) ==
    \/ \E u \in Users, c \in Cids :
          \/ PutUploadFiles(r, u, c)
          \/ CreateFile(r, u, c)
          \/ \E p \in {"owner", "shared"} : CheckFilesExistInPool(r, u, c, p)
    \/ \E f \in FileIds :
          \/ \E v \in Users, c \in Cids : ShareFile(r, f, v, c)
          \/ \E u \in Users : DeleteFile(r, u, f)

Step(r) ==
    \/ HeadObject(r) \/ DecideInPool(r) \/ HeadPoolObject(r)
    \/ TxCreate(r) \/ CommitSharedCopy(r) \/ CommitSharedRelation(r)
    \/ SharedRelationFails(r)
    \/ ReadUsed(r) \/ Charge(r) \/ Commit(r)
    \/ FindUsersByFileCID(r) \/ FindFilesByUserAndFileCID(r) \/ IsFileOwner(r)
    \/ DeleteFileFromS3(r) \/ DebitOwner(r) \/ DebitNow(r)
    \/ DeleteFileUser(r) \/ DeleteFilePermission(r)
    \/ GetNextOwner(r) \/ GetNextFileUser(r) \/ SetOwnerPermision(r)
    \/ ReadNextUsed(r) \/ CreditNextOwner(r) \/ SetNextFileInPool(r)
    \/ StatementFails(r) \/ StatementFailsUnnoticed(r) \/ DeadlockVictim(r)

Next ==
    \/ \E r \in Reqs : Calls(r) \/ Step(r)
    \/ \E f \in FileIds : UploadDone(f) \/ UploadFail(f)
    \/ Crash

(* Goroutines are scheduled and I/O ends; nobody has to call a route. *)
Fairness == /\ \A r \in Reqs : WF_vars(Step(r))
            /\ \A f \in FileIds : WF_vars(UploadDone(f) \/ UploadFail(f))

Spec == Init /\ [][Next]_vars /\ Fairness

-----------------------------------------------------------------------------
(* Properties for any interleaving, with crashes                           *)

(* storage_used of a user never exceeds what requests have added to it: no
   lost update, abort, crash or clamped subtraction invents bytes (and the
   unsigned column never wraps around).  *)
StorageNeverExceedsCharges == \A u \in Users : storage[u] <= charged[u]

(* DeleteFile takes the permission of a file away only together with the row
   of the file, whichever of its statements failed on the way. *)
LiveFilesKeepPermission ==
    \A f \in FileIds : perm[f] = "deleted" => fileRow[f] = "deleted"

(* Nobody revives a deleted row, and a live row never loses its user or its
   owner: a step only relates it (share) or makes its user the owner. *)
LiveFilesKeepTheirUser ==
    [][\A f \in FileIds :
         /\ fileRow[f] = "deleted" => fileRow'[f] = "deleted"
         /\ fileRow[f] = "live" /\ fileRow'[f] = "live" =>
              \/ perm'[f] = perm[f]
              \/ perm[f] = None /\ perm'[f] = "shared"
              \/ perm[f] = "shared" /\ perm'[f] = "owner"]_vars

(* A live row without a user is a share between its two commits, or what a
   rolled back second transaction, or a crash between the two, left of one; every
   other handler inserts both rows in one go. *)
FilesHaveUsers ==
    \A f \in FileIds :
        fileRow[f] = "live" /\ perm[f] = None =>
            \/ \E r \in Reqs : pc[r] = "relate" /\ req[r].next = f
            \/ f \in halfShared

-----------------------------------------------------------------------------
(* Properties of requests that run one after the other                     *)

Deleting(f) == \E r \in Reqs : /\ req[r].path \in {"owner", "own", "shared", "sole"}
                               /\ req[r].file = f

(* The object of an uploaded file stays in the bucket for as long as a user
   has the file: DeleteFile removes it only with the last row of its CID. *)
UploadedFilesKeepObject ==
    \A f \in FileIds :
        /\ fileRow[f] = "live" /\ perm[f] # None
        /\ up[f] = "done" \/ f <= Len(Preload)
        => fileCid[f] \in s3 \/ Deleting(f)

(* The handlers of this module never dereference the detail of no user. *)
NoHandlerPanics == \A r \in Reqs : pc[r] # "panicked"

(* a copy of the content that a failed share left without a user *)
HalfSharedCopy(c) == LiveRows(c) \cap halfShared # {}

(* A delete that nothing overlaps neither takes an object that a row still needs
   nor looks for a next owner that is not there, except that the row it chooses
   may be the copy of a failed share, which has no user.  *)
DeletesAreSafe ==
    /\ UploadedFilesKeepObject
    /\ \A r \in Reqs : pc[r] = "panicked" => HalfSharedCopy(req[r].cid)

(* the rows ever inserted, those of a user, and what files add up to *)
Inserted == {f \in FileIds : f < nextId}
RowsOf(u) == {f \in Inserted : fileUser[f] = u}
LiveRowsOf(u) == {f \in RowsOf(u) : fileRow[f] = "live"}
Size(S) == SumFunctionOnSet([f \in FileIds |-> SizeOf[fileCid[f]]], S)

NoCopies == \A f, g \in Inserted : f # g => fileCid[f] # fileCid[g]

(* only the user of a row has deleted it: its files_users row says so *)
OwnDeletes == \A f \in Inserted : fileRow[f] = "deleted" => perm[f] = "deleted"

(* As long as every row ever inserted has a content of its own, was charged to its
   user (pool and share do not charge) and was deleted, if at all, by its user,
   storage_used is the size of the user's live files whenever no request is in
   flight: what uploads and creations add, deletions take back. *)
StorageExactWithoutCopies ==
    /\ \A r \in Reqs : pc[r] = "idle"
    /\ NoCopies
    /\ OwnDeletes
    /\ \A u \in Users : charged[u] = Size(RowsOf(u))
    => \A u \in Users : storage[u] = Size(LiveRowsOf(u))

(* Every call is answered, a panicking one by gin's recovery: no statement waits
   for a lock forever. *)
RequestsAreAnswered == \A r \in Reqs : pc[r] # "idle" ~> pc[r] \in {"idle", "panicked"}

(* Some holder of a content is its owner whenever no request is in flight:
   DeleteFile gives the ownership of a deleted file to another user of it. *)
CidHasOwner ==
    (\A r \in Reqs : pc[r] = "idle") =>
        \A c \in Cids :
            Holders(c) # {} => \E f \in Holders(c) : perm[f] = "owner"

(* DeleteFile never leaves its caller with more storage_used than before. *)
DeleteNeverRaisesOwnStorage ==
    [][\A r \in Reqs :
         /\ pc[r] = "commit" /\ pc'[r] = "idle"
         /\ req[r].path \in {"owner", "own", "shared", "sole"}
         => storage'[req[r].user] <= storage[req[r].user]]_vars
=============================================================================
