----------------------------- MODULE ApiKeyFiles -----------------------------
(***************************************************************************)
(* The files that programs keep through an API key: api/v1.                *)
(*                                                                         *)
(* One step is one SQL statement, call of S3 or commit.  Every request     *)
(* first counts itself in the row of its key; what it then writes through  *)
(* its transaction is seen when that commits.  The uploads of a request    *)
(* are goroutines that may outlive it, and one that fails rolls the        *)
(* transaction back if it is still there.  Files are named by the request  *)
(* and the content they were made from.  A user names its own files.       *)
(*                                                                         *)
(* Left out: names, types and folders of files, pages of the listing.      *)
(***************************************************************************)
EXTENDS Integers, FiniteSets, FiniteSetsExt, Functions

CONSTANTS
    Users, Contents,
    SizeOf,         \* of a content
    Uploads,        \* the sets of contents that a request of each user creates
                    \* files from
    Kinds,          \* of requests, of each user
    Resizes,        \* whether an update may bring another size
    MaxRequests,    \* bound: requests ever made
    MaxInFlight,    \* bound: requests at a time
    MaxFaults,      \* bound: statements and calls that fail, and crashes
    MaxFaulty       \* bound: requests made before the last of them

AllKinds == {"create", "delete", "update", "download", "list"}

ASSUME ConstantsAssumption ==
    /\ SizeOf \in [Contents -> Nat \ {0}]
    /\ Users # {}
    /\ Uploads \in [Users -> SUBSET SUBSET Contents]
    /\ \A u \in Users : \A cs \in Uploads[u] : IsFiniteSet(cs)
    /\ Kinds \in [Users -> SUBSET AllKinds]
    /\ Resizes \in BOOLEAN /\ MaxRequests \in Nat /\ MaxInFlight \in Nat
    /\ MaxFaults \in Nat /\ MaxFaulty \in Nat

Requests == 1..MaxRequests
Files == Requests \X Contents

VARIABLES
    row,        \* files: its deleted_at and size
    permission, \* files_users
    listed,     \* api_key_files
    used,       \* user_details.storage_used
    counted,    \* api_keys.key_requests
    objects,    \* S3: the keys that have an object
    pc,
    req,        \* what was asked, what is left to create, the counter last read
    tx,
    uploads,    \* the goroutines that put the object of a file
    (* history and bounds *)
    lost,       \* the files whose upload failed, or was lost in a crash, or whose
                \* rows a commit failed to write
    calm,       \* no request began before another had ended, and none failed
    faults

rows == <<row, permission, listed, used>>
vars == <<row, permission, listed, used, counted, objects, pc, req, tx, uploads,
          lost, calm, faults>>

UserOf(f) == req[f[1]].user
ContentOf(f) == f[2]

NoFile == <<0, CHOOSE c \in Contents : TRUE>>
NoWrite == -1
NoTx == [open |-> FALSE, inserted |-> {}, deleted |-> {}, used |-> NoWrite]
NewTx == [NoTx EXCEPT !.open = TRUE]

(* "left": with its transaction open *)
Ended == {"ok", "failed", "left", "lost"}
Steps == {"readKey", "saveKey", "file", "readUsed", "writeUsed", "find",
          "object", "rows", "save", "fetch", "list", "commit"}

Row(s, n) == [state |-> s, size |-> n]
Request(k, u, cs, f, n) ==
    [kind |-> k, user |-> u, contents |-> cs, todo |-> cs, file |-> f,
     size |-> n, seen |-> 0]

TypeOK ==
    /\ row \in [Files -> [state : {"none", "live", "deleted"}, size : Nat]]
    /\ permission \in [Files -> {"none", "owner", "deleted"}]
    /\ listed \subseteq Files
    /\ used \in [Users -> Nat] /\ counted \in [Users -> Nat]
    /\ objects \subseteq Contents \X Users
    /\ pc \in [Requests -> {"idle"} \cup Steps \cup Ended]
    /\ req \in [Requests -> [kind : AllKinds \cup {"none"}, user : Users,
                             contents : SUBSET Contents, todo : SUBSET Contents,
                             file : Files \cup {NoFile}, size : Nat,
                             seen : Nat]]
    /\ tx \in [Requests -> [open : BOOLEAN, inserted : SUBSET Files,
                            deleted : SUBSET Files, used : Nat \cup {NoWrite}]]
    /\ uploads \subseteq Files /\ lost \subseteq Files
    /\ calm \in BOOLEAN /\ faults \in 0..MaxFaults

Init ==
    /\ row = [f \in Files |-> Row("none", 0)]
    /\ permission = [f \in Files |-> "none"] /\ listed = {}
    /\ used = [u \in Users |-> 0] /\ counted = [u \in Users |-> 0]
    /\ objects = {}
    /\ pc = [r \in Requests |-> "idle"]
    /\ req = [r \in Requests |->
                Request("none", CHOOSE u \in Users : TRUE, {}, NoFile, 0)]
    /\ tx = [r \in Requests |-> NoTx]
    /\ uploads = {} /\ lost = {} /\ calm = TRUE /\ faults = 0

-----------------------------------------------------------------------------
InFlight == {r \in Requests : pc[r] \in Steps}

(* mutant: without the user, as in the pool *)
PoolKey(c, u) == <<c, CHOOSE v \in Users : TRUE>>

(* the content and the user *)
KeyPath(c, u) == <<c, u>>

KeyOf(f) == KeyPath(ContentOf(f), UserOf(f))

Live(f) == row[f].state = "live"

Goes(r, step) == pc' = [pc EXCEPT ![r] = step]
Forgets(r) == req' = [req EXCEPT ![r].seen = 0]
At(r, step) == pc[r] = step /\ UNCHANGED <<calm, faults>>

Begins(r, request, transaction) ==
    /\ pc[r] = "idle" /\ \A q \in Requests : pc[q] = "idle" => r <= q
    /\ request.kind \in Kinds[request.user] /\ Cardinality(InFlight) < MaxInFlight
    /\ Goes(r, "readKey")
    /\ req' = [req EXCEPT ![r] = request]
    /\ tx' = [tx EXCEPT ![r] = transaction]
    /\ calm' = (calm /\ InFlight = {})
    /\ UNCHANGED <<rows, counted, objects, uploads, lost, faults>>

FileCreate(r, u, cs) == Begins(r, Request("create", u, cs, NoFile, 0), NewTx)

FileUpdate(r, f, n) ==
    /\ row[f].state # "none" /\ (~Resizes => n = row[f].size)
    /\ Begins(r, Request("update", UserOf(f), {}, f, n), NewTx)

DeleteFile(r, f) ==
    /\ row[f].state # "none"
    /\ Begins(r, Request("delete", UserOf(f), {}, f, 0), NoTx)

DownloadFile(r, f) ==
    /\ row[f].state # "none"
    /\ Begins(r, Request("download", UserOf(f), {}, f, 0), NoTx)

GetFiles(r, u) == Begins(r, Request("list", u, {}, NoFile, 0), NoTx)

-----------------------------------------------------------------------------
(* FindApiKeyByUserID and IncrementKeyRequests *)

AfterKey(r) ==
    CASE req[r].kind = "create" -> "file"
      [] req[r].kind = "list" -> "list"
      [] OTHER -> "find"

ReadKey(r) ==
    /\ At(r, "readKey") /\ Goes(r, "saveKey")
    /\ req' = [req EXCEPT ![r].seen = counted[req[r].user]]
    /\ UNCHANGED <<rows, counted, objects, tx, uploads, lost>>

(* mutant: counted again *)
SaveKeyTwice(r) ==
    /\ At(r, "saveKey") /\ Goes(r, AfterKey(r))
    /\ counted' = [counted EXCEPT ![req[r].user] = req[r].seen + 2]
    /\ Forgets(r) /\ UNCHANGED <<rows, objects, tx, uploads, lost>>

SaveKey(r) ==
    /\ At(r, "saveKey") /\ Goes(r, AfterKey(r))
    /\ counted' = [counted EXCEPT ![req[r].user] = req[r].seen + 1]
    /\ Forgets(r) /\ UNCHANGED <<rows, objects, tx, uploads, lost>>

-----------------------------------------------------------------------------
(* FileCreate *)

(* the rows of the next file and its upload; no statement succeeds in a
   transaction that an upload has rolled back *)
CreateFile(r) ==
    /\ At(r, "file") /\ req[r].todo # {}
    /\ \/ /\ tx[r].open
          /\ \E c \in req[r].todo :
                /\ req' = [req EXCEPT ![r].todo = @ \ {c}]
                /\ tx' = [tx EXCEPT ![r].inserted = @ \cup {<<r, c>>}]
                /\ uploads' = uploads \cup {<<r, c>>}
          /\ UNCHANGED pc
       \/ /\ ~tx[r].open
          /\ Goes(r, "failed") /\ UNCHANGED <<req, tx, uploads>>
    /\ UNCHANGED <<rows, counted, objects, lost>>

(* mutant: the size of the last file *)
LastSize(r) == Max({SizeOf[c] : c \in req[r].contents})

TotalSize(r) == SumFunctionOnSet(SizeOf, req[r].contents)

UploadSucceeds(f) ==
    /\ f \in uploads
    /\ uploads' = uploads \ {f} /\ objects' = objects \cup {KeyOf(f)}
    /\ UNCHANGED <<rows, counted, pc, req, tx, lost, calm, faults>>

-----------------------------------------------------------------------------
(* user_details, for FileCreate and DeleteFile *)

(* outside the transaction *)
ReadUsed(r) ==
    /\ \/ At(r, "readUsed")
       \/ At(r, "file") /\ req[r].todo = {}        \* all files are created
    /\ Goes(r, "writeUsed")
    /\ req' = [req EXCEPT ![r].seen = used[req[r].user]]
    /\ UNCHANGED <<rows, counted, objects, tx, uploads, lost>>

(* mutant: the guard is gone *)
PlainDifference(n, size) == n - size

Debited(n, size) == IF size < n THEN n - size ELSE 0

(* the row is locked by the transaction that has updated it *)
UsedIsLocked(u) ==
    \E q \in Requests : tx[q].open /\ tx[q].used # NoWrite /\ req[q].user = u

WriteUsed(r) ==
    /\ At(r, "writeUsed")
    /\ \/ /\ tx[r].open /\ ~UsedIsLocked(req[r].user)
          /\ \/ /\ req[r].kind = "create" /\ Goes(r, "commit")
                /\ tx' = [tx EXCEPT ![r].used = req[r].seen + TotalSize(r)]
             \/ /\ req[r].kind = "delete" /\ Goes(r, "rows")
                /\ tx' = [tx EXCEPT ![r].used = Debited(req[r].seen, req[r].size)]
       \/ ~tx[r].open /\ Goes(r, "failed") /\ UNCHANGED tx
    /\ Forgets(r) /\ UNCHANGED <<rows, counted, objects, uploads, lost>>

-----------------------------------------------------------------------------
(* DeleteFile, FileUpdate and DownloadFile: FindFileByUID *)

AfterFind(r) ==
    CASE req[r].kind = "delete" -> "object"
      [] req[r].kind = "update" -> "save"
      [] req[r].kind = "download" -> "fetch"

(* mutant: Unscoped, deleted rows too *)
FindDeletedToo(r) ==
    LET f == req[r].file IN
    /\ At(r, "find") /\ Goes(r, AfterFind(r))
    /\ req' = [req EXCEPT ![r].size =
                    IF req[r].kind = "delete" THEN row[f].size ELSE @]
    /\ tx' = [tx EXCEPT ![r] = IF req[r].kind = "delete" THEN NewTx ELSE @]
    /\ UNCHANGED <<rows, counted, objects, uploads, lost>>

(* an update keeps the new size, a delete the one that it will debit *)
FindFile(r) ==
    LET f == req[r].file IN
    /\ At(r, "find")
    /\ \/ /\ Live(f) /\ Goes(r, AfterFind(r))
          /\ req' = [req EXCEPT ![r].size =
                        IF req[r].kind = "delete" THEN row[f].size ELSE @]
          /\ tx' = [tx EXCEPT ![r] = IF req[r].kind = "delete" THEN NewTx ELSE @]
       \/ /\ ~Live(f) /\ Goes(r, IF tx[r].open THEN "left" ELSE "failed")
          /\ UNCHANGED <<req, tx>>
    /\ UNCHANGED <<rows, counted, objects, uploads, lost>>

(* whoever else has the content *)
DeleteFileFromS3(r) ==
    /\ At(r, "object") /\ Goes(r, "readUsed")
    /\ objects' = objects \ {KeyOf(req[r].file)}
    /\ UNCHANGED <<rows, counted, req, tx, uploads, lost>>

(* DeleteFileUser, DeleteApiKeyFileByFileID and DeleteFilePermission *)
DeleteRows(r) ==
    /\ At(r, "rows") /\ Goes(r, "commit")
    /\ tx' = [tx EXCEPT ![r].deleted = {req[r].file}]
    /\ UNCHANGED <<rows, counted, objects, req, uploads, lost>>

RowIsLocked(f) == \E q \in Requests : tx[q].open /\ f \in tx[q].deleted

(* all columns of the row that was found, outside the transaction; if the row is
   deleted by now, Save inserts it again.  The answer is "success", and a
   transaction without a statement commits.  *)
SaveFile(r) ==
    LET f == req[r].file IN
    /\ At(r, "save") /\ ~RowIsLocked(f)
    /\ row' = [row EXCEPT ![f] = Row("live", req[r].size)]
    /\ tx' = [tx EXCEPT ![r] = NoTx] /\ Goes(r, "ok")
    /\ UNCHANGED <<permission, listed, used, counted, objects, req, uploads, lost>>

(* no object has the key of the content alone *)
FetchObject(r) ==
    /\ At(r, "fetch")
    /\ Goes(r, IF KeyOf(req[r].file) \in objects THEN "ok" ELSE "failed")
    /\ UNCHANGED <<rows, counted, objects, req, tx, uploads, lost>>

(* the row of one file or of all that are listed *)
ListFiles(r) ==
    /\ At(r, "list") /\ Goes(r, "ok")
    /\ UNCHANGED <<rows, counted, objects, req, tx, uploads, lost>>

-----------------------------------------------------------------------------
(* mutant: the listing is left to a later clean-up *)
CommitButListed(r) ==
    /\ At(r, "commit") /\ Goes(r, "ok")
    /\ row' = [f \in Files |->
                CASE f \in tx[r].inserted -> Row("live", SizeOf[ContentOf(f)])
                  [] f \in tx[r].deleted -> [row[f] EXCEPT !.state = "deleted"]
                  [] OTHER -> row[f]]
    /\ permission' = [f \in Files |->
                        CASE f \in tx[r].inserted -> "owner"
                          [] f \in tx[r].deleted -> "deleted"
                          [] OTHER -> permission[f]]
    /\ listed' = listed \cup tx[r].inserted
    /\ used' = [used EXCEPT ![req[r].user] =
                    IF tx[r].used = NoWrite THEN @ ELSE tx[r].used]
    /\ tx' = [tx EXCEPT ![r] = NoTx]
    /\ UNCHANGED <<counted, objects, req, uploads, lost>>

(* mutant: every file in a transaction of its own, of which one is lost *)
CommitOneFile(r) ==
    /\ At(r, "commit") /\ Goes(r, "ok")
    /\ \E last \in {{}} \cup {{f} : f \in tx[r].inserted} :
        /\ row' = [f \in Files |->
                    CASE f \in tx[r].inserted \ last -> Row("live", SizeOf[ContentOf(f)])
                      [] f \in tx[r].deleted -> [row[f] EXCEPT !.state = "deleted"]
                      [] OTHER -> row[f]]
        /\ permission' = [f \in Files |->
                            CASE f \in tx[r].inserted \ last -> "owner"
                              [] f \in tx[r].deleted -> "deleted"
                              [] OTHER -> permission[f]]
        /\ listed' = (listed \ tx[r].deleted) \cup (tx[r].inserted \ last)
    /\ used' = [used EXCEPT ![req[r].user] =
                    IF tx[r].used = NoWrite THEN @ ELSE tx[r].used]
    /\ tx' = [tx EXCEPT ![r] = NoTx]
    /\ UNCHANGED <<counted, objects, req, uploads, lost>>

(* a transaction that is over commits nothing, and nobody asks *)
Commit(r) ==
    /\ At(r, "commit") /\ Goes(r, "ok")
    /\ row' = [f \in Files |->
                CASE f \in tx[r].inserted -> Row("live", SizeOf[ContentOf(f)])
                  [] f \in tx[r].deleted -> [row[f] EXCEPT !.state = "deleted"]
                  [] OTHER -> row[f]]
    /\ permission' = [f \in Files |->
                        CASE f \in tx[r].inserted -> "owner"
                          [] f \in tx[r].deleted -> "deleted"
                          [] OTHER -> permission[f]]
    /\ listed' = (listed \ tx[r].deleted) \cup tx[r].inserted
    /\ used' = [used EXCEPT ![req[r].user] =
                    IF tx[r].used = NoWrite THEN @ ELSE tx[r].used]
    /\ tx' = [tx EXCEPT ![r] = NoTx]
    /\ UNCHANGED <<counted, objects, req, uploads, lost>>

-----------------------------------------------------------------------------
(* Failures                                                                *)

Fault ==
    /\ faults < MaxFaults /\ Cardinality({r \in Requests : pc[r] # "idle"}) <= MaxFaulty
    /\ faults' = faults + 1 /\ calm' = FALSE

Rollback(r) == tx' = [tx EXCEPT ![r] = NoTx]

(* mutant: the error is returned, the transaction forgotten *)
ReturnOnly(r) == UNCHANGED tx

(* of a delete, which rolls back *)
DeleteFails(r) == Rollback(r)

(* in the goroutine, maybe under the eyes of the handler *)
UploadFails(f) ==
    /\ Fault /\ f \in uploads
    /\ uploads' = uploads \ {f} /\ lost' = lost \cup {f}
    /\ Rollback(f[1])
    /\ UNCHANGED <<rows, counted, objects, pc, req>>

StatementFails(r) ==
    /\ Fault
    /\ \/ pc[r] \in {"readKey", "saveKey"} /\ Goes(r, AfterKey(r)) /\ UNCHANGED tx
       \/ pc[r] = "find" /\ Goes(r, IF tx[r].open THEN "left" ELSE "failed")
          /\ UNCHANGED tx
       \/ pc[r] = "file" /\ Goes(r, "left") /\ UNCHANGED tx     \* GetCid, the root
       \/ pc[r] = "file" /\ Goes(r, "failed") /\ Rollback(r)
       \/ /\ \/ pc[r] = "readUsed"
             \/ pc[r] = "file" /\ req[r].todo = {}
          /\ Goes(r, "left") /\ UNCHANGED tx
       \/ /\ pc[r] = "writeUsed" /\ req[r].kind = "create"
          /\ Goes(r, "left") /\ UNCHANGED tx
       \/ pc[r] = "object" /\ Goes(r, "readUsed") /\ UNCHANGED tx
       \/ /\ \/ pc[r] = "rows"
             \/ pc[r] = "writeUsed" /\ req[r].kind = "delete"   \* fails at "rows"
          /\ Goes(r, "failed") /\ DeleteFails(r)
       \/ pc[r] = "save" /\ Goes(r, "ok") /\ Rollback(r)
       \/ pc[r] \in {"fetch", "list"} /\ Goes(r, "failed") /\ UNCHANGED tx
    /\ Forgets(r) /\ UNCHANGED <<rows, counted, objects, uploads, lost>>

(* the result of tx.Commit() is dropped: the answer is "success" *)
CommitFails(r) ==
    /\ Fault /\ pc[r] = "commit" /\ Goes(r, "ok")
    /\ Rollback(r) /\ lost' = lost \cup tx[r].inserted
    /\ UNCHANGED <<rows, counted, objects, req, uploads>>

Crash ==
    /\ Fault /\ (InFlight # {} \/ uploads # {})
    /\ pc' = [r \in Requests |-> IF r \in InFlight THEN "lost" ELSE pc[r]]
    /\ tx' = [r \in Requests |-> NoTx]
    /\ uploads' = {} /\ lost' = lost \cup uploads
    /\ req' = [r \in Requests |-> [req[r] EXCEPT !.seen = 0]]
    /\ UNCHANGED <<rows, counted, objects>>

-----------------------------------------------------------------------------
Arrives(r) ==
    \/ \E u \in Users : GetFiles(r, u) \/ \E cs \in Uploads[u] : FileCreate(r, u, cs)
    \/ \E f \in Files : \/ DeleteFile(r, f) \/ DownloadFile(r, f)
                        \/ \E c \in Contents : FileUpdate(r, f, SizeOf[c])

Step(r) ==
    \/ ReadKey(r) \/ SaveKey(r) \/ CreateFile(r) \/ ReadUsed(r)
    \/ WriteUsed(r) \/ FindFile(r) \/ DeleteFileFromS3(r) \/ DeleteRows(r)
    \/ SaveFile(r) \/ FetchObject(r) \/ ListFiles(r) \/ Commit(r)

Next ==
    \/ \E r \in Requests :
        Arrives(r) \/ Step(r) \/ StatementFails(r) \/ CommitFails(r)
    \/ \E f \in Files : UploadSucceeds(f) \/ UploadFails(f)
    \/ Crash

Spec == Init /\ [][Next]_vars

-----------------------------------------------------------------------------
(* The listing of a key names files that are there and belong to its user, even
   if an update and a delete of the same file overlap: what the update brings
   back stays unlisted.  *)
ListedFilesAreLive == \A f \in listed : Live(f) /\ permission[f] = "owner"

(* the only file that a user ever had of its content *)
IsSole(f) ==
    \A g \in Files : g # f /\ row[g].state # "none" =>
        UserOf(g) # UserOf(f) \/ ContentOf(g) # ContentOf(f)

(* A listed file has its object, or its upload is still under way or has failed,
   until the user asks for its delete, and unless the user had the same content
   in another file: whatever others do with the content, whatever overlaps and
   whatever fails.  *)
DeleteAsked(f) == \E r \in Requests : req[r].kind = "delete" /\ req[r].file = f

SoleFilesKeepObject ==
    \A f \in listed :
        IsSole(f) /\ ~DeleteAsked(f) =>
            KeyOf(f) \in objects \/ f \in uploads \cup lost

(* The list of a key, the rows of its files and the objects agree.  *)
KeyFilesInv == TypeOK /\ ListedFilesAreLive /\ SoleFilesKeepObject

(* A request that creates files leaves all of them or none, and all of them if it
   succeeds, unless one of its uploads or its commit has failed meanwhile, which
   the answer does not tell.  *)
CreatesAreWhole ==
    \A r \in Requests : req[r].kind = "create" =>
        LET made == {c \in req[r].contents : row[<<r, c>>].state # "none"} IN
        /\ made \in {{}, req[r].contents}
        /\ pc[r] = "ok" => \/ made = req[r].contents
                           \/ \E c \in req[r].contents : <<r, c>> \in lost

(* A key is never charged more requests than were made, and exactly those while
   they come one after the other.  *)
RequestsOf(u) ==
    Cardinality({r \in Requests : req[r].kind # "none" /\ req[r].user = u})

RequestsAreCounted ==
    \A u \in Users :
        /\ counted[u] <= RequestsOf(u)
        /\ calm /\ InFlight = {} => counted[u] = RequestsOf(u)

(* While requests come one after the other and nothing fails, a file that is
   deleted stays deleted.  *)
DeletedStayDeleted ==
    [][calm' => \A f \in Files :
            row[f].state = "deleted" => row'[f].state = "deleted"]_vars

(* Under the same condition storage_used is the size of the files of the user,
   as long as no update brings another size.  *)
LiveOf(u) == {f \in Files : UserOf(f) = u /\ Live(f)}

StorageIsExact ==
    calm /\ ~Resizes /\ InFlight = {} =>
        \A u \in Users :
            used[u] = SumFunctionOnSet([f \in Files |-> row[f].size], LiveOf(u))

(* No request that has ended keeps the detail or a file locked, however it ended:
   the others of the user would wait for it for ever.  *)
EndedHoldNoLock ==
    \A r \in Requests :
        tx[r].open /\ (tx[r].used # NoWrite \/ tx[r].deleted # {}) => pc[r] \in Steps

(* A request that is over has done all of what it answered: its files, its count
   and its storage are there, and the rows that it locked are free.  *)
RequestsInv ==
    /\ CreatesAreWhole
    /\ RequestsAreCounted
    /\ StorageIsExact
    /\ EndedHoldNoLock

-----------------------------------------------------------------------------
(* What the following say does not hold; the README tells why.             *)

(* "Delete the file from s3 if it exists" (api/v1/file_delete.go:69): a listed
   file whose upload has ended well can be downloaded *)
ListedFilesKeepObject ==
    \A f \in listed :
        ~DeleteAsked(f) => KeyOf(f) \in objects \/ f \in uploads \cup lost

(* "update the "deleted_at column" for this user" (api/v1/file_delete.go:89): for
   good *)
DeletesAreFinal ==
    [][\A f \in Files : row[f].state = "deleted" => row'[f].state = "deleted"]_vars

(* "removes storage_used from the database." (api/v1/file_delete.go:75): what the
   file was charged with *)
StorageFollowsUpdates ==
    calm /\ InFlight = {} =>
        \A u \in Users : (\A f \in Files : UserOf(f) = u => ~Live(f)) => used[u] = 0

(* "increment requests counter" (api/v1/file_upload.go:30) *)
CountersNeverFall == [][\A u \in Users : counted'[u] >= counted[u]]_vars
=============================================================================
