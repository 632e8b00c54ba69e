# Hello-Storage backend: TLA+ models, checks and proofs

This directory holds the formal models of the Go service in `src/`: a file storage
backend that keeps *metadata* in PostgreSQL (through gorm) and *contents* in an S3
bucket (Wasabi), with content addressed by CID so that several users' file rows may
share one object.

## 1. Inventory

### 1.1 Components

| component | code | state it keeps | operations |
|---|---|---|---|
| File lifecycle | `internal/api/file_upload.go`, `file_create.go`, `file_delete.go`, the share route of `file.go`, `internal/query/{file,file_user,user_detail}.go` | tables `files`, `files_users`, `user_details.storage_used`; S3 bucket | `PutUploadFiles`, `CheckFilesExistInPool`, `CreateFile`, share with a user, `DeleteFile` |
| Shared folders | `internal/api/folder.go`, `GetFilesSharedWithUser` and its helpers in `internal/query` | the tables of shared files, `public_files`, `folderMutex` | share a folder with everybody or with a user, open it |
| Folders | `internal/api/folder*.go`, `GetAndProcessFileRoot`, `internal/query/folder.go` | tables `folders`, `folders_users` | create, find-or-create path, move, share, recursive delete |
| Public links | `internal/api/file.go`, `internal/query/file_share.go` | `file_share_states`, `public_files`, `public_file_share_groups`, `share_groups`, and the `*_user_shared` tables | share state, publish (public / one-time / monthly), unpublish, open |
| Multipart upload | `internal/api/file_upload_multipart.go` | in-memory `uploadStates` under `statesMutex`; S3 multipart uploads | one request per chunk, asynchronous abort |
| API-key files | `internal/api/v1/*.go` | `api_key_files`, the file tables, S3 keys `CID+userID` | create, update, delete, list, download |
| Accounts | `internal/api/{otp_auth,auth,oauth,referrals}.go`, `internal/entity/user.go` | `users`, `emails`, `wallets`, `user_details`, `user_logins` | OTP start and verify, nonce, login, OAuth |
| Referrals | `internal/query/referral.go` | `referrals`, `user_details.referral_storage` | `CreateReferral`, `UpdateReferralStorage` |
| Statistics jobs | `internal/api/{file_stats,user_stats}.go` | in-memory singletons under mutexes | periodic recomputation, reads |
| Websocket hub | `internal/websocket/*.go` | `clients`, buffered `send` channels | register, unregister, broadcast, the two pumps |
| Rate limiter, tokens | `internal/middlewares`, `pkg/token` | limiter map; none | admit a request; make and verify a token |
| Library code | `pkg/*` | none | encryption, S3 client, MIME types, random identifiers |

### 1.2 How they interact

Every HTTP request runs in its own goroutine. Handlers talk to each other only through
PostgreSQL, S3 and a few package variables. Three facts shape all the hard behaviour:

* **Two connections per request.** A handler opens a transaction (`db.Db().Begin()`),
  writes through it, and *reads through `db.Db()`*, another pooled connection. Under
  READ COMMITTED a read never sees what the request's own transaction has written so far.
* **Row locks.** An `UPDATE` in a transaction locks its row until commit or rollback;
  another `UPDATE` of the row waits. PostgreSQL aborts one of two transactions that wait
  for each other, and the handlers log some of these errors and go on.
* **S3 is outside the transaction.** Uploads run in goroutines that outlive the handler;
  an object is removed before the rows that named it are committed as deleted.

### 1.3 Which behaviours are hard

The hazards, each at its line, are listed in `PROJECT.json`. In short:

* *Two statements of two requests in an order nobody tested.* A delete counts the holders
  of a content first and removes the object, the permission and the row much later;
  uploads, shares and other deletes of the content run in between.
* *Read-modify-write through two connections.* `storage_used` is read by `db.Db()` and
  written back as an absolute value through the transaction.
* *Several commits in one request.* A share commits twice; the creation of a folder commits
  its row and its relation apart; the recursive delete reads one committed folder after
  another while others are being filled.
* *A handler that waits for itself.* An update on a second connection may wait for the row
  lock that the handler's own transaction holds. PostgreSQL sees no cycle.
* *Failure in the middle.* Deadlock victims, an upload goroutine that rolls back the
  transaction its handler is still using, a lost answer of S3, a restart of the process.
* *In-memory state.* `uploadStates` is keyed by the content alone and lost in a restart;
  the hub's channels are closed by two different pieces of code; the published statistics
  are written with a mutex by their goroutine and without one by the start of the server.
* *A Save of what was read long ago.* gorm's `Save` writes every column; when its `UPDATE`
  finds no row that is not deleted, it inserts with `ON CONFLICT ... DO UPDATE`, which
  brings a deleted row back.
* *Rows found by what they look like.* A link is found by a hash of name, type and size, a
  path folder by its title, the files of a listing by their place in another list.
* *Boundaries.* The unsigned `storage_used`, a full `send` buffer, files that share a name.

### 1.4 What makes each component correct

| component | correct when |
|---|---|
| File lifecycle | an object stays as long as a user has a row of its content; `storage_used` never exceeds what was added to it, and is exact when no content is held twice; a permission goes with its row and not before; no live row is without its user, except what half a share leaves; every request is answered |
| Folders | nothing live lies below a deleted folder; the folders form a tree; a path leads to one folder; the recursion ends; a delete of a folder is all or nothing in the tables, and nobody else loses storage by it |
| Public links | a one-time link opens once; nothing but a publication makes a link openable again; a hash names one link; a deleted file has none |
| Multipart upload | a completed object is the whole content in order; a listed part is what S3 stores; whoever was answered finds the object; no handler waits for ever |
| Websocket hub | no use of a closed channel; a registered client misses, repeats and reorders nothing; a closed connection is forgotten |
| Shared folders | what a share answered with is whole: every file sent has its link or its copy; a one-time link is listed once; a listing that nobody disturbs is complete |
| API-key files | what a key lists is there and has its object; a request is done whole or not at all, counted once and charged exactly; a request that failed holds no lock; a deleted file stays deleted |
| Accounts, referrals | whoever holds a token has a wallet; an answered sign-up is whole; the code that was mailed last is the one that is accepted; referral storage is backed by referrals, and `storage_used` is changed only by what it counts |
| Statistics jobs | an answer is of one calculation and never older than the one before; figures are refreshed; a past day's figures agree with what there was and no longer change |

## 2. Plan

Modules in the order in which they are written, the most important behaviour first.

| # | module | what | state |
|---|---|---|---|
| 1 | `FileLifecycle` | rows, permissions, storage, objects; statement by statement | done |
| 2 | `FileLifecycleProofs` | its type invariant, the safety of any interleaving, and what holds of requests in a row | done |
| 3 | `WebsocketHub` | hub, pumps, channels | done |
| 4 | `MultipartUpload` | chunks, `statesMutex`, abort goroutines, S3 | done |
| 5 | `PublicLinks` | share states, links, groups | done |
| 6 | `FolderTree` | creation, move, upload paths, recursive delete | done |
| 7 | `FolderDelete` | the loop over the files of a deleted folder | done |
| 8 | `WebsocketHubProofs` | the hub's safety for any clients, messages and buffers | done |
| 9 | `BroadcastFeed` | abstract specification of the hub: each member has a gap-free feed from the moment it joined until it leaves; `WebsocketHub` implements it | done |
| 10 | `WebsocketHubProofs` | that the hub implements the feed, and what the feed promises | done |
| 11 | `Accounts` | nonces, one-time passwords, OAuth, with `CreateReferral` and `UpdateReferralStorage` | done |
| 12 | `ApiKeyFiles` | `internal/api/v1`, statement by statement | done |
| 13 | `StatsJobs`, `UsageFigures` | the goroutines of `file_stats.go` and `user_stats.go`, and what their queries count | done |
| 14 | `FolderShare` | sharing a folder and opening a shared one | done |
| 15 | `PublicLinksProofs` | links: late writes, and every property of requests in a row | done |
| 16 | `MultipartUploadProofs`, `FolderDeleteProofs`, `StatsJobsProofs`, `ApiKeyFilesProofs`, `AccountsProofs` | the safety of 4, 7, 11, 12 and of `StatsJobs` | done |
| 17 | `FileStore` | abstract specification of `FileLifecycle`: rows appear, change owner and disappear atomically; the detailed steps map to these or stutter | planned |
| 18 | proofs for 6, 14 and `UsageFigures` | `NothingBelowDeleted`, `CopiesAreWhole`, `StorageIsBounded` | planned |
| 19 | rate limiter | token buckets per address, never pruned | planned |

Composition. `FileLifecycle`, `FolderTree` and `FolderDelete` talk about the same tables at
three levels: one file, statement by statement and concurrently; the tree, in which what
happens to a file is one step; and the loop of one delete over many files. `PublicLinks`
has the tables that deletions and shares of a file touch as a side effect, and
`FolderShare` what happens to them when a whole folder is shared file by file.
`StatsJobs` and `UsageFigures` are the two halves of the statistics: when a figure is
calculated and published, and what it counts. `WebsocketHub` has `BroadcastFeed` as an
instance and a property.

Runs. For every component one instance small enough to be exhausted, in which the hard case
happens (the mutants show that it does), and liveness in the same instance where it is small
enough. The disagreements with the repository's own comments have configurations of their own,
which section 7 lists.

Theorems worth proving: the type invariant of the core; the safety of its rows and of its
storage under every interleaving, and exact accounts for requests in a row; the hub's freedom
of panics; the refinements; that late writes open no link again; whole objects of multipart
uploads; whole deletes of folders; whole requests of API keys; whole sign-ups, and referral
storage that referrals back.

## 3. The modules

Each `X.tla` is the specification, with its constants and their assumptions, and
`XMC.tla` holds the instances that the `.cfg` files choose from. Definitions marked
*mutant* in a comment are wrong on purpose and used by nothing: each is what a slip in the
code would turn the definition after it into, and shows that a property would notice.

### 3.1 `FileLifecycle`

*State.* `fileRow`, `perm` and `storage` are the committed `files.deleted_at`,
`files_users.permission` and `user_details.storage_used`; `s3` the keys of the bucket;
`fileCid`, `fileUser` the columns that are written once. A request in flight has a phase
`pc`, its local variables `req` and a transaction (`txSt`, and the uncommitted writes
`txRow`, `txPerm`, `txUsed`). `up` is the goroutine of an upload. `charged` is history, and so is
`halfShared`, the copies whose share was rolled back or cut off before they got a user.

*Steps.* One SQL statement, S3 call or commit each, in the order of the handlers:

| route | actions |
|---|---|
| upload, create, pool check | `PutUploadFiles`, `CreateFile`, `CheckFilesExistInPool`, `HeadObject`, `DecideInPool`, `HeadPoolObject`, `TxCreate`, `ReadUsed`, `Charge`, `Commit`; `UploadDone`, `UploadFail` of the goroutine |
| share with a user | `ShareFile`, `CommitSharedCopy`, `CommitSharedRelation`, or `SharedRelationFails`: the second transaction is rolled back and the copy stays |
| delete | `DeleteFile`, `FindUsersByFileCID`, `FindFilesByUserAndFileCID`, `IsFileOwner`, `DeleteFileFromS3`, `DebitOwner`, `DebitNow`, `DeleteFileUser`, `DeleteFilePermission`, `GetNextOwner`, `GetNextFileUser`, `SetOwnerPermision`, `ReadNextUsed`, `CreditNextOwner`, `SetNextFileInPool` |
| everywhere | `StatementFails` (500), `StatementFailsUnnoticed` (logged only), `DeadlockVictim`, `Crash` |

*PostgreSQL.* A read sees committed rows. A pending write locks its row: `BlockedBy` says
whose lock a statement waits for, `InDeadlock` is a cycle of open transactions, one of
which is aborted. A statement on a connection of its own (`Autocommit`) waits too, but is
in no cycle that PostgreSQL sees.

*Abstractions.* One file per request; a helper that only reads is one step; the order
`created_at DESC` is that of ids. The row is found by its uid alone: any user may delete or
share any file that somebody has (`Related` says whether the caller does, which is what
ownership and permission depend on), but not the copy of a share that failed, whose uid nobody
was told. A share by e-mail may go to the sharer itself, and its copy has the content id that
the client sends. An error of the database is modelled where the transaction has ended, and in
the second transaction of a share; connections that an early return leaves open are not.

### 3.2 `WebsocketHub`

The hub's `clients`, its range loop (`todo`, `message`) and, per connection, `ServeWs`, the
connection, the channel (`send`, `closed`) and the two pumps. `register`, `unregister` and
`broadcast` are unbuffered, so a send on them and the hub's receive are one step
(`Register`, `Unregister`, `Broadcast`); each round of the range loop is a `SendMessage`,
while the pumps go on. Pings, deadlines and size limits appear as operations that fail.
`log`, `joined` and `received` are history. No route of the server calls `ServeWs` yet.

`BroadcastFeed` is the hub without its parts: a client may `Join` once, a message is put into
the log (`Publish`), is queued for each member in turn (`Queue`), is delivered with whatever
else is queued (`Deliver`), and a client may `Leave`, with what is queued for it or without.
`Promise` in `WebsocketHub` is the instance: `StateOf` reads the state of a client off its
writer and the hub's `clients`, and `QueuedOf` counts what has been written to the
connection, what the writer has taken and what is in the buffer.

### 3.3 `MultipartUpload`

One request per chunk. A handler takes `statesMutex` (`Takes`) and keeps it over its S3 calls
(`CallsS3`); the abort goroutine takes it to look the upload up (`AbortReads`), calls S3 without
it, and takes it again to forget the state (`AbortCleans`). A request, the S3 upload it may
initiate and the abort it may start share a number. S3 (`upload`, `stored`, `object`) and the
clients (`next`, `waits`) are external: an S3 call may fail, or succeed and lose its answer; a
client that got an error sends the same chunk again or starts over (`Retries`).

### 3.4 `PublicLinks`

The tables of share states and links. A handler reads on one connection, step by step, and
writes through a transaction: the reads are steps, the writes and the commit one step, as
the first write locks the row or unique key that another handler would have to write.
gorm's `Save` is an `UPDATE` of all columns, and an `INSERT` when there is no row any more.
A hash is computed from name, type and size, so `HashesOf` lets files have the same one and
a renamed file another. A delete drops the state of the file and the one of its caller (`own`
says whether the copy was sent to them), so that a file that somebody else deletes is `removed`
and keeps its recipient's. A share that fails in its second transaction leaves a copy without a
state. A panic is answered by gin's recovery.

### 3.5 `FolderTree`

`folder`, `member` and `file` are the committed rows; creations and moves commit statement by
statement; a delete has a `stack` (folder, children still to visit) and commits its `pending`
deletions at the end. `FolderFails` is a row or a relation that is not written: what was
committed before stays, a folder without an owner among it. A look-up that fails is not
modelled; it finds nothing, and the upload makes the folder again. `folderMutex` is the package
variable, which creations and moves hold and uploads and deletes do not.

### 3.6 `FolderDelete`

The loop of `DeleteAllFilesInFolder`: for each file of the folder the row, ownership, the
permission, storage and the object, with what is read and the debit of line 175 going over a
second connection (`DebitNow` waits if the transaction has written the row). `world` is any
distribution of files that uploads and shares can leave. `Rollback` is a statement that fails,
or the end of the process, at any point; `LoggedFailure` an error that the loop only logs: a
debit that is not made, a next owner that is not found or not charged, an object whose first key
fails. (An owner without a detail, which would be dereferenced, is left out.) Deletes come one
after the other; `FileLifecycle` has the interleavings.

### 3.7 `FolderShare`

`ShareFolderHandler`, `ShareWithUserHandler` and the handler that opens a shared folder hold
`folderMutex` from beginning to end and commit after every write: a file of a public share has
its state, its link (`RowFor`) and the link's limit (`Limited`) one after the other, and is
followed by the next one (`NextFile`, `NextFolder`); a copy has its row and its relation. `row`,
`public`, `state`, `link` and, for recipients, `folderCopy`, `fileCopy`, `userState`, `userLink`
are committed; `job` are the variables of the share that has the mutex, `view` those of the
listing: what it has read in its three looks for files and what it answers with. A listing looks
up the state of each file (`FillFile`), once more for what it dereferences (`FillAgain`), and
marks the link (`MarkOpened`). Uploads and deletes of files do not take the mutex.
`StatementFails` is an error that ends the request, `LookupFails` a look-up that finds nothing,
`StatementFailsUnnoticed` the error of a `Save` that nobody looks at; `slipped` remembers which
requests met one.

### 3.8 `ApiKeyFiles`

`row`, `listed` and `used` are committed columns, `counted` the request counter of a key,
which a request reads and writes on a connection of its own before anything else;
`objects` the bucket and `uploads` the goroutines of a create, which may outlive it and
roll back its transaction. What a request has read (`req`) is what its `Save` writes back.
An early return that leaves the transaction open leaves its locks: `EndedHoldNoLock` says
that no request does so that could have locked a row. `CommitFails` is a commit whose result
nobody looks at: the answer is a success, and the rows are not there (`lost`).

### 3.9 `Accounts`

`db` is the committed rows of the seven tables. A sign-up inserts user, wallet, e-mail or
GitHub row and detail one autocommitted statement after another, or in its transaction where
the code passes it on; a pending insert of a unique key makes another wait. Mails may be
lost, one statement or commit may fail and the process may crash. `CreateReferral` and
`UpdateReferralStorage` are steps of a sign-up and of the route for codes; `Upload` is the
upload that writes the same detail.

### 3.10 `StatsJobs` and `UsageFigures`

In `StatsJobs` a published value is two `words`, each with the version of the data it was
calculated from, so that a reader may see one old and one new. The goroutine (`Jobs`, a new
one for each timer), the start of the server (`Main`, without the mutex for one of them) and
a reader take steps of one query, lock or word. In `UsageFigures` each operator is the SQL of
one query over the rows of users, files and permissions; `ledger` is history, what there was
at the end of each day.

### 3.11 Proof modules

`FileLifecycleProofs`, `WebsocketHubProofs`, `MultipartUploadProofs`, `PublicLinksProofs`,
`FolderDeleteProofs`, `ApiKeyFilesProofs`, `StatsJobsProofs` and `AccountsProofs`, each about
the module it is named after: section 6. `FileLifecycleProofs` and `ApiKeyFilesProofs` begin
with the same lemmas on sums over finite sets.

## 4. What the runs check

A state that satisfies every property for the wrong reason is excluded by the mutants:
each property of each run below fails as soon as one definition is replaced by a mutant
that `PROJECT.json` names. Properties of one kind that belong together are checked as one
conjunction; each of its parts has a mutant that breaks it.

| run | instance | shows |
|---|---|---|
| `files_concurrent` | 2 users, 2 contents, 6 rows at the start, 2 requests of any kind at once, 1 crash, any share may fail | every interleaving of any two handlers keeps `StorageNeverExceedsCharges`, `FilesHaveUsers`, `LiveFilesKeepPermission`, `LiveFilesKeepTheirUser` |
| `files_sequential` | 2 users, 2 contents, 3 requests of any kind in a row, deletes of any user's files | `DeletesAreSafe` (`UploadedFilesKeepObject`, and no panic but over a `HalfSharedCopy`), `StorageExactWithoutCopies`, and every request is answered |
| `hub` | 2 connections, a buffer of 1, 2 messages | `HubNeverPanics`, `FeedHasNoGaps`, `ClosedConnectionsEnd`, and that the hub implements `BroadcastFeed` (`ImplementsFeed`, hence `ReceivedIsPrefix`) |
| `multipart` | 1 client, 2 chunks, 4 requests, any S3 call may fail or lose its answer, 1 chunk given up, 1 restart; after an error the same chunk again or all from the start | `ObjectsAreWhole` (`Whole`, or `LastRepeated` after `LastSentAgain`), `UploadsInv` (`ListedPartsAreStored`, `AnsweredUploadsHaveObject`), `HandlersReturn` |
| `links` | 3 files (1 a copy), 2 hashes, 4 requests in a row, every route and type, deletes by the recipient and by others | `OneTimeOpensOnce`, `HashNamesOneLink`, `LinksInv` (`DeletedFilesHaveNoLink`), `OnlyPublishReopens`, `GroupsLoseOnlyUnpublished` |
| `folders` | 2 users with a title each, 4 requests in a row, 8 folders | `TreeInv` (`NothingBelowDeleted`, `TreeIsAcyclic`), `TitlesLeadToOwnFolders` (`PathsAreFoundBeforeMade`, `OnlyOwnFilesAreDeleted`), `RequestsAreAnswered` |
| `folder_files` | 3 files in any of 2 folders, of 2 users and 2 contents; 2 deletes, 1 rollback | `DeleteInv` (`HeldObjectsStay`), `DeletesAreContained` (`AllOrNothing`, `OthersAreNeverDebited`), `DeletesBlockOnlyThemselves` |
| `folder_share` | 2 nested folders, 3 files of which two share a hash and one of these may be uploaded meanwhile; 3 requests, 2 at a time, 1 fault | `SharesInv` (`OneTimeListedOnce`), `SharesAreWhole` (`CopiesAreWhole`, `PublicationsAreWhole`, `ListingsAreComplete`) |
| `accounts` | 2 old users, one referred by the other, which has the one reward that `Limit` allows; 1 e-mail, 1 GitHub account, 1 new address; 2 requests at once or in a row, 1 upload, 1 fault | `SignUpsInv` (`TokenHoldersHaveWallet`, `AnsweredSignUpsAreWhole`, `OneDetailCounts`, `LatestIsAccepted`), `ReferralsInv` (`BonusIsBacked`, `BonusIsExact`, `ReferralsMatchDetails`), `StorageUsedIsKept`, `RequestsAreAnswered` |
| `api_key_files` | 2 users, 2 contents, 3 requests, 2 at a time, 1 fault | `KeyFilesInv` (`ListedFilesAreLive`, `SoleFilesKeepObject`), `RequestsInv` (`CreatesAreWhole`, `RequestsAreCounted`, `StorageIsExact`, `EndedHoldNoLock`), `DeletedStayDeleted` |
| `statistics` | any one of the three singletons, 2 changes of the data, 1 query that fails | `AnswersInv` (`FilesWithinSplit`, `AnswersAreWhole`), `FiguresKeepUp` (`NeverGoesBack`, `FiguresAreRefreshed`, `ReadersAreAnswered`) |
| `usage` | 2 users, 2 files, 2 days of two ticks each and the beginning of a third | `FiguresInv` (`StorageIsBounded`, `HistoryIsKept`, `HoursReachDays`, `TotalsAgree`), `SeriesSettle` (`PastFiguresSettle`, `UsersSeriesGrows`) |

Bounds and why they are enough.

* *Files.* A delete looks at the newest two rows of a content and at whether there are two
  holders; three rows of a content (`Crossed` has three of each of two) reach every branch, and
  two contents with opposite owners let the transfer of one wait for the debit of the other,
  which is the deadlock. Two requests at once are every pair; a third adds another cycle of
  locks and no new kind of step. In a row, three requests are upload, share and delete.
  Sizes differ, so a wrong charge shows.
* *Hub.* The second message finds the buffer of one full, and each of the two connections can
  be dropped by the range loop while its reader is about to unregister it.
* *Multipart.* Two chunks are the first, which resets, and the last, which completes, and
  four requests let a client give up a chunk, fail in the middle, start again and finish, or
  send a chunk twice and three times.
* *Links.* Publish, open, publish again and open are four requests; two hashes and three
  files allow a same name, a rename and a copy.
* *Folders.* Four requests build two levels (an upload can make two folders at once), move
  and delete. `MaxFolders` is twice the number of requests so that none is held up by it.
  Two users whose titles differ are enough to see whether a path leads into the other's folder.
* *Folder share.* Three files are two of one hash, one of them not there at the start, in the
  folder above, and one below; three requests are share, open and open again, or a share next
  to an upload or a delete. Other shapes of the tree only
  repeat the step from one folder to the next.
* *Accounts.* Every pair of sign-ups, with the same keys and with different ones, and every
  sign-up again after a first one that failed anywhere. The referrer is at the limit; the
  configurations of section 7 have one more reward to go.
* *API keys.* Three requests are a create, and two of update, delete and create of the same
  content at once. Faults only hit the first two requests, so that one follows that can wait
  for what they left behind.
* *Statistics.* Two changes give three versions; the first calculation, the one of the start
  and a later one overlap. *Usage:* two days show today, a past day and the border; two files
  of different sizes and encryption show every sum and count.
* *Folder files.* Three files are two of one content and one of the other, so that a file
  follows one that has already written the caller's or the next owner's row.

`CHECK_DEADLOCK FALSE` is in every configuration because the number of requests, messages,
changes and crashes is bounded: the system then rests. What must not get stuck is stated as
liveness.

## 5. Fairness

| module | assumed | because |
|---|---|---|
| `FileLifecycle` | weak, for the next step of each request and for each upload goroutine | goroutines are scheduled and I/O ends; nobody has to call a route and nothing has to crash |
| `WebsocketHub` | strong, for what a client waits to do with the hub; weak, for the range loop and for what a pump does on a closed connection or with a channel that is ready | Go's `select` picks uniformly among ready channels, so a waiting sender is not passed over for ever; an open and silent connection has to do nothing |
| `MultipartUpload` | weak, for taking `statesMutex` and for the S3 calls | a goroutine gets the mutex at the latest when nobody holds it any more, as requests are bounded; a call returns or fails |
| `FolderTree` | weak, for the next step; strong, for taking `folderMutex` | as above; nothing has to fail |
| `FolderShare` | weak, for the next step of each request; strong, for taking `folderMutex` | as above; nobody has to upload, and nothing has to fail |
| `Accounts` | weak, for the next step of each request | a handler that waits for nobody's lock goes on |
| `StatsJobs` | weak, for queries, timers and writes; strong, for taking a mutex | goroutines are scheduled and timers fire; a waiter of `sync.Mutex` is served in its starvation mode |
| `FolderDelete` | weak, for the handler | it runs on unless it waits for a lock |

## 6. What is proved

TLAPS checks the following for every value of the constants. What a module assumes of its
constants is the `ASSUME` of the module it is about. Where a property is only true of
requests in a row, the theorem has that as a hypothesis by name (`Alone`, `Sequential`,
`Patient`), which the instance of the run satisfies and an instance of section 7 does not.

### 6.1 `FileLifecycleProofs`

`ConstantsAssumption`: non-empty sets of users and contents, sizes and bounds that are
natural numbers, rows at the start with a permission. `TypeCorrect`, that `TypeOK` holds in
every behaviour. `TypeOK` is not inductive. `TypeInv` adds what a statement needs to find:
`NextKnown` (from `GetNextOwner` to the credit, and in a share between its commits,
`req[r].next` is a row below `nextId`) and `RowsKnown` (whatever is at or above `nextId` is
absent from every table and transaction). One step per action carries it over. Of any
interleaving:

* `ChargesBoundStorage`: `storage_used` never exceeds what was added to it, whatever
  interleaves, aborts or crashes. The inductive invariant `ChargesInv` bounds four values at
  once: the committed column, the value each request has read, and the value each
  transaction is about to write, all by `charged`. The argument is that `charged` only
  grows, so that a stale read is still a lower bound.
* `PermissionsLastAsLongAsRows` and `LiveRowsHaveUsers`: the latter says that a live row without
  a user is the copy of a share between its commits, or of one that was rolled back or cut off
  there; no other handler leaves one. Both from `RowsInv`, the conjunction of
  `Named` (the row a request works on exists and has a user), `DeletesBoth` (a transaction
  that has deleted the permission has deleted the row), `InsertsBoth` (a transaction that
  inserts a row inserts its relation, and nobody else writes that row) and `SharesAlone` (a
  share between its commits is the only one that knows its copy). Without `DeletesBoth` and
  `InsertsBoth` nothing is known of what a commit publishes; without `Named` a deletion
  could be published for a row that was never there.
* `RowsAreNotRevived`: the action property `LiveFilesKeepTheirUser`, from the same invariant.

Of requests in a row, `Alone`: there is one request at a time and the process does not crash,
while the goroutines of uploads run on. With two requests both properties are false (section 7).

* `DeletesKeepWhatOthersHave`: `DeletesAreSafe`. `AloneInv` says that what a delete has found
  out is still so when it acts (`DeleteAlone`: the row is live, and for a sole holder no other
  live row has the content; `GetNextOwner` is asked only when there are two holders), that any
  other request inserts one row at most (`InsertAlone`), that an upload that has not failed has
  its row or is about to (`UploadsHaveRows`), and that the object is there from before its row
  is (`ObjectsStay`). That `GetNextOwner` finds a second row needs that a finite set of rows
  has a newest one (`NewestRow`). That row has a user unless it is the copy of a failed share, which
  the property excepts.
* `AccountsAreExact`: `StorageExactWithoutCopies`, which is about users that delete their own
  files (`OwnDeletes`), if also `NothingOwed`: no account starts
  with more than its rows. Without it the property is false: a user that starts with 5 and no
  file, and whose upload of 5 fails, has been charged for all of its rows and has 5 too much.
  `BooksInv` balances each account against the rows that are there, less the one that is not
  charged yet and the one that is taken off but not deleted yet (`Balanced`), and says what a
  request will write (`ChargeAlone`, `DebitAlone`, `WritesAlone`). It holds while every row has a
  content of its own and its own user deletes it (`OwnRows`); that a permission is only deleted
  by its user's request is `TakesOwn`.

### 6.2 Sums over finite sets

These lemmas stand at the beginning of `FileLifecycleProofs` and of `ApiKeyFilesProofs`. What
`SumFunctionOnSet` of the community modules is, on a finite set: 0 on the empty one, the
sum of a set less an element and that element, the same for the same summands, and additive on
sets that share nothing. Its definition is a `CHOOSE` of a recursive function, which has to be
shown to exist (`SumExists`) and not to depend on the set it was built for (`SumsAgree`). The
library's induction rules take an operator and cannot be used, so `SubsetInduction` is an
induction over the subsets of a finite set, stated with the set of subsets that have the
property, and proved from the least number of elements of a subset that has not.

### 6.3 `WebsocketHubProofs`

`HubAssumption`: there is a message, and the buffer has room for at least one.

* `TypeCorrect`: `TypeOK`, which is inductive here and includes that no buffer exceeds its
  capacity.
* `HubIsSafe`: `HubNeverPanics`, from `ChannelInv`: the range loop visits clients of the hub
  only (`todo \subseteq clients`), and a client of the hub has an open channel. It is
  inductive because whoever closes a channel takes the client out in the same step, and
  because a connection that is not yet registered has an open channel.
* `FeedsHaveNoGaps` and `ReceivedInOrder`: from `FeedsInv`, which says where the feed of each
  client ends. `IsPart(s, j)` is that `s` is the part of the log from message `j + 1` on. What
  was written is always such a part; the whole feed is one while the pump runs, also after
  the hub has dropped the client; and it ends at the end of the log, or one before it for
  the clients that the range loop has yet to visit, as long as the client is registered.
  The middle part is what makes it inductive: a dropped client goes on writing its buffer.
  The lemmas on sequences before it (`PartOfAppend`, `PartToTheEnd`, `AppendToConcat`,
  `HeadAndTail`) are what each step does to a feed.

* `HubImplementsFeed`: `ImplementsFeed`, that every behaviour of the hub is one of
  `BroadcastFeed`. Initial states map to initial states, and each action of the hub has a
  lemma that says which step of the feed it is: a registration is a `Join`, a broadcast a
  `Publish`, a round of the range loop a `Queue`, or a `Leave` when the buffer is full, a write
  to a connection a `Deliver`, a pump that returns a `Leave`. Taking a message out of the
  buffer changes nothing, because what is queued is counted over buffer and writer together.
  It needs that the feed of a client has no gaps and where it ends (`FeedsInv`), that the loop
  visits clients of the hub (`ChannelInv`), and `StartInv`: the writer of a connection runs
  from its registration on and not before.

* `FeedsAlwaysAgree`: what that is worth. Through the feed that the hub implements, whatever
  is queued for a client is in the log, and what it has received is the stretch of the log
  from where it joined, so that two clients agree from the later of their registrations on.

### 6.4 `MultipartUploadProofs`

`UploadAssumption`: there is a client, each has a content, a content has a chunk, and any set
of S3 calls may fail.

* `StatesAndAnswersAreTrue`: `UploadsInv`, for clients of the same content too. The inductive
  invariant adds that a state is of an upload that a chunk of its content has initiated, whose
  parts are numbered in order, are what S3 has, and are no more than the requests that are
  past their upload (`StateOf`, which bounds the numbers of parts), and that a handler between
  two S3 calls has the mutex and a state (`HandlerOf`).
* `CompletedObjectsAreWhole`: `ObjectsAreWhole`, assuming `Patient`: clients have contents of
  their own (without it, it is false: `MultipartUploadSame.cfg`). They may send any chunk again
  that was refused. A chunk before the last is only refused before it is listed as a part; the
  last one is refused after it has become a part, when the completion fails, and may be appended
  again until the abort has forgotten the state. That is the one repetition that the property
  allows. As it is about clients that have not given up a chunk, `OrderInv` is, too: a client
  waits for each of its requests that is not over (`Waits`), and is at the chunk after the
  listed ones, at the last one again, or back at the first (`Position`).

### 6.5 `PublicLinksProofs`

`LinksAssumption`: there are files and hashes, and any files may have a hash in common.
`RowsTyped` is the part of the types that the following need.

* `LateWritesDoNotReopen`: `OnlyPublishReopens`, for any number of requests in flight. Each
  action but the write of a publication leaves a row as it is, empties it, marks it or lets
  it expire. The row that an opening writes back may be an old one; it is not one that can be
  opened because the write itself marks it.
* `OneLinkPerHash` and `OneTimeLinksOpenOnce`: `HashNamesOneLink` and `OneTimeOpensOnce`,
  assuming `Sequential`, that there is one request at a time: with two, both are false
  (section 7). `SequentialInv` says what is still true of what a request has read when it
  writes (`StillTrue`: no row has the hash, or the row that was read has it; a link that
  will be marked has not been counted; a link that may be opened any time is not counted) and
  that the flag of a counted link is never empty (`CountsAgree`), which is what lets an
  opening tell that it has to mark.

* `LinksDoNotOutliveFiles` and `GroupsKeepPublished`: `LinksInv` and
  `GroupsLoseOnlyUnpublished`, also assuming `Sequential`. A file that is `removed` by somebody
  else than its recipient keeps the recipient's state and link, which `LinksInv` says.
  `SharedInv` says that every link has a share state of its file (`RowsOfShared`), that what a
  request has read of its file and row still holds (`StillShared`), and that the ids of rows
  suffice (`IdsSuffice`). It is this that tells why a `Save` of an old row, which brings a
  deleted row back, brings none back here.

### 6.6 `FolderDeleteProofs`

`FolderDeleteAssumption`: finitely many files, any distribution of them (`Worlds`) whose
accounts are natural numbers.

* `LiveRowsKeepObjects`: `DeleteInv`, that the object of a content goes only with its last live
  row while no delete has failed. It needs `SoleRow`: from the count of the rows to the removal
  of the object the transaction has deleted the one live row of the content. `RowsHaveObjects`
  is about the rows that the transaction has not deleted, because the object is removed before
  the commit.
* `DeletesContained`: `DeletesAreContained`. `FolderIsCovered`: each live row of the folder is
  deleted by the transaction or still to come, so that a commit leaves none. `OthersPay`: what
  the transaction has written for another user is no debit.

### 6.7 `ApiKeyFilesProofs`

`ConstantsAssumption`: there is a user, contents have sizes, uploads are finite sets.
`TypeInv` and `StepInv` say what a request is and what its transaction holds at each step;
`CreateInv` that what a create has inserted, written and left to do adds up to what it was
asked for, and that every row, upload and loss is of a create.

* `KeyFilesAgree`: `KeyFilesInv`, for any overlaps and failures. `ObjectInv` extends
  `SoleFilesKeepObject` to rows that are inserted and not committed, as uploads end before.
* `DeletesStayFinal`: `DeletedStayDeleted`. `CalmInv`: while requests come one by one and none
  has failed, what a request has found is still live when it saves it.
* `RequestsLeaveWholes`: `RequestsInv`. For `RequestsAreCounted`, `CountInv` bounds the counter
  and what a request has read of it by the requests that are past their count. For
  `StorageIsExact`, `SizesInv` (nobody has changed a size) turns the sizes of the files into
  constants, and `StorageInv` relates what a request has read and will write to the sum over
  the live files.

### 6.8 `StatsJobsProofs`

`AnswersFit`: `AnswersInv`. There is one goroutine, and only the start of the server writes
without the mutex (`OneGoroutine`); whoever else reads or writes words has it (`MutexHeld`); the
words differ, for a reader that came after the start, only while the goroutine is between them
(`SettledWords`, `ReaderSees`); files are counted before the files of either status, which only
get more (`FilesCountedFirst`). `FiguresNeverGoBack`: `NeverGoesBack`, the safety part of
`FiguresKeepUp`, from `NotAhead` and `LateIsNewer`: a calculation that began after the start is
not older than what is published.

### 6.9 `AccountsProofs`

`ConstantsAssumption`: the users at the start have different addresses, the names of nobody and
of the code "ns" are no address, and the bounds are natural numbers; there may be any addresses,
e-mails and GitHub accounts, and any number of requests at a time. An action is first reduced to
what it does to rows and to its request (`Effects`): a request comes, it goes on in one of
seventeen ways, an upload is charged, or the process ends. `IndInv` has four parts.

* `SignUpsHold`: `SignUpsInv`, however requests overlap, fail or are cut off. `StepInv` and
  `TxInv` say at each step what a sign-up knows and what it has inserted, in the tables or in
  its transaction; `SignUpInv` that these rows are there or will be with its commit (an
  answered sign-up that lost its commit is one that the property excepts), and `OwnersDiffer`
  that no two requests make one user. Whoever gets a token has a wallet: a code is mailed only
  after the wallet of its user is committed, and the code of an e-mail row was saved by a
  request of that row's user (`EmailsInv`); a user that was found, or that a GitHub row names,
  has one (`WalletsInv`); and a user that a transaction is inserting is found by nobody
  (`UnseenInv`). That the code mailed last is accepted needs requests one by one (`OneAtATime`,
  `BeginInOrder`): `NewestInv` says which request wrote a nonce or code.
* `ReferralsHold`: `ReferralsInv`. `BonusIsBacked` and `ReferralsMatchDetails` hold of any
  overlap, the first because referrals are never deleted and their count, though read earlier,
  was at most what it is now; the count needs that the set of referrals is finite, and a save of
  an old detail that the detail is still the first of its user (`ReadInv`). `BonusIsExact` is of
  requests one by one: `RewardsInv` says that referral storage is the number of referrals of
  the detail, without the one that is being made, up to the limit.
* `ChargesHold`: `StorageUsedIsKept`. By `RewardsInv` the detail that is about to be saved is
  the row as it is now, so that nothing charged is taken back.

### 6.10 What is left to TLC

The safety of `FolderTree` (`TreeInv`, `TitlesLeadToOwnFolders`), `FolderShare`
(`SharesInv`, `SharesAreWhole`) and `UsageFigures` (`FiguresInv`, `SeriesSettle`) is not
proved yet.
All liveness is out of the prover's reach: `RequestsAreAnswered`, `HandlersReturn`,
`ClosedConnectionsEnd`, `DeletesBlockOnlyThemselves`, `FiguresAreRefreshed` and
`ReadersAreAnswered`. Sums over finite sets apart, what a recursive definition computes for
every input is not proved.

## 7. Where code and comments disagree

TLC finds each of the following properties violated, with `tlc -config <cfg> <module>MC`. A
configuration lists all properties that its instance violates; TLC reports one at a time, so
keep the one in question. `RecursionDescends` and `MarkedAreListed` take some minutes. The property states what the quoted comment says, or what its
function is for.

| configuration | property | what happens |
|---|---|---|
| `FileLifecycleExpected.cfg` | `UploadedFilesKeepObject` | `api/file_delete.go:92`: the holders of a content are counted before anything is written. An upload or share of the content that commits in between has a row whose object the delete then removes, although the comment says "If not, delete the file from s3" (api/file_delete.go:183). |
| `FileLifecycleShared.cfg` | `CidHasOwner` | `query/file_user.go:46`: GetNextOwner takes files[1] of all live rows of the content, newest first, the deleted file among them because its deletion is not committed; the comment says "give the owner to the next user shared" (api/file_delete.go:93). When the deleted file is itself files[1], ownership is given back to it and the remaining rows are shared only. |
| `FileLifecycleCharges.cfg` | `StorageExactWithoutCopies` | `api/file_upload.go:398`: storage_used is read on another connection, without a lock, and written back as an absolute value; the comment says "add user storage quantity" (api/file_upload.go:397). Two concurrent uploads of a user add only one of the two quantities. |
| `FileLifecycleShared.cfg` | `DeleteNeverRaisesOwnStorage` | `api/file_delete.go:157`: The detail of the next owner is read through db.Db() and not through the transaction that has just lowered storage_used; the comment says "removes storage_used from the database." (api/file_delete.go:106). When the next owner is the caller the credit is computed from the value before the debit and the caller ends with more than before. |
| `FileLifecycleExpected.cfg` | `NoHandlerPanics` | `api/file_delete.go:157`: GetNextOwner returns an empty FileUser and no error to "Handle the case where the file is not associated with any user" (query/file_user.go:56), and DeleteFile takes it for a next owner: FindUserDetailByUserID(0) is nil and is dereferenced at :160. |
| `MultipartUploadExpected.cfg` | `AbortEndsStartedUploads` | `api/file_upload_multipart.go:111`: "Abort if already started". The first chunk of a client that starts again replaces the state before the upload of the first attempt is aborted: nobody knows that upload any more and it stays open in S3. |
| `MultipartUploadExpected.cfg` | `ObjectsAreAlwaysWhole` | `api/file_upload_multipart.go:64`: "process the chunks and handle multipart upload". A last chunk that is sent again after its completion has failed, and before the abort has forgotten the upload, is a part once more: the object is chunks 1, 2, 2. And a chunk that its client has given up is handled all the same when it gets the mutex, and may be appended to the upload with which the client has started again. |
| `MultipartUploadSame.cfg` | `ObjectsAreWhole` | `api/file_upload_multipart.go:79`: The state is keyed by the content id alone, so the first chunk of a second client replaces the upload of the first, and both append their chunks to it; the comment says "process the chunks and handle multipart upload" (api/file_upload_multipart.go:64). The completed object has chunks twice and is not the content its id names. |
| `MultipartUploadExpected.cfg` | `AbortsOnlyFailingUpload` | `api/file_upload_multipart.go:206`: "Abort if already started" (api/file_upload_multipart.go:111) is meant for the upload whose completion failed; the goroutine reads the state of the content later, and aborts the upload that the client has initiated in between. |
| `PublicLinksExpected.cfg` | `OneTimeOpensOnce` | `api/file.go:722`: the flag is checked on one connection and set on another: two requests open a one-time link before either has marked it. |
| `PublicLinksExpected.cfg` | `OpeningOnlyMarks` | `api/file.go:742`: TxSave writes every column of the row that was read before, and inserts the row if it is gone; the comment says "Update HasBeenOpened if necessary" (api/file.go:736). A publication or unpublication in between is undone. |
| `PublicLinksExpected.cfg` | `PublicLinksOpen` | `api/file.go:350`: For the type public the comment says "No changes needed" (api/file.go:351), but query.PublishFile has taken HasBeenOpened over from the old row: a used one-time link that is published as public can still not be opened. |
| `PublicLinksExpected.cfg` | `LinksAreOfTheirFile` | `query/file_share.go:44`: The comment says "PublishFile creates a new public file." (query/file_share.go:15). First overwrites the new record, its FileUID included, with the row of whichever file has the same name, type and size, and that row is created again. |
| `PublicLinksExpected.cfg` | `NoHandlerPanics` | `query/file.go:186`: FindShareStateByFileUID returns a nil state and no error for a file that only has a state of the other table; the comment says "Get the sharing state; if it doesn't exist, create it" (api/file.go:321). PublishFile dereferences nil at :335 and the transaction is never ended. |
| `PublicLinksExpected.cfg` | `EmptyGroupsAreDeleted` | `api/file.go:660`: The comment says "Check if the ShareGroup is empty after deleting the PublicFile" (api/file.go:659), but DeleteEmptyShareGroup is given the share hash of the link and not the hash of the group: no group is ever deleted. |
| `FolderTreeExpected.cfg` | `NothingBelowDeleted` | `api/folder_delete.go:73`: The comment says "Delete folder and its contents recursively" (api/folder_delete.go:52). The contents are the committed rows at the moment each folder is read; what an upload, a creation or a move puts there afterwards stays live below a deleted folder. |
| `FolderTreeExpected.cfg` | `RecursionDescends` | `api/folder_update.go:58`: UpdateRootOnly asks nothing of the new place, so folders can form a cycle: by two moves at once, of which neither moves a folder below itself (`Careful`). "DeleteFolder deletes the folder eand its associated files." (api/folder_delete.go:19), but on a cycle its recursion reads committed rows, meets the same folders again and never ends. |
| `FolderTreeExpected.cfg` | `OnlyOwnFilesAreDeleted` | `query/folder.go:57`: FindFolderByTitleAndRoot does not ask whose folder it is. DeleteAllFilesInFolder says "update the "deleted_at column" for this user" (api/folder_delete.go:149), but the row that it marks is that of a file of another user. |
| `FolderDeleteExpected.cfg` | `DeletesAreAnswered` | `api/folder_delete.go:175`: the debit goes over a second connection; once the transaction has written the same row of `user_details` for an earlier file, the handler waits for itself. The comment promises "@return 200 {string} string "ok"" (api/folder_delete.go:24). |
| `FolderDeleteExpected.cfg` | `DebitsAddUp` | `api/folder_delete.go:230`: The comment says "removes storage_used from the database." (api/folder_delete.go:232). Each file subtracts its size from the committed value and overwrites what the transaction wrote for the file before: only the last size is removed. |
| `FolderDeleteInherited.cfg` | `OwnersAreCharged` | `api/folder_delete.go:203`: The comment says "sums storage_used from the database." (api/folder_delete.go:204). The sum starts from the committed value for each file, so that a user who inherits two files is charged with the last one only. |
| `FolderDeleteExpected.cfg` | `ObjectsFollowRows` | `api/folder_delete.go:154`: The comment says "If not, delete the file from s3" (api/folder_delete.go:217), but the rows are counted on another connection, which does not see that the transaction has deleted the other row of the content: nobody has the file any more and the object stays. |
| `FolderShareExpected.cfg` | `EachFileHasLink` | `query/file_share.go:38`: the hash of a link is made of name, type and `string(rune(size))`, which is the same character for every size above 0x10FFFF: files of one name and type share a link, and publishing a folder gives it to one of them. |
| `FolderShareExpected.cfg` | `OneTimeIsLimited` | `api/folder.go:272`: the link is committed before its limit, which another `Save` adds whose error nobody looks at: a failure or the end of the process in between leaves a link without a limit. |
| `FolderShareExpected.cfg` | `MarkedAreListed` | `api/folder.go:496`: a listing marks one-time links one by one as opened and answers 403 at the first that already was: the ones before it are used up and were never shown. |
| `FolderShareExpected.cfg` | `NoListingPanics` | `api/folder.go:471`: links and files are read apart and paired by index; a delete between the reads makes one list shorter than the other. |
| `FolderShareExpected.cfg` | `RecipientsSeeFiles` | `api/folder.go:471`: the copies that a recipient gets have no share state, so the listing pairs them with nothing and answers with an empty folder. |
| `FolderShareExpected.cfg` | `DeletedAreNotShared` | `api/folder.go:258`: a file that is deleted after the share has looked at it gets its state and its link back. |
| `ApiKeyFilesExpected.cfg` | `ListedFilesKeepObject` | `api/v1/file_delete.go:63`: the object of a content is removed without a look at the other rows that have it; the comment says "Delete the file from s3 if it exists" (api/v1/file_delete.go:69). |
| `ApiKeyFilesExpected.cfg` | `DeletesAreFinal` | `api/v1/file_update.go:91`: `Save` of the row that was read before a delete inserts it again with all its columns, `deleted_at` included; "update the "deleted_at column" for this user" (api/v1/file_delete.go:89). |
| `ApiKeyFilesExpected.cfg` | `StorageFollowsUpdates` | `api/v1/file_delete.go:75`: "removes storage_used from the database.", but by the size that an update has set and that was never charged. |
| `ApiKeyFilesExpected.cfg` | `CountersNeverFall` | `api/v1/file_upload.go:30`: "increment requests counter" writes the value that was read plus one: of two requests at once one may write an older value. |
| `AccountsReferrals.cfg` | `BonusIsLimited` | `query/referral.go:137`: "if referral storage is 100 GB then return nil as storage limit reached already" (:136) tests the old value with `==`, and the new one is 5 GB for each referral that there is by then: two at once step over the limit, and the test is false ever after. |
| `AccountsReferrals.cfg` | `BonusNeverFalls` | `query/referral.go:143`: "5 GB per referral" (:141), but of two at once the one that has counted fewer may be the last to save. |
| `AccountsExpected.cfg` | `ChargesAreKept` | `query/referral.go:143`: the `Save` writes `storage_used` back as it was read: an upload in between, "add user storage quantity" (api/file_upload.go:397), is forgotten. |
| `AccountsExpected.cfg` | `TokenHoldersHaveDetail` | `api/oauth.go:123`: "initialize user detail" is written in the transaction, and `CreateReferral` looks for it on another connection and does not find it: every Google sign-up with a referral code ends there, with the user made and without the detail. The next sign-in gets a token. |
| `AccountsExpected.cfg` | `ListedUsersAreReferred` | `query/referral.go:90`: "FetchReferredUsers returns referred users for a given referral code." (api/referrals.go:10). `referred_by` holds the id of a user and is compared with the id of a detail: the list is of the users that somebody else has referred. |
| `AccountsExpected.cfg` | `AnswersMeanSignedUp` | `api/otp_auth.go:102`: nobody looks at what `Commit` returns: a sign-up is answered although what its transaction wrote is gone. |
| `StatsJobsExpected.cfg` | `StatisticsAreRefreshed` | `api/file_stats.go:95`: "Start or restart the timer" (:87) is done after a successful calculation only. With no users the `SUM` is NULL, the scan fails, and the statistics stay what they were until the server starts again. |
| `StatsJobsExpected.cfg` | `WeeksAreWhole` | `api/file_stats.go:446`: "Return the result instead of modifying the shared data directly", but the handler copies the published slice under the mutex and answers with the original after it: while the goroutine publishes the next series, the answer may have the length of one and the data of the other. |
| `StatsJobsExpected.cfg` | `NeverGoesBackAtAll` | `server/start.go:141`: the start writes what it has calculated over what the goroutine has published since. |
| `UsageFiguresExpected.cfg` | `StorageIsLive` | `query/file.go:338`: "Query storage used by user up to a specific date": files deleted before the date are subtracted, though they were not added. |
| `UsageFiguresExpected.cfg` | `HistoryIsNeverRewritten` | `query/file.go:368`: "Query total files used by user up to a specific date" joins with the permission that the row has now: a row that was only shared counts in the past as soon as it is the owner's, or is deleted. |
| `UsageFiguresExpected.cfg` | `CountedFilesAreLive` | `query/file.go:161`: "query of the average size of all the files among the users" uses `Table("files")`, which counts deleted rows too. |

What the models contain and no property states: a GitHub sign-up with a referral code ends
like the Google one above, but has inserted the unique keys of its user in the transaction
that it leaves open, so that the next attempt waits for ever (`RequestsAreAnswered` of
`Accounts` names this case and no other); with the code "ns" it dereferences a user that is
nil (api/oauth.go:305); a GitHub user gets two details; a one-time password whose mail is lost
has already replaced the one before; the weekly series ends before its last row.

`PathsAreFoundBeforeMade` holds only of requests that run one after the other: two uploads at
once may both make the same path folder.

## 8. What is not modelled

* *Rate limiter*: planned, small: token buckets per address. Tokens keep no state.
* *The pool of database connections.* Several early returns leave a transaction open, and
  `db_conn.go` sets no limit on connections. Where the locks that are left behind matter they
  are modelled (`ApiKeyFiles`, `Accounts`); in the other modules a handler that returns drops
  its transaction and its locks.
* *Reads and downloads of single files, encryption, MIME types, configuration, routing, Arweave
  backups*: they change no state of the system or are wrappers of external services.
* *Renaming, searching, updates of a file's fields other than its place*: writes of single
  columns that no other modelled handler relates to, except the name, which `PublicLinks` has
  as the choice of a hash.
* *Times.* What lasts a minute, a month or a session is a step that may come at any moment.
* Code that no route reaches: `socket.ServeSocketIO`, `DeleteDuplicatedFiles`,
  `RegisterUser`.
