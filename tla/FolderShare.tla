----------------------------- MODULE FolderShare -----------------------------
(***************************************************************************)
(* Sharing a folder and all that lies in it (api/folder.go): for everybody *)
(* (ShareFolderHandler publishes each file), or with a user                *)
(* (ShareWithUserHandler makes copies), and opening a shared folder.       *)
(*                                                                         *)
(* The three hold folderMutex from beginning to end, but commit after each *)
(* write, and uploads and deletes of files go on meanwhile.  The client    *)
(* sends what it has seen of the folder.  The recursion over the folders   *)
(* is the sequence Order, a list of rows is in the order of their ids.     *)
(*                                                                         *)
(* Left out: titles; the type "monthly" and the links of single files      *)
(* (PublicLinks); moves and deletes of folders (FolderTree); shares of     *)
(* what is itself a copy.                                                  *)
(***************************************************************************)
EXTENDS Integers, Sequences, FiniteSets, FiniteSetsExt

CONSTANTS
    Folders,
    Parent,         \* Folders -> Folders or Top
    Order,          \* Folders -> Seq(Folders): it and those below, as shared
    Files,          \* ids
    Home,           \* Files -> Folders
    HashOf,         \* Files -> the hash of its name, type and size
    Uploaded,       \* the files that are there at the start
    Kinds, Types,   \* what clients ask for
    MaxRequests,    \* bound: requests ever made
    MaxInFlight,    \* bound: requests at a time
    MaxFaults       \* bound: statements that fail, and crashes

AllKinds == {"public", "share", "list", "upload", "delete"}
Top == "/"

ASSUME ShareAssumption ==
    /\ Top \notin Folders /\ Parent \in [Folders -> Folders \cup {Top}]
    /\ Order \in [Folders -> Seq(Folders)]
    /\ \A d \in Folders : Order[d] # << >> /\ Head(Order[d]) = d
    /\ Files \subseteq Nat \ {0} /\ IsFiniteSet(Files) /\ Home \in [Files -> Folders]
    /\ Uploaded \subseteq Files /\ Kinds \subseteq AllKinds
    /\ Types \subseteq {"public", "one-time"}
    /\ MaxRequests \in Nat /\ MaxInFlight \in Nat /\ MaxFaults \in Nat

Requests == 1..MaxRequests
Hashes == {HashOf[f] : f \in Files}
Original == 0
Free == 0
NoFile == 0
Uncounted == -1

VARIABLES
    row,                    \* of a file
    public,                 \* folders.encryption_status
    state, link,            \* file_share_states; public_files, by share_hash
    folderCopy, fileCopy,   \* the rows that a request makes for the recipient
    userState, userLink,    \* their share states, and links by share_hash
    folderMutex, pc, req,
    job,                    \* the variables of the share that has the mutex
    view,                   \* those of the listing that has it
    (* history and bounds *)
    shown,                  \* how often a one-time link was listed
    slipped,                \* the requests with a failure that nobody noticed
    calm,                   \* no two requests have overlapped, and none failed
    faults

copies == <<folderCopy, fileCopy, userState, userLink>>
links == <<state, link>>
history == <<shown, slipped, calm, faults>>
vars == <<row, public, state, link, folderCopy, fileCopy, userState, userLink,
          folderMutex, pc, req, job, view, shown, slipped, calm, faults>>

(* HasBeenOpened is a *bool *)
Link == [file : Files \cup {NoFile}, opened : {"nil", "no", "yes"}]
NoLink == [file |-> NoFile, opened |-> "nil"]

(* a row and its relation to the recipient are committed one after the other *)
Copy == [made : {"no", "alone", "related"}, root : Folders \cup {Top}]
NoCopy == [made |-> "no", root |-> Top]

NoJob == [todo |-> << >>, left |-> {}, file |-> NoFile, known |-> FALSE,
          link |-> NoLink]
NoView == [files |-> {}, others |-> {}, thirds |-> {}, left |-> {}, listed |-> {},
           rows |-> [f \in Files |-> NoLink]]
NoRequest == [kind |-> "none", from |-> Original, folder |-> Top, file |-> NoFile,
              type |-> "public", payload |-> [d \in Folders |-> {}]]

ShareSteps == {"folder", "copyFolder", "relateFolder", "count", "file", "unshare",
               "copyFile", "relateFile", "state", "publish", "limit", "link"}
Steps == ShareSteps \cup {"waiting", "files", "links", "userLinks", "fill", "again",
                          "mark", "drop", "row"}
Ended == {"ok", "failed", "forbidden", "panic", "lost"}

TypeOK ==
    /\ row \in [Files -> {"none", "live", "deleted"}]
    /\ public \subseteq Folders
    /\ state \subseteq Files /\ link \in [Hashes -> Link]
    /\ folderCopy \in [Requests \X Folders -> Copy]
    /\ fileCopy \in [Requests \X Files -> Copy]
    /\ userState \subseteq Requests \X Files
    /\ userLink \in [Hashes -> Requests \X Files \cup {<< >>}]
    /\ folderMutex \in Requests \cup {Free}
    /\ pc \in [Requests -> Steps \cup Ended \cup {"idle"}]
    /\ req \in [Requests -> [kind : AllKinds \cup {"none"},
                             from : Requests \cup {Original},
                             folder : Folders \cup {Top},
                             file : Files \cup {NoFile},
                             type : {"public", "one-time"},
                             payload : [Folders -> SUBSET Files]]]
    /\ job \in [todo : Seq(Folders), left : SUBSET Files,
                file : Files \cup {NoFile}, known : BOOLEAN, link : Link]
    /\ view \in [files : SUBSET Files, others : SUBSET Files,
                 thirds : SUBSET Files, left : SUBSET Files,
                 listed : SUBSET (Files \X Link), rows : [Files -> Link]]
    /\ shown \in [Hashes -> Nat \cup {Uncounted}]
    /\ slipped \subseteq Requests /\ calm \in BOOLEAN /\ faults \in 0..MaxFaults

Init ==
    /\ row = [f \in Files |-> IF f \in Uploaded THEN "live" ELSE "none"]
    /\ public = {} /\ state = {} /\ link = [h \in Hashes |-> NoLink]
    /\ folderCopy = [c \in Requests \X Folders |-> NoCopy]
    /\ fileCopy = [c \in Requests \X Files |-> NoCopy]
    /\ userState = {} /\ userLink = [h \in Hashes |-> << >>]
    /\ folderMutex = Free
    /\ pc = [r \in Requests |-> "idle"] /\ req = [r \in Requests |-> NoRequest]
    /\ job = NoJob /\ view = NoView
    /\ shown = [h \in Hashes |-> Uncounted] 
    /\ slipped = {} /\ calm = TRUE /\ faults = 0

-----------------------------------------------------------------------------
(* Requests                                                                *)

InFlight == {r \in Requests : pc[r] \in Steps}

(* FindFilesByRoot, of a folder or of the copy that request n has made of it *)
FilesIn(n, d) ==
    IF n = Original THEN {f \in Files : row[f] = "live" /\ Home[f] = d}
    ELSE {f \in Files : fileCopy[<<n, f>>].made # "no" /\ fileCopy[<<n, f>>].root = d}

Begins(r, q, p) ==
    /\ q.kind \in Kinds
    /\ pc[r] = "idle" /\ \A other \in Requests : pc[other] = "idle" => r <= other
    /\ Cardinality(InFlight) < MaxInFlight
    /\ pc' = [pc EXCEPT ![r] = p] /\ req' = [req EXCEPT ![r] = q]
    /\ calm' = (calm /\ InFlight = {})
    /\ UNCHANGED <<public, links, copies, folderMutex, job, view, shown, slipped,
                   faults>>

Seen == [d \in Folders |-> FilesIn(Original, d)]

ShareFolder(r, d, t) ==
    /\ Begins(r, [NoRequest EXCEPT !.kind = "public", !.folder = d, !.type = t,
                                   !.payload = Seen], "waiting")
    /\ UNCHANGED row

ShareWithUser(r, d) ==
    /\ Begins(r, [NoRequest EXCEPT !.kind = "share", !.folder = d,
                                   !.payload = Seen], "waiting")
    /\ UNCHANGED row

GetSharedFolder(r, n, d) ==
    /\ n # Original => folderCopy[<<n, d>>].made # "no"
    /\ Begins(r, [NoRequest EXCEPT !.kind = "list", !.from = n, !.folder = d],
              "waiting")
    /\ UNCHANGED row

UploadFile(r, f) ==
    /\ row[f] = "none"
    /\ Begins(r, [NoRequest EXCEPT !.kind = "upload", !.file = f], "ok")
    /\ row' = [row EXCEPT ![f] = "live"]

DeleteFile(r, f) ==
    /\ row[f] = "live"
    /\ Begins(r, [NoRequest EXCEPT !.kind = "delete", !.file = f], "drop")
    /\ UNCHANGED row

-----------------------------------------------------------------------------
At(r, p) == pc[r] = p
Goto(r, p) == pc' = [pc EXCEPT ![r] = p]

(* defer folderMutex.Unlock() *)
Answer(r, a) == /\ Goto(r, a) /\ folderMutex' = Free
                /\ job' = NoJob /\ view' = NoView

Lock(r) ==
    /\ At(r, "waiting") /\ folderMutex = Free
    /\ folderMutex' = r
    /\ \/ /\ req[r].kind = "list" /\ Goto(r, "files") /\ UNCHANGED job
       \/ /\ req[r].kind # "list" /\ Goto(r, "folder")
          /\ job' = [NoJob EXCEPT !.todo = Order[req[r].folder]]
    /\ UNCHANGED <<row, public, links, copies, req, view, history>>

-----------------------------------------------------------------------------
(* The two shares, folder by folder                                        *)

Folder == Head(job.todo)
File == job.file
Hash == HashOf[job.file]
Sharing(r, p) == At(r, p) /\ UNCHANGED <<row, req, view, slipped, calm,
                                              faults>>
WithUser(r) == req[r].kind = "share"

(* UpdateTitle, UpdateEncryptionStatus(AndCID), each committed at once *)
MarkPublic(r) ==
    /\ Sharing(r, "folder")
    /\ public' = public \cup {Folder}
    /\ job' = [job EXCEPT !.left = req[r].payload[Folder]]
    /\ Goto(r, IF WithUser(r) THEN "copyFolder" ELSE "count")
    /\ UNCHANGED <<links, copies, folderMutex, shown>>

(* the copy of a folder lies in "/", those of the others in that of their parent *)
RootOfCopy(r, d) == IF d = req[r].folder THEN Top ELSE Parent[d]

CopyFolder(r) ==
    /\ Sharing(r, "copyFolder")
    /\ folderCopy' = [folderCopy EXCEPT ![<<r, Folder>>] =
                        [made |-> "alone", root |-> RootOfCopy(r, Folder)]]
    /\ Goto(r, "relateFolder")
    /\ UNCHANGED <<public, links, fileCopy, userState, userLink, folderMutex, job,
                   shown>>

RelateFolder(r) ==
    /\ Sharing(r, "relateFolder")
    /\ folderCopy' = [folderCopy EXCEPT ![<<r, Folder>>].made = "related"]
    /\ Goto(r, "count")
    /\ UNCHANGED <<public, links, fileCopy, userState, userLink, folderMutex, job,
                   shown>>

(* as many files as the client has sent *)
CountFiles(r) ==
    /\ At(r, "count")
    /\ \/ /\ Cardinality(FilesIn(Original, Folder)) = Cardinality(job.left)
          /\ Goto(r, "file") /\ UNCHANGED <<folderMutex, job, view>>
       \/ /\ Cardinality(FilesIn(Original, Folder)) # Cardinality(job.left)
          /\ Answer(r, "failed")
    /\ UNCHANGED <<row, public, links, copies, req, history>>

(* mutant: the file that was found is not kept *)
NextFileUnset(r) ==
    /\ At(r, "file")
    /\ \E f \in job.left :
          /\ job' = [job EXCEPT !.left = @ \ {f}, !.known = FALSE]
          /\ Goto(r, IF WithUser(r) THEN "copyFile" ELSE "unshare")
    /\ UNCHANGED <<row, public, links, copies, folderMutex, req, view, history>>

(* query.FindFileByUID: a file that is gone is left out of a publication, and
   ends a share with a user *)
NextFile(r) ==
    /\ At(r, "file")
    /\ \E f \in job.left :
          \/ /\ row[f] = "live"
             /\ job' = [job EXCEPT !.left = @ \ {f}, !.file = f, !.known = FALSE]
             /\ Goto(r, IF WithUser(r) THEN "copyFile" ELSE "unshare")
             /\ UNCHANGED <<folderMutex, view>>
          \/ /\ row[f] # "live" /\ ~WithUser(r)
             /\ job' = [job EXCEPT !.left = @ \ {f}]
             /\ UNCHANGED <<pc, folderMutex, view>>
          \/ row[f] # "live" /\ WithUser(r) /\ Answer(r, "failed")
    /\ UNCHANGED <<row, public, links, copies, req, history>>

(* mutant: only the first folder is shared *)
EndsAfterOne(r) ==
    /\ At(r, "file") /\ job.left = {}
    /\ Answer(r, "ok")
    /\ UNCHANGED <<row, public, links, copies, req, history>>

(* the recursive call for the next folder, or the end *)
NextFolder(r) ==
    /\ At(r, "file") /\ job.left = {}
    /\ \/ /\ Tail(job.todo) # << >>
          /\ job' = [NoJob EXCEPT !.todo = Tail(job.todo)]
          /\ Goto(r, "folder") /\ UNCHANGED <<folderMutex, view>>
       \/ Tail(job.todo) = << >> /\ Answer(r, "ok")
    /\ UNCHANGED <<row, public, links, copies, req, history>>

-----------------------------------------------------------------------------
(* ShareFolderHandler: one file                                            *)

Cascade(S) == [h \in Hashes |-> IF link[h].file \in S THEN link[h] ELSE NoLink]

(* DeleteFileShareState; its link goes with it *)
Unshare(r) ==
    /\ Sharing(r, "unshare")
    /\ state' = state \ {File} /\ link' = Cascade(state')
    /\ Goto(r, "state")
    /\ UNCHANGED <<public, copies, folderMutex, job, shown>>

(* without effect if there still is one, whose id then is not known *)
CreateShareState(r) ==
    /\ Sharing(r, "state") /\ ~WithUser(r)
    /\ state' = state \cup {File}
    /\ job' = [job EXCEPT !.known = File \notin state]
    /\ Goto(r, "publish")
    /\ UNCHANGED <<public, link, copies, folderMutex, shown>>

(* the row with the hash, deleted and inserted again, or a new one *)
PublishFile(r) ==
    LET new == IF link[Hash] = NoLink THEN [NoLink EXCEPT !.file = File]
                                      ELSE link[Hash] IN
    /\ At(r, "publish") /\ ~WithUser(r)
    /\ \/ /\ new.file \in state
          /\ link' = [link EXCEPT ![Hash] = new]
          /\ job' = [job EXCEPT !.link = new]
          /\ Goto(r, "limit") /\ UNCHANGED <<folderMutex, view>>
       \/ new.file \notin state /\ Answer(r, "failed") /\ UNCHANGED link
    /\ UNCHANGED <<row, public, state, copies, req, history>>

(* mutant: the flag is set in a case of the switch that is not reached *)
NeverLimited(l, t) == l

(* what the share type makes of the row *)
Limited(l, t) == IF t = "one-time" THEN [l EXCEPT !.opened = "no"] ELSE l

(* Save inserts the row if it is gone, unless its state is gone too *)
Saved(h, l) == IF link[h] # NoLink \/ l.file \in state
                 THEN [link EXCEPT ![h] = l] ELSE link

(* publicFile.Save() *)
SaveLink(r) ==
    LET new == Limited(job.link, req[r].type) IN
    /\ Sharing(r, "limit")
    /\ link' = Saved(Hash, new)
    /\ job' = [job EXCEPT !.link = new]
    /\ shown' = [shown EXCEPT ![Hash] = IF new.opened = "no" THEN 0 ELSE Uncounted]
    /\ Goto(r, "link")
    /\ UNCHANGED <<public, state, copies, folderMutex>>

(* shareState.Save(): the state is inserted if it is gone, and so is the link
   of the association, whose file becomes that of the state.  A state without an
   id cannot be inserted beside another one. *)
SaveState(r) ==
    /\ Sharing(r, "link")
    /\ state' = state \cup {File}
    /\ link' = IF job.known \/ File \notin state
                 THEN [link EXCEPT ![Hash] =
                         [(IF @ = NoLink THEN job.link ELSE @) EXCEPT !.file = File]]
                 ELSE link
    /\ Goto(r, "file")
    /\ UNCHANGED <<public, copies, folderMutex, job, shown>>

-----------------------------------------------------------------------------
(* ShareWithUserHandler: one file                                          *)

CopyFile(r) ==
    /\ Sharing(r, "copyFile")
    /\ fileCopy' = [fileCopy EXCEPT ![<<r, File>>] =
                      [made |-> "alone", root |-> Folder]]
    /\ Goto(r, "relateFile")
    /\ UNCHANGED <<public, links, folderCopy, userState, userLink, folderMutex, job,
                   shown>>

RelateFile(r) ==
    /\ Sharing(r, "relateFile")
    /\ fileCopy' = [fileCopy EXCEPT ![<<r, File>>].made = "related"]
    /\ Goto(r, "state")
    /\ UNCHANGED <<public, links, folderCopy, userState, userLink, folderMutex, job,
                   shown>>

CreateShareStateUserShared(r) ==
    /\ Sharing(r, "state") /\ WithUser(r)
    /\ userState' = userState \cup {<<r, File>>}
    /\ Goto(r, "publish")
    /\ UNCHANGED <<public, links, folderCopy, fileCopy, userLink, folderMutex, job,
                   shown>>

(* a row with the hash stays that of the copy it was made for *)
PublishFileUserShared(r) ==
    /\ Sharing(r, "publish") /\ WithUser(r)
    /\ userLink' = [userLink EXCEPT ![Hash] = IF @ = << >> THEN <<r, File>> ELSE @]
    /\ Goto(r, "file")
    /\ UNCHANGED <<public, links, folderCopy, fileCopy, userState, folderMutex, job,
                   shown>>

-----------------------------------------------------------------------------
(* GET /folder/shared-uid/:uid                                             *)

Listing(r, p) == At(r, p) /\ UNCHANGED <<row, public, state, copies, req, job,
                                         slipped, calm, faults>>
Now(r) == FilesIn(req[r].from, req[r].folder)

ReadFiles(r) ==
    /\ Listing(r, "files")
    /\ view' = [view EXCEPT !.files = Now(r), !.left = Now(r)]
    /\ Goto(r, "links") /\ UNCHANGED <<link, folderMutex, shown>>

(* the link of a file, a row of zeros if it has none *)
LinkOf(n, f) == IF n = Original /\ link[HashOf[f]].file = f THEN link[HashOf[f]]
                                                            ELSE NoLink

(* FindPublicFilesByRoot looks for the files again *)
ReadLinks(r) ==
    /\ Listing(r, "links")
    /\ view' = [view EXCEPT !.others = Now(r),
                            !.rows = [f \in Files |-> LinkOf(req[r].from, f)]]
    /\ Goto(r, "userLinks") /\ UNCHANGED <<link, folderMutex, shown>>

(* and so does FindPublicFilesUserSharedByRoot *)
ReadUserLinks(r) ==
    /\ Listing(r, "userLinks")
    /\ view' = [view EXCEPT !.thirds = Now(r)]
    /\ Goto(r, "fill") /\ UNCHANGED <<link, folderMutex, shown>>

SameLength == Cardinality(view.files) = Cardinality(view.others)

(* another number of links than files: the links of the copies are taken, by
   the index of the file *)
FillFromCopies(r) ==
    /\ Listing(r, "fill") /\ ~SameLength
    /\ Answer(r, IF Cardinality(view.thirds) < Cardinality(view.files)
                   THEN "panic" ELSE "ok")
    /\ UNCHANGED <<link, shown>>

(* mutant: the last link for the first file *)
RowFromEnd(f) ==
    view.rows[CHOOSE g \in view.others :
                Cardinality({x \in view.others : x > g})
                    = Cardinality({x \in view.files : x < f})]

(* publicfilesInFolder[i] for filesInFolder[i] *)
RowFor(f) ==
    view.rows[CHOOSE g \in view.others :
                Cardinality({x \in view.others : x < g})
                    = Cardinality({x \in view.files : x < f})]

ThisFile == Min(view.left)

(* CreateFileForSharedFile looks for the share state of the next file, *)
FillFile(r) ==
    /\ Listing(r, "fill") /\ SameLength /\ view.left # {}
    /\ Goto(r, IF req[r].from = Original /\ ThisFile \in state THEN "again" ELSE "mark")
    /\ UNCHANGED <<link, folderMutex, view, shown>>

(* and if it finds one is called again; what it returns then is dereferenced *)
FillAgain(r) ==
    /\ Listing(r, "again")
    /\ \/ /\ ThisFile \in state
          /\ view' = [view EXCEPT !.listed = @ \cup {<<ThisFile, RowFor(ThisFile)>>}]
          /\ Goto(r, "mark") /\ UNCHANGED folderMutex
       \/ ThisFile \notin state /\ Answer(r, "panic")
    /\ UNCHANGED <<link, shown>>

Passed == [view EXCEPT !.left = @ \ {ThisFile}]

(* mutant: the flag is set after the link was saved *)
OpenedLater(l) == l

Opened(l) == [l EXCEPT !.opened = "yes"]

(* the link that was read is checked and, if it is one-time, marked *)
MarkOpened(r) ==
    LET l == RowFor(ThisFile) IN
    /\ Listing(r, "mark")
    /\ \/ l.opened = "yes" /\ Answer(r, "forbidden") /\ UNCHANGED link
       \/ /\ l.opened # "yes"
          /\ link' = IF l.opened = "no" THEN Saved(HashOf[l.file], Opened(l)) ELSE link
          /\ view' = Passed
          /\ Goto(r, "fill") /\ UNCHANGED folderMutex
    /\ UNCHANGED shown

AnswerFolder(r) ==
    /\ Listing(r, "fill") /\ SameLength /\ view.left = {}
    /\ shown' = [h \in Hashes |->
                   IF shown[h] # Uncounted
                      /\ \E e \in view.listed : e[2].opened = "no"
                                                /\ HashOf[e[2].file] = h
                     THEN shown[h] + 1 ELSE shown[h]]
    /\ Answer(r, "ok")
    /\ UNCHANGED link

-----------------------------------------------------------------------------
(* DeleteFile, without the mutex                                           *)

DropShareStates(r) ==
    /\ At(r, "drop")
    /\ state' = state \ {req[r].file} /\ link' = Cascade(state')
    /\ Goto(r, "row")
    /\ UNCHANGED <<row, public, copies, folderMutex, req, job, view, history>>

DeleteRow(r) ==
    /\ At(r, "row")
    /\ row' = [row EXCEPT ![req[r].file] = "deleted"]
    /\ Goto(r, "ok")
    /\ UNCHANGED <<public, links, copies, folderMutex, req, job, view, history>>

-----------------------------------------------------------------------------
(* Failures                                                                *)

Fault == faults < MaxFaults /\ faults' = faults + 1 /\ calm' = FALSE

Checked(r) ==
    \/ pc[r] \in {"folder", "copyFolder", "relateFolder", "copyFile", "relateFile",
                  "publish", "files", "links", "userLinks"}
    \/ pc[r] \in {"file", "state"} /\ WithUser(r)
    \/ pc[r] = "count" /\ (WithUser(r) \/ job.left # {})

StatementFails(r) ==
    /\ Fault /\ Checked(r) /\ Answer(r, "failed")
    /\ UNCHANGED <<row, public, links, copies, req, shown, slipped>>

(* An error that nobody looks at: no file is found, an old link or state stays,
   a state or a limit is not written, a listed link is not marked. *)
StatementFailsUnnoticed(r) ==
    /\ Fault /\ slipped' = slipped \cup {r}
    /\ \/ /\ pc[r] = "file" /\ ~WithUser(r)
          /\ \E f \in job.left : job' = [job EXCEPT !.left = @ \ {f}]
          /\ UNCHANGED <<pc, view>>
       \/ pc[r] = "unshare" /\ Goto(r, "state") /\ UNCHANGED <<job, view>>
       \/ pc[r] = "state" /\ ~WithUser(r) /\ Goto(r, "publish") /\ UNCHANGED <<job, view>>
       \/ /\ pc[r] = "limit" /\ Goto(r, "link")
          /\ job' = [job EXCEPT !.link = Limited(@, req[r].type)]
          /\ UNCHANGED view
       \/ pc[r] = "link" /\ Goto(r, "file") /\ UNCHANGED <<job, view>>
       \/ /\ pc[r] = "mark" /\ RowFor(ThisFile).opened = "no"
          /\ view' = Passed /\ Goto(r, "fill") /\ UNCHANGED job
    /\ UNCHANGED <<row, public, links, copies, folderMutex, req, shown>>

(* The share state of a file is not found: the file is left out, but the second
   time a nil pointer is dereferenced. *)
LookupFails(r) ==
    /\ Fault /\ req[r].from = Original
    /\ \/ /\ pc[r] = "fill" /\ SameLength /\ view.left # {}
          /\ Goto(r, "mark") /\ UNCHANGED <<folderMutex, job, view>>
       \/ pc[r] = "again" /\ Answer(r, "panic")
    /\ UNCHANGED <<row, public, links, copies, req, shown, slipped>>

Crash ==
    /\ Fault /\ InFlight # {}
    /\ pc' = [r \in Requests |-> IF r \in InFlight THEN "lost" ELSE pc[r]]
    /\ folderMutex' = Free /\ job' = NoJob /\ view' = NoView
    /\ UNCHANGED <<row, public, links, copies, req, shown, slipped>>

-----------------------------------------------------------------------------
Calls(r) ==
    \/ \E d \in Folders :
          \/ \E t \in Types : ShareFolder(r, d, t)
          \/ ShareWithUser(r, d)
          \/ \E n \in Requests \cup {Original} : GetSharedFolder(r, n, d)
    \/ \E f \in Files : UploadFile(r, f) \/ DeleteFile(r, f)

Step(r) ==
    \/ MarkPublic(r) \/ CopyFolder(r) \/ RelateFolder(r) \/ CountFiles(r)
    \/ NextFile(r) \/ NextFolder(r)
    \/ Unshare(r) \/ CreateShareState(r) \/ PublishFile(r) \/ SaveLink(r)
    \/ SaveState(r)
    \/ CopyFile(r) \/ RelateFile(r) \/ CreateShareStateUserShared(r)
    \/ PublishFileUserShared(r)
    \/ ReadFiles(r) \/ ReadLinks(r) \/ ReadUserLinks(r) \/ FillFromCopies(r)
    \/ FillFile(r) \/ FillAgain(r) \/ MarkOpened(r) \/ AnswerFolder(r)
    \/ DropShareStates(r) \/ DeleteRow(r)

Next ==
    \/ \E r \in Requests : \/ Calls(r) \/ Lock(r) \/ Step(r)
                           \/ StatementFails(r) \/ StatementFailsUnnoticed(r)
                           \/ LookupFails(r)
    \/ Crash

(* A handler goes on (weak fairness), and gets folderMutex when it waits for
   it, as sync.Mutex starves nobody (strong fairness).  *)
Fairness == \A r \in Requests : WF_vars(Step(r)) /\ SF_vars(Lock(r))

Spec == Init /\ [][Next]_vars /\ Fairness

-----------------------------------------------------------------------------
(* Properties                                                              *)

Answered(r) == pc[r] # "ok" /\ pc'[r] = "ok"
Shared(r) == {Order[req[r].folder][i] : i \in DOMAIN Order[req[r].folder]}

(* A one-time link is listed once, whichever requests to the folder, the share
   and the link's file overlap; a listing more is one that failed to mark it. *)
OneTimeListedOnce == \A h \in Hashes : shown[h] <= 1 + Cardinality(slipped)

(* The rows are well-formed, and a one-time link is listed once.  *)
SharesInv == TypeOK /\ OneTimeListedOnce

(* A folder that has been shared with a user, as the answer says, was copied as
   a whole: each folder in the copy of its parent, each file in that of its
   folder, each with its relation, and each file with a share state.  *)
Mirrored(r) ==
    \A d \in Shared(r) :
       /\ folderCopy[<<r, d>>] =
             [made |-> "related", root |-> IF d = req[r].folder THEN Top ELSE Parent[d]]
       /\ \A f \in req[r].payload[d] :
             /\ fileCopy[<<r, f>>] = [made |-> "related", root |-> d]
             /\ <<r, f>> \in userState
             /\ userLink[HashOf[f]] # << >>

CopiesAreWhole == [][\A r \in Requests :
    Answered(r) /\ req[r].kind = "share" => Mirrored(r)']_vars

(* A folder that has been shared for everybody, as the answer says: each file
   that was sent and that nobody deletes has a share state, and its hash a link
   of a file of that share; a one-time link can be opened once from then on. *)
BeingDeleted == {req[q].file : q \in {q \in Requests : req[q].kind = "delete"}}
SentFiles(r) == UNION {req[r].payload[d] : d \in Shared(r)}
SameHash(f) == {g \in Files : HashOf[g] = HashOf[f]}

Published(r) ==
    \A f \in SentFiles(r) : SameHash(f) \cap BeingDeleted = {} =>
       /\ f \in state
       /\ link[HashOf[f]].file \in SentFiles(r) \cap SameHash(f)
       /\ req[r].type = "one-time" => link[HashOf[f]].opened = "no"

PublicationsAreWhole == [][\A r \in Requests \ slipped :
    Answered(r) /\ req[r].kind = "public" => Published(r)']_vars

(* While nothing overlaps or fails, opening a shared folder does not panic, and
   lists each file in it that has a share state, with the link of that file. *)
ListingsAreComplete == [][\A r \in Requests :
    req[r].kind = "list" /\ folderMutex = r /\ calm' =>
       /\ pc'[r] # "panic"
       /\ Answered(r) /\ req[r].from = Original =>
             view.listed = {<<f, view.rows[f]>> :
                               f \in FilesIn(Original, req[r].folder) \cap state}]_vars

(* What is answered of a folder is true of all of it: a copy, a publication or a
   listing is whole.  *)
SharesAreWhole ==
    /\ CopiesAreWhole
    /\ PublicationsAreWhole
    /\ ListingsAreComplete

(* Every request is answered, or lost in a crash, however others fail. *)
RequestsAreAnswered == \A r \in Requests : pc[r] \in Steps ~> pc[r] \in Ended

-----------------------------------------------------------------------------
(* What one might expect of the code, and TLC finds violated               *)

(* One who opens a folder that was shared with a user sees its files. *)
RecipientsSeeFiles == [][\A r \in Requests :
    Answered(r) /\ req[r].kind = "list" /\ req[r].from # Original
        => view.files = {} \/ view.listed # {}]_vars

(* Opening a folder does not panic, whatever is deleted meanwhile. *)
NoListingPanics == \A r \in Requests : pc[r] # "panic"

(* A one-time link that a listing marks as opened is listed by it. *)
MarkedAreListed == [][\A r \in Requests :
    pc'[r] = "forbidden" /\ pc[r] = "mark" => \A e \in view.listed : e[2].opened # "no"]_vars

(* A file that is published for one opening never has a link without a limit. *)
OneTimeIsLimited == \A f \in Files : \A r \in Requests :
    /\ req[r].kind = "public" /\ pc[r] \in Ended /\ f \in SentFiles(r)
    /\ \A q \in Requests : req[q].kind = "public" => req[q].type = "one-time"
    => link[HashOf[f]] = NoLink \/ link[HashOf[f]].opened # "nil"

(* Every file of a folder that was shared for everybody has a link. *)
EachFileHasLink == [][\A r \in Requests \ slipped :
    Answered(r) /\ req[r].kind = "public" =>
       \A f \in SentFiles(r) \ BeingDeleted : link'[HashOf[f]].file = f]_vars

(* A deleted file has no share state and no link. *)
DeletedAreNotShared == InFlight = {} =>
    \A f \in Files : row[f] = "deleted" => f \notin state
=============================================================================
