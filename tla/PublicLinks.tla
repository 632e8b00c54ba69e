----------------------------- MODULE PublicLinks -----------------------------
(***************************************************************************)
(* Links to files: share states, publish (public, one-time, monthly),      *)
(* unpublish, opening a link, share groups, and what sharing with a user   *)
(* and DeleteFile do to them.                                              *)
(*                                                                         *)
(* A handler reads through db.Db() and writes through its transaction.     *)
(* Its reads are steps of their own; its writes and the commit are one     *)
(* step, because the first write locks the row or the unique key that      *)
(* another handler would have to write.  The fileMutex of the handlers is  *)
(* a local variable and excludes nobody.                                   *)
(*                                                                         *)
(* A share hash is computed from name, MIME type and size, so different    *)
(* files may have the same one, and a renamed file has another.            *)
(***************************************************************************)
EXTENDS Integers, FiniteSets

CONSTANTS
    Files,          \* file uids, those of copies that a share makes included
    Uploaded,       \* the files that exist at the start
    Hashes,
    HashesOf,       \* Files -> SUBSET Hashes: what its names hash to
    Reqs,           \* slots for requests in flight
    Handlers,       \* the routes that clients call
    Types,          \* the share types they ask for
    MaxRequests     \* bound: requests ever started

Routes == {"state", "publish", "unpublish", "open", "group", "share", "delete"}

NoFile == "-"

ASSUME LinksAssumption ==
    /\ Files # {} /\ NoFile \notin Files /\ Uploaded \subseteq Files /\ Hashes # {}
    /\ HashesOf \in [Files -> SUBSET Hashes]
    /\ Handlers \subseteq Routes
    /\ Types \subseteq {"public", "one-time", "monthly"}
    /\ MaxRequests \in Nat

VARIABLES
    file,           \* Files -> "absent", "live", "deleted", or "removed" by
                    \* somebody else than the user it was shared with
    state,          \* the files with a row in file_share_states
    received,       \* the files with a row in file_share_states_user_shared
    link,           \* ids -> rows of public_files
    userLink,       \* ids -> rows of public_files_user_shared
    nextId,         \* the sequences of their ids
    groups,         \* rows of share_group
    members,        \* public_file_share_group: group -> its share hashes
    pc, req,        \* the requests
    opens,          \* history: Ids -> how often the link was opened since it
                    \* was published as one-time, Uncounted otherwise
    started

tables == <<file, state, received, link, userLink, nextId, groups, members>>
vars == <<file, state, received, link, userLink, nextId, groups, members, pc,
          req, opens, started>>

Uncounted == -1
Ids == 1..MaxRequests       \* a request inserts one row at most
NoId == 0

(* HasBeenOpened is a *bool; ExpireAt is nil, to come or over *)
Row == [file : Files \cup {NoFile}, hash : Hashes,
        opened : {"nil", "no", "yes"}, expires : {"nil", "later", "over"}]
NoRow == [file |-> NoFile, hash |-> CHOOSE h \in Hashes : TRUE,
          opened |-> "nil", expires |-> "nil"]
NoRequest == [route |-> "none", file |-> CHOOSE f \in Files : TRUE,
              hash |-> NoRow.hash, type |-> "public", id |-> NoId, row |-> NoRow,
              create |-> FALSE, own |-> TRUE]

TypeOK ==
    /\ file \in [Files -> {"absent", "live", "deleted", "removed"}]
    /\ state \subseteq Files /\ received \subseteq Files
    /\ link \in [Ids -> Row] /\ userLink \in [Ids -> Row]
    /\ nextId \in 1..(MaxRequests + 1)
    /\ groups \subseteq Ids /\ members \in [Ids -> SUBSET Hashes]
    /\ pc \in [Reqs -> {"idle", "file", "state", "hash", "write", "row", "save",
                        "unshare", "ok", "error", "panic"}]
    /\ req \in [Reqs -> [route : Routes \cup {"none"}, file : Files,
                         hash : Hashes, type : {"public", "one-time", "monthly"},
                         id : Ids \cup {NoId}, row : Row, create : BOOLEAN,
                         own : BOOLEAN]]
    /\ opens \in [Ids -> Nat \cup {Uncounted}]
    /\ started \in 0..MaxRequests

Init ==
    /\ file = [f \in Files |-> IF f \in Uploaded THEN "live" ELSE "absent"]
    /\ state = {} /\ received = {}
    /\ link = [i \in Ids |-> NoRow] /\ userLink = [i \in Ids |-> NoRow]
    /\ nextId = 1 /\ groups = {} /\ members = [i \in Ids |-> {}]
    /\ pc = [r \in Reqs |-> "idle"] /\ req = [r \in Reqs |-> NoRequest]
    /\ opens = [i \in Ids |-> Uncounted] /\ started = 0

-----------------------------------------------------------------------------
(* Requests                                                                *)

(* a panic is answered by the recovery of gin *)
Finished == {"idle", "ok", "error", "panic"}

Call(r, p, q) ==
    /\ q.route \in Handlers /\ pc[r] \in Finished /\ started < MaxRequests
    /\ started' = started + 1
    /\ pc' = [pc EXCEPT ![r] = p] /\ req' = [req EXCEPT ![r] = q]
    /\ UNCHANGED <<tables, opens>>

GetShareState(r, f) ==
    Call(r, "file", [NoRequest EXCEPT !.route = "state", !.file = f])

(* POST /share/custom-type/:shareType; name, type and size of the file are the
   client's *)
PublishFile(r, f, h, t) ==
    Call(r, "file", [NoRequest EXCEPT !.route = "publish", !.file = f,
                                      !.hash = h, !.type = t])

UnpublishFile(r, f) ==
    Call(r, "file", [NoRequest EXCEPT !.route = "unpublish", !.file = f])

GetPublishedFile(r, h) ==
    Call(r, "row", [NoRequest EXCEPT !.route = "open", !.hash = h])

(* of a file that has been shared with the caller, if with anybody, or not *)
DeleteFile(r, f, own) ==
    Call(r, "file", [NoRequest EXCEPT !.route = "delete", !.file = f, !.own = own])

-----------------------------------------------------------------------------
(* Reads                                                                   *)

At(r, p, route) == pc[r] = p /\ req[r].route = route
Goto(r, p) == pc' = [pc EXCEPT ![r] = p]
Reads(r, p, q) == /\ Goto(r, p) /\ req' = [req EXCEPT ![r] = q]
                  /\ UNCHANGED <<tables, opens, started>>

(* query.FindFileByUID *)
FindFile(r) ==
    /\ pc[r] = "file"
    /\ Reads(r, IF file[req[r].file] # "live" THEN "error"
                ELSE IF req[r].route = "delete" THEN "unshare" ELSE "state",
             req[r])

(* the row with the lowest id among those of S: First orders by primary key *)
FirstOf(S, i) == i \in S /\ \A j \in S : i <= j

RowsOf(table, f) == {i \in Ids : table[i].file = f}
RowsWith(table, h) == {i \in Ids : table[i].file # NoFile /\ table[i].hash = h}

AfterState(r) == IF req[r].route = "publish" THEN "hash" ELSE "write"

(* FindShareStateByFileUID preloads the public file of the state.  Without a
   state, but with one of the other table, it returns nil and no error. *)
FindShareState(r) ==
    LET f == req[r].file IN
    /\ pc[r] = "state"
    /\ \/ /\ f \in state
          /\ \/ \E i \in RowsOf(link, f) :
                   Reads(r, IF req[r].route = "state" THEN "ok" ELSE AfterState(r),
                         [req[r] EXCEPT !.id = i, !.row = link[i]])
             \/ /\ RowsOf(link, f) = {}
                /\ Reads(r, IF req[r].route = "state" THEN "ok" ELSE AfterState(r),
                         req[r])
       \/ /\ f \notin state /\ f \in received
          /\ Reads(r, IF req[r].route = "state" THEN "ok" ELSE "panic", req[r])
       \/ /\ f \notin state /\ f \notin received
          /\ Reads(r, AfterState(r), [req[r] EXCEPT !.create = TRUE])

(* mutant: the old row is not looked for *)
FindNoOldRow(r) ==
    /\ At(r, "hash", "publish")
    /\ Reads(r, "write", [req[r] EXCEPT !.id = NoId,
                                        !.row = [NoRow EXCEPT !.file = req[r].file,
                                                              !.hash = req[r].hash]])

(* query.PublishFile reads the row with the share hash, deleted or not, into
   the new one: id, file and HasBeenOpened are the old ones *)
FindOldRow(r) ==
    /\ At(r, "hash", "publish")
    /\ \/ \E i \in RowsWith(link, req[r].hash) :
             /\ FirstOf(RowsWith(link, req[r].hash), i)
             /\ Reads(r, "write", [req[r] EXCEPT !.id = i, !.row = link[i]])
       \/ /\ RowsWith(link, req[r].hash) = {}
          /\ Reads(r, "write",
                   [req[r] EXCEPT !.id = NoId,
                                  !.row = [NoRow EXCEPT !.file = req[r].file,
                                                        !.hash = req[r].hash]])

(* the handler of an open link: the checks *)
FindPublicFileByHash(r) ==
    LET L == RowsWith(link, req[r].hash)
        U == RowsWith(userLink, req[r].hash)
        Answer(i) ==
            IF link[i].opened = "yes" \/ link[i].expires = "over" THEN "error"
            ELSE IF link[i].opened = "no" THEN "save"
            ELSE "write"
    IN  /\ pc[r] = "row"
        /\ \/ \E i \in L : /\ FirstOf(L, i)
                           /\ Reads(r, Answer(i), [req[r] EXCEPT !.id = i,
                                                                 !.row = link[i]])
           \/ /\ L = {}
              /\ \E i \in U : /\ FirstOf(U, i)
                              /\ Reads(r, "write",
                                       [req[r] EXCEPT !.row = userLink[i]])
           \/ L = {} /\ U = {} /\ Reads(r, "error", req[r])

-----------------------------------------------------------------------------
(* Writes and commits                                                      *)

Fails(r) == Goto(r, "error") /\ UNCHANGED <<tables, req, opens, started>>

(* CreateShareState: file_uid is unique *)
MayCreate(r) == req[r].create => req[r].file \notin state
Created(r) == IF req[r].create THEN state \cup {req[r].file} ELSE state

WriteShareState(r) ==
    /\ At(r, "write", "state")
    /\ \/ /\ MayCreate(r)
          /\ state' = Created(r) /\ Goto(r, "ok")
          /\ UNCHANGED <<file, received, link, userLink, nextId, groups, members,
                         req, opens, started>>
       \/ ~MayCreate(r) /\ Fails(r)

(* what the share type makes of the row *)
Typed(row, t) ==
    CASE t = "public" -> [row EXCEPT !.expires = "nil"]
      [] t = "one-time" -> [row EXCEPT !.opened = "no", !.expires = "nil"]
      [] t = "monthly" -> [row EXCEPT !.opened = "nil", !.expires = "later"]

(* public_files: file_uid is unique, and refers to file_share_states *)
MayInsert(r, row) ==
    /\ row.file \in Created(r)
    /\ RowsOf(link, row.file) \subseteq {req[r].id}

WritePublicFile(r) ==
    LET q == req[r]
        i == IF q.id = NoId THEN nextId ELSE q.id
        may == MayCreate(r) /\ MayInsert(r, q.row)
    IN  /\ At(r, "write", "publish")
        /\ \/ /\ may
              /\ state' = Created(r)
              /\ link' = [link EXCEPT ![i] = Typed(q.row, q.type)]
              /\ opens' = [opens EXCEPT ![i] =
                              IF q.type = "one-time" THEN 0 ELSE Uncounted]
              /\ nextId' = IF q.id = NoId THEN nextId + 1 ELSE nextId
              /\ Goto(r, "ok")
              /\ UNCHANGED <<file, received, userLink, groups, members, req,
                             started>>
           (* or it waited for another one that wrote the row anew *)
           \/ (~may \/ (q.id # NoId /\ link[q.id] # q.row)) /\ Fails(r)

(* mutant: all records of the groups that have the link *)
EmptyGroups(h) == [g \in Ids |-> IF h \in members[g] THEN {} ELSE members[g]]

(* DeletePublicFileShareGroupByShareHash: the first record with the hash *)
LeaveGroup(h) ==
    LET G == {g \in Ids : h \in members[g]} IN
    [g \in Ids |-> IF FirstOf(G, g) THEN members[g] \ {h} ELSE members[g]]

(* mutant: the flag is reset and the row is kept *)
FlagReset(i) == IF i = NoId THEN link ELSE [link EXCEPT ![i].opened = "nil"]

(* publicFile.TxDelete, if the state has a public file *)
Unlinked(i) == IF i = NoId THEN link ELSE [link EXCEPT ![i] = NoRow]

(* DeleteEmptyShareGroup looks for a group whose own hash is the share hash;
   group hashes are others.  The state is saved, or inserted again. *)
WriteUnpublished(r) ==
    LET q == req[r] IN
    /\ At(r, "write", "unpublish")
    /\ \/ /\ MayCreate(r)
          /\ state' = state \cup {q.file}
          /\ link' = Unlinked(q.id)
          /\ members' = IF q.id = NoId THEN members ELSE LeaveGroup(q.row.hash)
          /\ Goto(r, "ok")
          /\ UNCHANGED <<file, received, userLink, nextId, groups, req, opens,
                         started>>
       \/ ~MayCreate(r) /\ Fails(r)

(* mutant: HasBeenOpened is not set *)
StaysUnopened(row) == row

(* mutant: the other column is set *)
ExpiresInstead(row) == [row EXCEPT !.expires = "yes"]

Opened(row) == [row EXCEPT !.opened = "yes"]

CountOpen(i) == opens' = [j \in Ids |-> IF j = i /\ opens[j] # Uncounted
                                          THEN opens[j] + 1 ELSE opens[j]]

(* TxSave writes every column of the row that was read, and inserts it when
   there is no row with its id any more *)
SaveOpened(r) ==
    LET q == req[r]
        may == link[q.id] # NoRow \/ MayInsert(r, q.row)
    IN  /\ pc[r] = "save"
        /\ \/ /\ may /\ file[q.row.file] = "live"
              /\ link' = [link EXCEPT ![q.id] = Opened(q.row)]
              /\ CountOpen(q.id)
              /\ Goto(r, "ok")
              /\ UNCHANGED <<file, state, received, userLink, nextId, groups,
                             members, req, started>>
           \/ ~(may /\ file[q.row.file] = "live") /\ Fails(r)

(* a link that may be opened any time: only the file is looked up *)
AnswerOpen(r) ==
    /\ At(r, "write", "open")
    /\ \/ /\ file[req[r].row.file] = "live"
          /\ Goto(r, "ok") /\ CountOpen(req[r].id)
          /\ UNCHANGED <<tables, req, started>>
       \/ file[req[r].row.file] # "live" /\ Fails(r)

(* POST /share/group, in one transaction *)
CreateGroup(r, H) ==
    /\ "group" \in Handlers /\ pc[r] \in Finished /\ started < MaxRequests
    /\ started' = started + 1
    /\ groups' = groups \cup {nextId}
    /\ members' = [members EXCEPT ![nextId] = H]
    /\ nextId' = nextId + 1
    /\ pc' = [pc EXCEPT ![r] = "ok"] /\ req' = [req EXCEPT ![r] = NoRequest]
    /\ UNCHANGED <<file, state, received, link, userLink, opens>>

(* the rows of a table that the states in S leave *)
Cascade(table, S) == [i \in Ids |-> IF table[i].file \in S THEN table[i] ELSE NoRow]

(* POST /share/:shareType/:user makes a copy g of the file f.  A recipient who
   shares it with themself loses the state of f first.  PublishFileUserShared
   reuses the row with the share hash, whosever it is.  The copy is committed before
   the rest of it starts, and stays when the rest is rolled back. *)
ShareFile(r, f, g, h) ==
    \E others \in {received, received \ {f}} :
        LET rows == Cascade(userLink, others) IN
        /\ "share" \in Handlers /\ pc[r] \in Finished /\ started < MaxRequests
        /\ started' = started + 1
        /\ file[f] = "live" /\ file[g] = "absent"
        /\ file' = [file EXCEPT ![g] = "live"]
        /\ \/ /\ RowsWith(rows, h) = {}
              /\ received' = others \cup {g}
              /\ userLink' = [rows EXCEPT ![nextId] =
                                 [NoRow EXCEPT !.file = g, !.hash = h]]
              /\ nextId' = nextId + 1
              /\ Goto(r, "ok")
           \/ /\ RowsWith(rows, h) # {}
              /\ received' = others \cup {g}
              /\ userLink' = rows /\ UNCHANGED nextId
              /\ Goto(r, "ok")
           \/ /\ received' = others /\ userLink' = rows /\ UNCHANGED nextId
              /\ Goto(r, "error")
        /\ req' = [req EXCEPT ![r] = NoRequest]
        /\ UNCHANGED <<state, link, groups, members, opens>>

(* mutant: the share state of a deleted file is kept *)
KeepShareState(r) ==
    /\ pc[r] = "unshare"
    /\ Goto(r, "write")
    /\ UNCHANGED <<tables, req, opens, started>>

(* DeleteFileShareState and DeleteFileShareStatesUserShared, on db.Db() and at
   once; the rows of the links go with them.  The second one looks for a state of
   the caller: that of another recipient stays. *)
DeleteShareStates(r) ==
    LET f == req[r].file IN
    /\ pc[r] = "unshare"
    /\ state' = state \ {f} /\ link' = Cascade(link, state')
    /\ received' = IF req[r].own THEN received \ {f} ELSE received
    /\ userLink' = Cascade(userLink, received')
    /\ Goto(r, "write")
    /\ UNCHANGED <<file, nextId, groups, members, req, opens, started>>

(* the rest of DeleteFile, which may fail *)
WriteDeleted(r) ==
    /\ At(r, "write", "delete")
    /\ \/ /\ file' = [file EXCEPT ![req[r].file] =
                           IF req[r].own THEN "deleted" ELSE "removed"]
          /\ Goto(r, "ok")
          /\ UNCHANGED <<state, received, link, userLink, nextId, groups,
                         members, req, opens, started>>
       \/ Fails(r)

(* a month passes *)
Expire(i) ==
    /\ link[i].expires = "later"
    /\ link' = [link EXCEPT ![i].expires = "over"]
    /\ UNCHANGED <<file, state, received, userLink, nextId, groups, members, pc,
                   req, opens, started>>

-----------------------------------------------------------------------------
Calls(r) ==
    \/ \E f \in Files :
          \/ GetShareState(r, f) \/ UnpublishFile(r, f)
          \/ \E own \in BOOLEAN : DeleteFile(r, f, own)
          \/ \E h \in HashesOf[f], t \in Types : PublishFile(r, f, h, t)
          \/ \E h \in HashesOf[f], g \in Files : ShareFile(r, f, g, h)
    \/ \E h \in Hashes : GetPublishedFile(r, h)
    \/ \E H \in SUBSET Hashes \ {{}} : CreateGroup(r, H)

Step(r) ==
    \/ FindFile(r) \/ FindShareState(r) \/ FindOldRow(r)
    \/ FindPublicFileByHash(r)
    \/ WriteShareState(r) \/ WritePublicFile(r) \/ WriteUnpublished(r)
    \/ SaveOpened(r) \/ AnswerOpen(r)
    \/ DeleteShareStates(r) \/ WriteDeleted(r)

Next == \/ \E r \in Reqs : Calls(r) \/ Step(r)
        \/ \E i \in Ids : Expire(i)

Spec == Init /\ [][Next]_vars

-----------------------------------------------------------------------------
(* Properties for any interleaving                                         *)

Openable(row) == /\ row.file # NoFile
                 /\ row.opened # "yes" /\ row.expires # "over"

Wrote(r, route) == At(r, "write", route) /\ pc'[r] = "ok"

(* A link that cannot be opened (used, expired, unpublished, of a deleted file)
   becomes one that can only when a file is published: no late write of a
   request in flight opens it again. *)
OnlyPublishReopens ==
    [][\A i \in Ids :
         ~Openable(link[i]) /\ Openable(link'[i]) =>
             \E r \in Reqs : Wrote(r, "publish")]_vars

-----------------------------------------------------------------------------
(* Properties of requests that run one after the other                     *)

Answered(r, route) == pc[r] = "ok" /\ req[r].route = route

(* A one-time link is opened once. *)
OneTimeOpensOnce == \A i \in Ids : opens[i] <= 1

(* A share hash names one link: publishing writes the row with the hash anew
   instead of adding another. *)
HashNamesOneLink ==
    \A i, j \in Ids :
        /\ i # j /\ link[i].file # NoFile /\ link[j].file # NoFile
        => link[i].hash # link[j].hash

(* A deleted file leaves no share state behind and no link.  The state and the link that
   a user got with a shared copy go when that user deletes the copy, and stay when
   somebody else does.  *)
DeletedFilesHaveNoLink ==
    (\A r \in Reqs : pc[r] \in Finished) => \A f \in Files :
        /\ file[f] \in {"deleted", "removed"} => f \notin state /\ RowsOf(link, f) = {}
        /\ file[f] = "deleted" => f \notin received /\ RowsOf(userLink, f) = {}

(* The rows are well-formed, and the links of a file do not outlive it.  *)
LinksInv == TypeOK /\ DeletedFilesHaveNoLink

(* A link leaves a group in the step in which it is unpublished and in no other,
   and takes no other link along: records of groups and links are related by the
   share hash alone, which files may have in common and publications reuse. *)
GroupsLoseOnlyUnpublished ==
    [][\A g \in groups : \A h \in members[g] \ members'[g] :
         RowsWith(link, h) # {} /\ RowsWith(link', h) = {}]_vars

-----------------------------------------------------------------------------
(* What the comments of the code say, and it does not do                   *)

(* A file that has just been published as public can be opened. *)
PublicLinksOpen ==
    \A r \in Reqs : Answered(r, "publish") /\ req[r].type = "public" =>
        \E i \in RowsWith(link, req[r].hash) : Openable(link[i])

(* The link that a publication answers with is a link to the published file. *)
LinksAreOfTheirFile ==
    \A r \in Reqs : Answered(r, "publish") =>
        \E i \in RowsWith(link, req[r].hash) : link[i].file = req[r].file

(* Opening a one-time link changes nothing but its HasBeenOpened. *)
OpeningOnlyMarks ==
    [][\A r \in Reqs : pc[r] = "save" /\ pc'[r] = "ok" =>
         \E i \in Ids : link' = [link EXCEPT ![i].opened = "yes"]]_vars

(* A file without a share state gets one; the handlers do not panic. *)
NoHandlerPanics == \A r \in Reqs : pc[r] # "panic"

(* A group whose last link is unpublished is deleted. *)
EmptyGroupsAreDeleted == \A g \in groups : members[g] # {}
=============================================================================
