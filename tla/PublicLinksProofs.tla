-------------------------- MODULE PublicLinksProofs --------------------------
(* Links, for any files, hashes, share types and requests. *)
EXTENDS PublicLinks, TLAPS

-----------------------------------------------------------------------------
(* Types                                                                   *)

Request == [route : Routes \cup {"none"}, file : Files, hash : Hashes,
            type : {"public", "one-time", "monthly"}, id : Ids \cup {NoId},
            row : Row, create : BOOLEAN, own : BOOLEAN]

Progress == {"idle", "file", "state", "hash", "write", "row", "save", "unshare",
             "ok", "error", "panic"}

(* The rows and the requests are of their types, however requests interleave.  That
   ids stay within Ids is shown below for requests one after the other. *)
RowsTyped ==
    /\ link \in [Ids -> Row] /\ userLink \in [Ids -> Row]
    /\ pc \in [Reqs -> Progress] /\ req \in [Reqs -> Request]
    /\ opens \in [Ids -> Int] /\ nextId \in Nat \ {0}

(* The empty row and the empty request. *)
LEMMA EmptyTyped == NoRow \in Row /\ NoRequest \in Request
  <1>1. /\ (CHOOSE h \in Hashes : TRUE) \in Hashes
        /\ (CHOOSE f \in Files : TRUE) \in Files
    BY LinksAssumption
  <1>2. NoRow \in Row
    BY <1>1 DEF NoRow, Row
  <1>3. NoRow.hash \in Hashes
    BY <1>1 DEF NoRow
  <1> QED BY <1>1, <1>2, <1>3 DEF NoRequest, Request

(* Every table starts empty. *)
LEMMA InitTyped == Init => RowsTyped
  BY EmptyTyped DEF Init, RowsTyped, Progress, Uncounted

(* A request that starts, and one that reads, write their own entries. *)
LEMMA CallsTyped ==
  ASSUME RowsTyped, NEW r \in Reqs, NEW p \in Progress, NEW q \in Request,
         Call(r, p, q) \/ Reads(r, p, q)
  PROVE  RowsTyped'
  <1>1. /\ pc' = [pc EXCEPT ![r] = p] /\ req' = [req EXCEPT ![r] = q]
        /\ UNCHANGED <<link, userLink, opens, nextId>>
    BY DEF Call, Reads, Goto, tables
  <1> QED BY <1>1 DEF RowsTyped

(* What the helpers make of rows are rows. *)
LEMMA RowsMade ==
  ASSUME NEW row \in Row, NEW t \in {"public", "one-time", "monthly"}
  PROVE  Typed(row, t) \in Row /\ Opened(row) \in Row
  BY DEF Typed, Opened, Row

(* Counting an opening. *)
LEMMA CountTyped ==
  ASSUME RowsTyped, NEW i, CountOpen(i)
  PROVE  opens' \in [Ids -> Int]
  BY DEF CountOpen, RowsTyped, Uncounted

(* Starting a request. *)
LEMMA CallsKeepTypes ==
  ASSUME RowsTyped, NEW r \in Reqs, Calls(r)
  PROVE  RowsTyped'
  <1> USE EmptyTyped DEF Progress
  <1>1. ASSUME NEW f \in Files, GetShareState(r, f) \/ UnpublishFile(r, f)
        PROVE  RowsTyped'
    <2>1. \A route \in Routes : [NoRequest EXCEPT !.route = route, !.file = f] \in Request
      BY DEF Request
    <2> QED BY <1>1, <2>1, CallsTyped DEF GetShareState, UnpublishFile, Routes
  <1>a. ASSUME NEW f \in Files, NEW own \in BOOLEAN, DeleteFile(r, f, own)
        PROVE  RowsTyped'
    <2>1. [NoRequest EXCEPT !.route = "delete", !.file = f, !.own = own] \in Request
      BY DEF Request, Routes
    <2> QED BY <1>a, <2>1, CallsTyped DEF DeleteFile
  <1>2. ASSUME NEW f \in Files, NEW h \in HashesOf[f], NEW t \in Types,
               PublishFile(r, f, h, t)
        PROVE  RowsTyped'
    <2>1. [NoRequest EXCEPT !.route = "publish", !.file = f, !.hash = h,
                            !.type = t] \in Request
      BY LinksAssumption DEF Request, Routes
    <2> QED BY <1>2, <2>1, CallsTyped DEF PublishFile
  <1>3. ASSUME NEW h \in Hashes, GetPublishedFile(r, h)
        PROVE  RowsTyped'
    <2>1. [NoRequest EXCEPT !.route = "open", !.hash = h] \in Request
      BY DEF Request, Routes
    <2> QED BY <1>3, <2>1, CallsTyped DEF GetPublishedFile
  <1>4. ASSUME NEW H, CreateGroup(r, H)
        PROVE  RowsTyped'
    BY <1>4 DEF CreateGroup, RowsTyped
  <1>5. ASSUME NEW f \in Files, NEW h \in HashesOf[f], NEW g \in Files,
               ShareFile(r, f, g, h)
        PROVE  RowsTyped'
    <2>1. PICK others \in {received, received \ {f}} :
            LET rows == Cascade(userLink, others) IN
            /\ \/ /\ userLink' = [rows EXCEPT ![nextId] =
                                     [NoRow EXCEPT !.file = g, !.hash = h]]
                  /\ nextId' = nextId + 1
               \/ userLink' = rows /\ UNCHANGED nextId
            /\ \E p \in {"ok", "error"} : pc' = [pc EXCEPT ![r] = p]
            /\ req' = [req EXCEPT ![r] = NoRequest]
            /\ UNCHANGED <<link, opens>>
      BY <1>5 DEF ShareFile, Goto
    <2>2. Cascade(userLink, others) \in [Ids -> Row]
      BY EmptyTyped DEF Cascade, RowsTyped
    <2>3. [NoRow EXCEPT !.file = g, !.hash = h] \in Row
      BY LinksAssumption DEF Row
    <2>4. userLink' \in [Ids -> Row] /\ nextId' \in Nat \ {0}
      BY <2>1, <2>2, <2>3 DEF RowsTyped
    <2> QED BY <2>1, <2>4 DEF RowsTyped
  <1> QED BY <1>1, <1>2, <1>3, <1>4, <1>5, <1>a DEF Calls

(* Reading for a request. *)
LEMMA ReadsKeepTypes ==
  ASSUME RowsTyped, NEW r \in Reqs,
         FindFile(r) \/ FindShareState(r) \/ FindOldRow(r) \/ FindPublicFileByHash(r)
  PROVE  RowsTyped'
  <1> USE DEF Progress
  <1>1. req[r] \in Request /\ link \in [Ids -> Row] /\ userLink \in [Ids -> Row]
    BY DEF RowsTyped
  <1>2. /\ \A i \in Ids : [req[r] EXCEPT !.id = i, !.row = link[i]] \in Request
        /\ \A i \in Ids : [req[r] EXCEPT !.row = userLink[i]] \in Request
        /\ [req[r] EXCEPT !.create = TRUE] \in Request
    BY <1>1 DEF Request
  <1>3. [req[r] EXCEPT !.id = NoId,
                       !.row = [NoRow EXCEPT !.file = req[r].file,
                                             !.hash = req[r].hash]] \in Request
    <2>1. req[r].file \in Files /\ req[r].hash \in Hashes
      BY <1>1 DEF Request
    <2>2. [NoRow EXCEPT !.file = req[r].file, !.hash = req[r].hash] \in Row
      BY <2>1, EmptyTyped DEF Row
    <2> QED BY <1>1, <2>2 DEF Request
  <1>4. CASE FindFile(r)
    BY <1>1, <1>4, CallsTyped DEF FindFile
  <1>5. CASE FindShareState(r)
    <2>1. AfterState(r) \in Progress
      BY DEF AfterState
    <2>2. /\ RowsOf(link, req[r].file) \subseteq Ids
      BY DEF RowsOf
    <2>3. PICK p \in Progress, q \in Request : Reads(r, p, q)
      BY <1>1, <1>2, <1>5, <2>1, <2>2 DEF FindShareState
    <2> QED BY <2>3, CallsTyped
  <1>6. CASE FindOldRow(r)
    <2>1. RowsWith(link, req[r].hash) \subseteq Ids
      BY DEF RowsWith
    <2>2. PICK q \in Request : Reads(r, "write", q)
      BY <1>2, <1>3, <1>6, <2>1 DEF FindOldRow
    <2> QED BY <2>2, CallsTyped
  <1>7. CASE FindPublicFileByHash(r)
    <2>1. /\ RowsWith(link, req[r].hash) \subseteq Ids
          /\ RowsWith(userLink, req[r].hash) \subseteq Ids
      BY DEF RowsWith
    <2>2. PICK p \in Progress, q \in Request : Reads(r, p, q)
      BY <1>1, <1>2, <1>7, <2>1 DEF FindPublicFileByHash
    <2> QED BY <2>2, CallsTyped
  <1> QED BY <1>4, <1>5, <1>6, <1>7

(* Writing for a request. *)
LEMMA WritesKeepTypes ==
  ASSUME RowsTyped, NEW r \in Reqs,
         \/ WriteShareState(r) \/ WritePublicFile(r) \/ WriteUnpublished(r)
         \/ SaveOpened(r) \/ AnswerOpen(r) \/ DeleteShareStates(r) \/ WriteDeleted(r)
  PROVE  RowsTyped'
  <1> USE DEF Progress
  <1>1. req[r] \in Request /\ req[r].row \in Row
    BY DEF RowsTyped, Request
  <1>2. ASSUME NEW p \in Progress, Goto(r, p), UNCHANGED <<req, nextId>>,
               link' \in [Ids -> Row], userLink' \in [Ids -> Row],
               opens' \in [Ids -> Int]
        PROVE  RowsTyped'
    BY <1>2 DEF RowsTyped, Goto
  <1>3. Fails(r) => RowsTyped'
    BY <1>2 DEF Fails, tables, RowsTyped
  <1>4. CASE WriteShareState(r)
    BY <1>2, <1>3, <1>4 DEF WriteShareState, RowsTyped
  <1>5. CASE WritePublicFile(r)
    <2>1. Typed(req[r].row, req[r].type) \in Row
      BY <1>1, RowsMade DEF Request
    <2>2. CASE Fails(r)
      BY <1>3, <2>2
    <2>3. CASE ~Fails(r)
      <3>1. PICK i : /\ link' = [link EXCEPT ![i] = Typed(req[r].row, req[r].type)]
                     /\ opens' = [opens EXCEPT ![i] = IF req[r].type = "one-time"
                                                      THEN 0 ELSE Uncounted]
        BY <1>5, <2>3 DEF WritePublicFile
      <3>2. /\ nextId' \in {nextId, nextId + 1} /\ Goto(r, "ok")
            /\ UNCHANGED <<userLink, req>>
        BY <1>5, <2>3 DEF WritePublicFile
      <3>3. link' \in [Ids -> Row]
        BY <2>1, <3>1 DEF RowsTyped
      <3>4. (IF req[r].type = "one-time" THEN 0 ELSE Uncounted) \in Int
        BY DEF Uncounted
      <3>5. opens' \in [Ids -> Int]
        BY <3>1, <3>4 DEF RowsTyped
      <3> QED BY <3>2, <3>3, <3>5 DEF RowsTyped, Goto
    <2> QED BY <2>2, <2>3
  <1>6. CASE WriteUnpublished(r)
    <2>1. Unlinked(req[r].id) \in [Ids -> Row]
      BY EmptyTyped DEF Unlinked, RowsTyped
    <2> QED BY <1>2, <1>3, <1>6, <2>1 DEF WriteUnpublished, RowsTyped
  <1>7. CASE SaveOpened(r)
    <2>1. Opened(req[r].row) \in Row
      BY <1>1, RowsMade
    <2>2. [link EXCEPT ![req[r].id] = Opened(req[r].row)] \in [Ids -> Row]
      BY <2>1 DEF RowsTyped
    <2> QED BY <1>2, <1>3, <1>7, <2>2, CountTyped DEF SaveOpened, RowsTyped
  <1>8. CASE AnswerOpen(r)
    BY <1>2, <1>3, <1>8, CountTyped DEF AnswerOpen, tables, RowsTyped
  <1>9. CASE DeleteShareStates(r)
    <2>1. link' \in [Ids -> Row] /\ userLink' \in [Ids -> Row]
      BY <1>9, EmptyTyped DEF DeleteShareStates, Cascade, RowsTyped
    <2> QED BY <1>2, <1>9, <2>1 DEF DeleteShareStates, RowsTyped
  <1>10. CASE WriteDeleted(r)
    BY <1>2, <1>3, <1>10 DEF WriteDeleted, RowsTyped
  <1> QED BY <1>4, <1>5, <1>6, <1>7, <1>8, <1>9, <1>10

(* A month that passes. *)
LEMMA ExpireTyped ==
  ASSUME RowsTyped, NEW i \in Ids, Expire(i)
  PROVE  RowsTyped'
  <1>1. [link[i] EXCEPT !.expires = "over"] \in Row
    BY DEF RowsTyped, Row
  <1> QED BY <1>1 DEF Expire, RowsTyped

(* Every step keeps the types. *)
LEMMA NextTyped == RowsTyped /\ [Next]_vars => RowsTyped'
  <1> SUFFICES ASSUME RowsTyped, [Next]_vars PROVE RowsTyped'
    OBVIOUS
  <1>1. CASE UNCHANGED vars
    BY <1>1 DEF vars, RowsTyped
  <1>2. ASSUME NEW r \in Reqs, Calls(r) PROVE RowsTyped'
    BY <1>2, CallsKeepTypes
  <1>3. ASSUME NEW r \in Reqs, Step(r) PROVE RowsTyped'
    BY <1>3, ReadsKeepTypes, WritesKeepTypes DEF Step
  <1>4. ASSUME NEW i \in Ids, Expire(i) PROVE RowsTyped'
    BY <1>4, ExpireTyped
  <1> QED BY <1>1, <1>2, <1>3, <1>4 DEF Next

-----------------------------------------------------------------------------
(* Late writes                                                             *)

(* A row that cannot be opened stays so in every step but a publication. *)
LEMMA StepReopens ==
  ASSUME RowsTyped, [Next]_vars, NEW i \in Ids,
         ~Openable(link[i]), Openable(link'[i])
  PROVE  \E r \in Reqs : Wrote(r, "publish")
  <1>1. link'[i] # link[i] /\ link'[i] # NoRow
    BY DEF Openable, NoRow
  <1>2. ASSUME NEW r \in Reqs, Calls(r) PROVE FALSE
    BY <1>1, <1>2 DEF Calls, GetShareState, UnpublishFile, DeleteFile, PublishFile,
                      GetPublishedFile, ShareFile, CreateGroup, Call, tables
  <1>3. ASSUME NEW r \in Reqs, Step(r) PROVE Wrote(r, "publish")
    <2>1. CASE WritePublicFile(r)
      <3>1. pc'[r] = "ok"
        BY <1>1, <2>1 DEF WritePublicFile, Goto, RowsTyped, Fails, tables
      <3> QED BY <2>1, <3>1 DEF WritePublicFile, Wrote
    <2>2. CASE SaveOpened(r)
      <3>1. link' = [link EXCEPT ![req[r].id] = Opened(req[r].row)]
        BY <1>1, <2>2 DEF SaveOpened, Fails, tables
      <3>2. i = req[r].id /\ link'[i] = Opened(req[r].row)
        BY <1>1, <3>1 DEF RowsTyped
      <3>3. req[r].row \in Row
        BY DEF RowsTyped, Request
      <3>4. Opened(req[r].row).opened = "yes"
        BY <3>3 DEF Opened, Row
      <3> QED BY <3>2, <3>4 DEF Openable
    <2>3. CASE WriteUnpublished(r)
      <3>1. link' = link \/ link' = Unlinked(req[r].id)
        BY <2>3 DEF WriteUnpublished, Fails, tables
      <3>2. link'[i] \in {link[i], NoRow}
        BY <3>1 DEF Unlinked, RowsTyped
      <3> QED BY <1>1, <3>2
    <2>4. CASE DeleteShareStates(r)
      <3>1. link'[i] \in {link[i], NoRow}
        BY <2>4 DEF DeleteShareStates, Cascade
      <3> QED BY <1>1, <3>1
    <2>5. CASE WriteShareState(r) \/ AnswerOpen(r) \/ WriteDeleted(r)
      BY <1>1, <2>5 DEF WriteShareState, AnswerOpen, WriteDeleted, Fails, tables
    <2>6. CASE \/ FindFile(r) \/ FindShareState(r) \/ FindOldRow(r)
               \/ FindPublicFileByHash(r)
      <3>1. link' = link
        BY <2>6 DEF FindFile, FindShareState, FindOldRow, FindPublicFileByHash,
                    Reads, tables
      <3> QED BY <1>1, <3>1
    <2> QED BY <1>3, <2>1, <2>2, <2>3, <2>4, <2>5, <2>6 DEF Step
  <1>4. ASSUME NEW j \in Ids, Expire(j) PROVE FALSE
    <2>1. link' = [link EXCEPT ![j].expires = "over"]
      BY <1>4 DEF Expire
    <2>2. link'[i].expires = "over"
      BY <1>1, <2>1 DEF RowsTyped, Row
    <2> QED BY <2>2 DEF Openable
  <1>5. CASE UNCHANGED vars
    BY <1>1, <1>5 DEF vars
  <1> QED BY <1>2, <1>3, <1>4, <1>5 DEF Next

(* The types hold in every state. *)
LEMMA AlwaysTyped == Spec => []RowsTyped
  BY InitTyped, NextTyped, PTL DEF Spec

(* No late write of a request that was in flight when a link was used, expired,
   was unpublished or lost its file makes it one that can be opened again: only a
   publication does (OnlyPublishReopens). *)
THEOREM LateWritesDoNotReopen == Spec => OnlyPublishReopens
  <1>1. RowsTyped /\ [Next]_vars =>
          [\A i \in Ids : ~Openable(link[i]) /\ Openable(link'[i]) =>
              \E r \in Reqs : Wrote(r, "publish")]_vars
    BY StepReopens
  <1> QED BY <1>1, AlwaysTyped, PTL DEF Spec, OnlyPublishReopens

-----------------------------------------------------------------------------
(* Requests that run one after the other                                   *)

Sequential == \A r, s \in Reqs : r = s

(* What a request has read still holds when it writes. *)
StillTrue(r) ==
    /\ pc[r] \in {"file", "state"} => req[r].route # "open"
    /\ pc[r] = "unshare" => req[r].route = "delete"
    /\ pc[r] = "row" => req[r].route = "open" /\ req[r].id = NoId
    /\ At(r, "write", "publish") =>
          IF req[r].id = NoId THEN RowsWith(link, req[r].row.hash) = {}
          ELSE req[r].id \in RowsWith(link, req[r].row.hash)
    /\ At(r, "write", "open") =>
          \A i \in Ids : i = req[r].id => opens[i] = Uncounted
    /\ pc[r] = "save" => /\ req[r].id \in RowsWith(link, req[r].row.hash)
                         /\ opens[req[r].id] <= 0

(* The flag of a counted link is one of the two that opening looks at, and it is
   "yes" once the link has been opened. *)
CountsAgree ==
    \A i \in Ids :
        /\ opens[i] <= 1
        /\ link[i].file # NoFile /\ opens[i] # Uncounted => link[i].opened # "nil"
        /\ link[i].file # NoFile /\ opens[i] = 1 => link[i].opened = "yes"

SequentialInv == HashNamesOneLink /\ CountsAgree /\ \A r \in Reqs : StillTrue(r)

(* It holds at the start. *)
LEMMA InitSequential == Init => SequentialInv
  <1> SUFFICES ASSUME Init PROVE SequentialInv
    OBVIOUS
  <1>1. \A i \in Ids : link[i].file = NoFile /\ opens[i] = Uncounted
    BY DEF Init, NoRow
  <1>2. HashNamesOneLink /\ CountsAgree
    BY <1>1 DEF HashNamesOneLink, CountsAgree, Uncounted
  <1>3. \A r \in Reqs : StillTrue(r)
    BY DEF Init, StillTrue, At
  <1> QED BY <1>2, <1>3 DEF SequentialInv

(* No row has the id 0. *)
LEMMA NoIdIsNone == NoId \notin Ids
  BY DEF NoId, Ids

(* The rows with a hash are the same when no row changes its file or hash. *)
LEMMA SameRows ==
  ASSUME NEW h, \A i \in Ids : link'[i].file = link[i].file /\ link'[i].hash = link[i].hash
  PROVE  RowsWith(link', h) = RowsWith(link, h)
  BY DEF RowsWith

(* Steps that touch neither links nor counts have only their own request to
   answer for. *)
LEMMA OwnStep ==
  ASSUME Sequential, SequentialInv, NEW r \in Reqs, UNCHANGED <<link, opens>>,
         StillTrue(r)'
  PROVE  SequentialInv'
  <1>1. HashNamesOneLink' /\ CountsAgree'
    BY DEF SequentialInv, HashNamesOneLink, CountsAgree
  <1>2. \A s \in Reqs : StillTrue(s)'
    <2> TAKE s \in Reqs
    <2>1. s = r
      BY DEF Sequential
    <2> QED BY <2>1
  <1> QED BY <1>1, <1>2 DEF SequentialInv

(* A request that is not about to write has nothing to answer for. *)
LEMMA NothingRead ==
  ASSUME NEW r \in Reqs, pc'[r] \notin {"file", "state", "unshare", "row", "write", "save"}
  PROVE  StillTrue(r)'
  BY DEF StillTrue, At

(* Starting a request. *)
LEMMA CallsSequential ==
  ASSUME Sequential, RowsTyped, SequentialInv, NEW r \in Reqs, Calls(r)
  PROVE  SequentialInv'
  <1>1. UNCHANGED <<link, opens>>
    BY DEF Calls, GetShareState, UnpublishFile, DeleteFile, PublishFile,
           GetPublishedFile, ShareFile, CreateGroup, Call, tables
  <1>2. ASSUME NEW p, NEW q, Call(r, p, q)
        PROVE  pc'[r] = p /\ req'[r] = q
    BY <1>2 DEF Call, RowsTyped
  <1>3. \A f \in Files, route \in Routes :
          [NoRequest EXCEPT !.route = route, !.file = f].route = route
    BY DEF NoRequest
  <1>4. ASSUME NEW f \in Files, GetShareState(r, f) \/ UnpublishFile(r, f)
        PROVE  StillTrue(r)'
    <2>1. PICK route \in {"state", "unpublish"} :
             Call(r, "file", [NoRequest EXCEPT !.route = route, !.file = f])
      BY <1>4 DEF GetShareState, UnpublishFile
    <2>2. pc'[r] = "file" /\ req'[r] = [NoRequest EXCEPT !.route = route, !.file = f]
      BY <1>2, <2>1
    <2>3. pc'[r] = "file" /\ req'[r].route # "open"
      BY <1>3, <2>2 DEF Routes
    <2> QED BY <2>3 DEF StillTrue, At
  <1>a. ASSUME NEW f \in Files, NEW own \in BOOLEAN, DeleteFile(r, f, own)
        PROVE  StillTrue(r)'
    <2>1. pc'[r] = "file" /\ req'[r] = [NoRequest EXCEPT !.route = "delete", !.file = f,
                                                         !.own = own]
      BY <1>2, <1>a DEF DeleteFile
    <2>2. req'[r].route = "delete"
      BY <2>1 DEF NoRequest
    <2> QED BY <2>1, <2>2 DEF StillTrue, At
  <1>5. ASSUME NEW f \in Files, NEW h \in HashesOf[f], NEW t \in Types,
               PublishFile(r, f, h, t)
        PROVE  StillTrue(r)'
    <2>1. pc'[r] = "file" /\ req'[r] = [NoRequest EXCEPT !.route = "publish",
                                            !.file = f, !.hash = h, !.type = t]
      BY <1>2, <1>5 DEF PublishFile
    <2>2. req'[r].route = "publish"
      BY <2>1 DEF NoRequest
    <2> QED BY <2>1, <2>2 DEF StillTrue, At
  <1>6. ASSUME NEW h \in Hashes, GetPublishedFile(r, h)
        PROVE  StillTrue(r)'
    <2>1. pc'[r] = "row" /\ req'[r] = [NoRequest EXCEPT !.route = "open", !.hash = h]
      BY <1>2, <1>6 DEF GetPublishedFile
    <2>2. req'[r].route = "open" /\ req'[r].id = NoId
      BY <2>1 DEF NoRequest
    <2> QED BY <2>1, <2>2 DEF StillTrue, At
  <1>7. ASSUME NEW H, CreateGroup(r, H)
        PROVE  StillTrue(r)'
    BY <1>7, NothingRead DEF CreateGroup, RowsTyped
  <1>8. ASSUME NEW f, NEW g, NEW h, ShareFile(r, f, g, h)
        PROVE  StillTrue(r)'
    <2>1. pc'[r] \in {"ok", "error"}
      BY <1>8 DEF ShareFile, Goto, RowsTyped
    <2> QED BY <2>1, NothingRead
  <1> QED BY <1>1, <1>4, <1>5, <1>6, <1>7, <1>8, <1>a, OwnStep DEF Calls

(* Reading for a request. *)
LEMMA ReadsSequential ==
  ASSUME Sequential, RowsTyped, SequentialInv, NEW r \in Reqs,
         FindFile(r) \/ FindShareState(r) \/ FindOldRow(r) \/ FindPublicFileByHash(r)
  PROVE  SequentialInv'
  <1>1. UNCHANGED <<link, opens>>
    BY DEF FindFile, FindShareState, FindOldRow, FindPublicFileByHash, Reads, tables
  <1>2. ASSUME NEW p, NEW q, Reads(r, p, q)
        PROVE  pc'[r] = p /\ req'[r] = q
    BY <1>2 DEF Reads, Goto, RowsTyped
  <1>3. req[r] \in Request /\ StillTrue(r)
    BY DEF RowsTyped, SequentialInv
  <1>4. CASE FindFile(r)
    <2>1. /\ pc'[r] \in {"error", "unshare", "state"} /\ req'[r].route # "open"
          /\ pc'[r] = "unshare" => req'[r].route = "delete"
      BY <1>2, <1>3, <1>4 DEF FindFile, StillTrue
    <2> QED BY <1>1, <2>1, OwnStep DEF StillTrue, At
  <1>5. CASE FindShareState(r)
    <2>1. req[r].route # "open"
      BY <1>3, <1>5 DEF FindShareState, StillTrue
    <2>2. /\ \A i \in Ids : [req[r] EXCEPT !.id = i, !.row = link[i]].route = req[r].route
          /\ [req[r] EXCEPT !.create = TRUE].route = req[r].route
      BY <1>3 DEF Request
    <2>3. RowsOf(link, req[r].file) \subseteq Ids
      BY DEF RowsOf
    <2>4. PICK p \in {"ok", "panic", AfterState(r)} :
             \E q : Reads(r, p, q) /\ q.route = req[r].route
      BY <1>5, <2>2, <2>3 DEF FindShareState
    <2>5. PICK q : Reads(r, p, q) /\ q.route = req[r].route
      BY <2>4
    <2>6. pc'[r] = p /\ req'[r] = q
      BY <1>2, <2>5
    <2>7. /\ req'[r].route = req[r].route
          /\ pc'[r] \in {"ok", "panic", "hash", "write"}
          /\ pc'[r] = "write" => req[r].route # "publish"
      BY <2>4, <2>5, <2>6 DEF AfterState
    <2> QED BY <1>1, <2>1, <2>7, OwnStep DEF StillTrue, At
  <1>6. CASE FindOldRow(r)
    <2>1. req[r].route = "publish"
      BY <1>6 DEF FindOldRow, At
    <2>2. CASE RowsWith(link, req[r].hash) = {}
      <3>1. Reads(r, "write", [req[r] EXCEPT !.id = NoId,
                                  !.row = [NoRow EXCEPT !.file = req[r].file,
                                                        !.hash = req[r].hash]])
        BY <1>6, <2>2 DEF FindOldRow
      <3>2. pc'[r] = "write" /\ req'[r].route = "publish" /\ req'[r].id = NoId
        BY <1>2, <1>3, <2>1, <3>1 DEF Request
      <3>3. [NoRow EXCEPT !.file = req[r].file, !.hash = req[r].hash].hash = req[r].hash
        BY DEF NoRow
      <3>4. req'[r].row.hash = req[r].hash
        <4> DEFINE w == [NoRow EXCEPT !.file = req[r].file, !.hash = req[r].hash]
        <4>1. req'[r] = [req[r] EXCEPT !.id = NoId, !.row = w]
          BY <1>2, <3>1
        <4>2. w.hash = req[r].hash
          BY <3>3
        <4> HIDE DEF w
        <4> QED BY <1>3, <4>1, <4>2 DEF Request
      <3>5. RowsWith(link', req'[r].row.hash) = {}
        BY <1>1, <2>2, <3>4
      <3> QED BY <1>1, <3>2, <3>5, OwnStep DEF StillTrue, At
    <2>3. CASE RowsWith(link, req[r].hash) # {}
      <3>1. PICK i \in RowsWith(link, req[r].hash) :
               Reads(r, "write", [req[r] EXCEPT !.id = i, !.row = link[i]])
        BY <1>6, <2>3 DEF FindOldRow
      <3>2. pc'[r] = "write" /\ req'[r].route = "publish"
        BY <1>2, <1>3, <2>1, <3>1 DEF Request
      <3>3. req'[r].id = i /\ req'[r].row = link[i]
        BY <1>2, <1>3, <3>1 DEF Request
      <3>4. req'[r].id \in RowsWith(link', req'[r].row.hash)
        BY <1>1, <3>1, <3>3 DEF RowsWith
      <3>5. req'[r].id # NoId
        BY <3>1, <3>3, NoIdIsNone DEF RowsWith
      <3> QED BY <1>1, <3>2, <3>4, <3>5, OwnStep DEF StillTrue, At
    <2> QED BY <2>2, <2>3
  <1>7. CASE FindPublicFileByHash(r)
    <2>1. req[r].route = "open" /\ req[r].id = NoId
      BY <1>3, <1>7 DEF FindPublicFileByHash, StillTrue
    <2>2. CASE RowsWith(link, req[r].hash) # {}
      <3>0. PICK i \in RowsWith(link, req[r].hash) :
               Reads(r, IF link[i].opened = "yes" \/ link[i].expires = "over" THEN "error"
                        ELSE IF link[i].opened = "no" THEN "save"
                        ELSE "write",
                     [req[r] EXCEPT !.id = i, !.row = link[i]])
        BY <1>7, <2>2 DEF FindPublicFileByHash
      <3>1. /\ pc'[r] = IF link[i].opened = "yes" \/ link[i].expires = "over" THEN "error"
                        ELSE IF link[i].opened = "no" THEN "save"
                        ELSE "write"
            /\ req'[r] = [req[r] EXCEPT !.id = i, !.row = link[i]]
        BY <1>2, <3>0
      <3>2. /\ req'[r].route = "open" /\ req'[r].id = i /\ req'[r].row = link[i]
            /\ pc'[r] \in {"error", "save", "write"}
            /\ pc'[r] = "save" => link[i].opened = "no"
            /\ pc'[r] = "write" => link[i].opened \notin {"no", "yes"}
        BY <1>3, <2>1, <3>1 DEF Request
      <3>3. i \in Ids /\ link[i].file # NoFile
        BY <3>0 DEF RowsWith
      <3>4. /\ opens[i] \in Int /\ opens[i] <= 1
            /\ opens[i] # Uncounted => link[i].opened # "nil"
            /\ opens[i] = 1 => link[i].opened = "yes"
            /\ link[i].opened \in {"nil", "no", "yes"}
        BY <3>3 DEF SequentialInv, CountsAgree, RowsTyped, Row
      <3>5. pc'[r] = "write" => opens'[i] = Uncounted
        BY <1>1, <3>2, <3>4
      <3>6. pc'[r] = "save" => opens'[i] <= 0
        BY <1>1, <3>2, <3>4
      <3>7. i \in RowsWith(link', req'[r].row.hash)
        BY <1>1, <3>3, <3>2 DEF RowsWith
      <3> QED BY <1>1, <3>2, <3>5, <3>6, <3>7, OwnStep DEF StillTrue, At
    <2>3. CASE RowsWith(link, req[r].hash) = {}
      <3>1. PICK p \in {"write", "error"} :
               \E row : Reads(r, p, [req[r] EXCEPT !.row = row]) \/ Reads(r, p, req[r])
        BY <1>7, <2>3 DEF FindPublicFileByHash
      <3>2. pc'[r] \in {"write", "error"} /\ req'[r].route = "open" /\ req'[r].id = NoId
        BY <1>2, <1>3, <2>1, <3>1 DEF Request
      <3> QED BY <1>1, <3>2, NoIdIsNone, OwnStep DEF StillTrue, At
    <2> QED BY <2>2, <2>3
  <1> QED BY <1>4, <1>5, <1>6, <1>7

(* Writing for a request. *)
LEMMA WritesSequential ==
  ASSUME Sequential, RowsTyped, SequentialInv, NEW r \in Reqs,
         \/ WriteShareState(r) \/ WritePublicFile(r) \/ WriteUnpublished(r)
         \/ SaveOpened(r) \/ AnswerOpen(r) \/ DeleteShareStates(r) \/ WriteDeleted(r)
  PROVE  SequentialInv'
  <1>1. req[r] \in Request /\ req[r].row \in Row /\ StillTrue(r)
    BY DEF RowsTyped, Request, SequentialInv
  <1>2. ASSUME NEW p, Goto(r, p) PROVE pc'[r] = p
    BY <1>2 DEF Goto, RowsTyped
  <1>3. ASSUME HashNamesOneLink', CountsAgree',
               pc'[r] \notin {"file", "state", "unshare", "row", "write", "save"}
        PROVE  SequentialInv'
    <2>1. \A s \in Reqs : StillTrue(s)'
      <3> TAKE s \in Reqs
      <3>1. s = r
        BY DEF Sequential
      <3> QED BY <1>3, <3>1, NothingRead
    <2> QED BY <1>3, <2>1 DEF SequentialInv
  <1>4. ASSUME UNCHANGED <<link, opens>>, pc'[r] \in {"ok", "error"}
        PROVE  SequentialInv'
    BY <1>4, OwnStep, NothingRead
  <1>5. CASE Fails(r)
    BY <1>2, <1>4, <1>5 DEF Fails, tables
  (* emptied rows break neither invariant *)
  <1>6. ASSUME link' \in [Ids -> Row], opens' = opens,
               \A i \in Ids : link'[i] \in {link[i], NoRow}
        PROVE  HashNamesOneLink' /\ CountsAgree'
    <2>1. HashNamesOneLink /\ CountsAgree /\ NoRow.file = NoFile
      BY DEF SequentialInv, NoRow
    <2>2. \A i \in Ids : link'[i].file # NoFile => link'[i] = link[i]
      BY <1>6, <2>1
    <2>3. HashNamesOneLink'
      BY <2>1, <2>2 DEF HashNamesOneLink
    <2>4. CountsAgree'
      BY <1>6, <2>1, <2>2 DEF CountsAgree
    <2> QED BY <2>3, <2>4
  <1>7. CASE WriteShareState(r) \/ WriteDeleted(r)
    <2>1. UNCHANGED <<link, opens>> /\ (Goto(r, "ok") \/ Goto(r, "error"))
      BY <1>7 DEF WriteShareState, WriteDeleted, Fails, tables
    <2> QED BY <1>2, <1>4, <2>1
  <1>8. CASE WriteUnpublished(r) /\ ~Fails(r)
    <2>1. link' = Unlinked(req[r].id) /\ opens' = opens /\ Goto(r, "ok")
      BY <1>8 DEF WriteUnpublished
    <2>2. link' \in [Ids -> Row] /\ \A i \in Ids : link'[i] \in {link[i], NoRow}
      BY <2>1, EmptyTyped DEF Unlinked, RowsTyped
    <2> QED BY <1>2, <1>3, <1>6, <2>1, <2>2
  <1>9. CASE DeleteShareStates(r)
    <2>1. link' \in [Ids -> Row] /\ \A i \in Ids : link'[i] \in {link[i], NoRow}
      BY <1>9, EmptyTyped DEF DeleteShareStates, Cascade, RowsTyped
    <2>2. opens' = opens /\ pc'[r] = "write" /\ req'[r] = req[r]
      BY <1>2, <1>9 DEF DeleteShareStates
    <2>3. req[r].route = "delete"
      BY <1>1, <1>9 DEF DeleteShareStates, StillTrue
    <2>4. \A s \in Reqs : StillTrue(s)'
      <3> TAKE s \in Reqs
      <3>1. s = r
        BY DEF Sequential
      <3> QED BY <2>2, <2>3, <3>1 DEF StillTrue, At
    <2> QED BY <1>6, <2>1, <2>2, <2>4 DEF SequentialInv
  (* a publication writes the row with the hash, or none has it *)
  <1>10. CASE WritePublicFile(r) /\ ~Fails(r)
    <2> DEFINE q == req[r]
               row == Typed(q.row, q.type)
    <2>1. PICK i : /\ i = IF q.id = NoId THEN nextId ELSE q.id
                   /\ link' = [link EXCEPT ![i] = row]
                   /\ opens' = [opens EXCEPT ![i] = IF q.type = "one-time"
                                                    THEN 0 ELSE Uncounted]
                   /\ Goto(r, "ok") /\ At(r, "write", "publish")
      BY <1>10 DEF WritePublicFile
    <2>2. q.row \in Row /\ q.type \in {"public", "one-time", "monthly"}
      BY <1>1 DEF Request
    <2>3. /\ row.hash = q.row.hash
          /\ q.type = "one-time" => row.opened = "no"
      BY <2>2 DEF Typed, Row
    <2>4. \A j \in Ids \ {i} : link'[j] = link[j] /\ opens'[j] = opens[j]
      BY <2>1 DEF RowsTyped
    <2>5. i \in Ids => /\ link'[i] = row
                       /\ opens'[i] = IF q.type = "one-time" THEN 0 ELSE Uncounted
      BY <2>1 DEF RowsTyped
    <2>6. \A j \in Ids \ {i} : link[j].file # NoFile => link[j].hash # row.hash
      <3> SUFFICES ASSUME NEW j \in Ids \ {i}, link[j].file # NoFile,
                          link[j].hash = q.row.hash
                   PROVE  FALSE
        BY <2>3
      <3>1. j \in RowsWith(link, q.row.hash)
        BY DEF RowsWith
      <3>2. q.id # NoId /\ q.id \in RowsWith(link, q.row.hash) /\ i = q.id
        BY <1>1, <2>1, <3>1 DEF StillTrue
      <3> QED BY <3>1, <3>2 DEF RowsWith, SequentialInv, HashNamesOneLink
    <2>7. HashNamesOneLink'
      <3> SUFFICES ASSUME NEW j \in Ids, NEW k \in Ids, j # k,
                          link'[j].file # NoFile, link'[k].file # NoFile
                   PROVE  link'[j].hash # link'[k].hash
        BY DEF HashNamesOneLink
      <3>1. CASE j # i /\ k # i
        BY <2>4, <3>1 DEF SequentialInv, HashNamesOneLink
      <3>2. CASE j = i
        BY <2>4, <2>5, <2>6, <3>2
      <3>3. CASE k = i
        BY <2>4, <2>5, <2>6, <3>3
      <3> QED BY <3>1, <3>2, <3>3
    <2>8. CountsAgree'
      <3> SUFFICES ASSUME NEW j \in Ids
                   PROVE  /\ opens'[j] <= 1
                          /\ link'[j].file # NoFile /\ opens'[j] # Uncounted
                                => link'[j].opened # "nil"
                          /\ link'[j].file # NoFile /\ opens'[j] = 1
                                => link'[j].opened = "yes"
        BY DEF CountsAgree
      <3>1. CASE j = i
        BY <2>3, <2>5, <3>1 DEF Uncounted
      <3>2. CASE j # i
        BY <2>4, <3>2 DEF SequentialInv, CountsAgree
      <3> QED BY <3>1, <3>2
    <2> QED BY <1>2, <1>3, <2>1, <2>7, <2>8
  (* an opening marks the row that was read *)
  <1>11. CASE SaveOpened(r) /\ ~Fails(r)
    <2> DEFINE i == req[r].id
               row == Opened(req[r].row)
    <2>1. /\ link' = [link EXCEPT ![i] = row] /\ CountOpen(i)
          /\ Goto(r, "ok") /\ pc[r] = "save"
      BY <1>11 DEF SaveOpened
    <2>2. i \in RowsWith(link, req[r].row.hash) /\ opens[i] <= 0
      BY <1>1, <2>1 DEF StillTrue
    <2>3. i \in Ids /\ link[i].file # NoFile /\ link[i].hash = req[r].row.hash
      BY <2>2 DEF RowsWith
    <2>4. row.hash = link[i].hash /\ row.opened = "yes"
      BY <1>1, <2>3 DEF Opened, Row
    <2>5. /\ link'[i] = row
          /\ \A j \in Ids \ {i} : link'[j] = link[j]
      BY <2>1, <2>3 DEF RowsTyped
    <2>6. \A j \in Ids \ {i} : opens'[j] = opens[j]
      BY <2>1 DEF CountOpen
    <2>7. opens'[i] <= 1
      BY <2>1, <2>2, <2>3 DEF CountOpen, RowsTyped
    <2>8. HashNamesOneLink'
      <3> SUFFICES ASSUME NEW j \in Ids, NEW k \in Ids, j # k,
                          link'[j].file # NoFile, link'[k].file # NoFile
                   PROVE  link'[j].hash # link'[k].hash
        BY DEF HashNamesOneLink
      <3>1. \A l \in {j, k} : link[l].file # NoFile /\ link'[l].hash = link[l].hash
        BY <2>3, <2>4, <2>5
      <3> QED BY <3>1 DEF SequentialInv, HashNamesOneLink
    <2>9. CountsAgree'
      <3> SUFFICES ASSUME NEW j \in Ids
                   PROVE  /\ opens'[j] <= 1
                          /\ link'[j].file # NoFile /\ opens'[j] # Uncounted
                                => link'[j].opened # "nil"
                          /\ link'[j].file # NoFile /\ opens'[j] = 1
                                => link'[j].opened = "yes"
        BY DEF CountsAgree
      <3>1. CASE j = i
        BY <2>4, <2>5, <2>7, <3>1
      <3>2. CASE j # i
        BY <2>5, <2>6, <3>2 DEF SequentialInv, CountsAgree
      <3> QED BY <3>1, <3>2
    <2> QED BY <1>2, <1>3, <2>1, <2>8, <2>9
  (* a link that may be opened any time is not counted *)
  <1>12. CASE AnswerOpen(r) /\ ~Fails(r)
    <2>1. /\ link' = link /\ CountOpen(req[r].id)
          /\ Goto(r, "ok") /\ At(r, "write", "open")
      BY <1>12 DEF AnswerOpen, tables
    <2>2. \A j \in Ids : j = req[r].id => opens[j] = Uncounted
      BY <1>1, <2>1 DEF StillTrue
    <2>3. opens' = opens
      BY <2>1, <2>2 DEF CountOpen, RowsTyped
    <2> QED BY <1>2, <1>4, <2>1, <2>3
  <1> QED BY <1>5, <1>7, <1>8, <1>9, <1>10, <1>11, <1>12 DEF WriteShareState

(* A month that passes. *)
LEMMA ExpireSequential ==
  ASSUME Sequential, RowsTyped, SequentialInv, NEW i \in Ids, Expire(i)
  PROVE  SequentialInv'
  <1>1. /\ link' = [link EXCEPT ![i].expires = "over"]
        /\ UNCHANGED <<pc, req, opens>>
    BY DEF Expire
  <1>2. \A j \in Ids : /\ link'[j].file = link[j].file
                       /\ link'[j].hash = link[j].hash
                       /\ link'[j].opened = link[j].opened
    BY <1>1 DEF RowsTyped, Row
  <1>3. HashNamesOneLink' /\ CountsAgree'
    BY <1>1, <1>2 DEF SequentialInv, HashNamesOneLink, CountsAgree
  <1>4. ASSUME NEW r \in Reqs PROVE StillTrue(r)'
    <2>1. \A h : RowsWith(link', h) = RowsWith(link, h)
      BY <1>2, SameRows
    <2> QED BY <1>1, <2>1 DEF SequentialInv, StillTrue, At
  <1> QED BY <1>3, <1>4 DEF SequentialInv

(* Every step of sequential requests keeps the invariant. *)
LEMMA NextSequential ==
  ASSUME Sequential
  PROVE  RowsTyped /\ SequentialInv /\ [Next]_vars => SequentialInv'
  <1> SUFFICES ASSUME RowsTyped, SequentialInv, [Next]_vars PROVE SequentialInv'
    OBVIOUS
  <1>1. CASE UNCHANGED vars
    <2>1. UNCHANGED <<link, opens, pc, req>>
      BY <1>1 DEF vars
    <2>2. \A r \in Reqs : StillTrue(r)'
      BY <2>1 DEF SequentialInv, StillTrue, At
    <2> QED BY <2>1, <2>2 DEF SequentialInv, HashNamesOneLink, CountsAgree
  <1>2. ASSUME NEW r \in Reqs, Calls(r) PROVE SequentialInv'
    BY <1>2, CallsSequential
  <1>3. ASSUME NEW r \in Reqs, Step(r) PROVE SequentialInv'
    BY <1>3, ReadsSequential, WritesSequential DEF Step
  <1>4. ASSUME NEW i \in Ids, Expire(i) PROVE SequentialInv'
    BY <1>4, ExpireSequential
  <1> QED BY <1>1, <1>2, <1>3, <1>4 DEF Next

(* The invariant of sequential requests. *)
LEMMA AlwaysSequential ==
  ASSUME Sequential
  PROVE  Spec => []SequentialInv
  BY InitSequential, AlwaysTyped, NextSequential, PTL DEF Spec

(* While requests run one after the other, no two links have a share hash in
   common, whatever names files have and however they are renamed: a publication
   finds the row with the hash before it writes (HashNamesOneLink). *)
THEOREM OneLinkPerHash ==
  ASSUME Sequential
  PROVE  Spec => []HashNamesOneLink
  <1>1. SequentialInv => HashNamesOneLink
    BY DEF SequentialInv
  <1> QED BY <1>1, AlwaysSequential, PTL

(* While requests run one after the other, no one-time link is opened twice between
   two publications, although a publication takes the flag over from the row it
   finds and a delete may empty the row (OneTimeOpensOnce). *)
THEOREM OneTimeLinksOpenOnce ==
  ASSUME Sequential
  PROVE  Spec => []OneTimeOpensOnce
  <1>1. SequentialInv => OneTimeOpensOnce
    BY DEF SequentialInv, CountsAgree, OneTimeOpensOnce
  <1> QED BY <1>1, AlwaysSequential, PTL

-----------------------------------------------------------------------------
(* Links and the life of their files                                       *)

FileStates == {"absent", "live", "deleted", "removed"}
Gone == {"deleted", "removed"}

(* A row is of a file that has a share state, and such a file is not deleted, unless
   the state is that of a recipient and somebody else has deleted it.  *)
RowsOfShared ==
    /\ \A f \in state : file[f] \notin Gone
    /\ \A f \in received : file[f] # "deleted"
    /\ \A i \in Ids : link[i].file # NoFile => link[i].file \in state
    /\ \A i \in Ids : userLink[i].file # NoFile => userLink[i].file \in received

(* A request inserts one row at most, and groups have the ids they were given.  *)
IdsSuffice == nextId <= started + 1 /\ \A g \in groups : g < nextId

(* What a request has read of its file and of its row still holds.  *)
StillShared(r) ==
    /\ pc[r] \in {"file", "state"} => req[r].id = NoId
    /\ pc[r] = "hash" => req[r].route = "publish"
    /\ pc[r] = "state" => req[r].route # "delete"
    /\ pc[r] \in {"state", "hash", "write", "unshare"} /\ req[r].route # "open" =>
          file[req[r].file] = "live"
    /\ At(r, "write", "unpublish") =>
          req[r].id = NoId \/ req[r].id \in RowsWith(link, req[r].row.hash)
    /\ pc[r] = "save" => req[r].row.file \in state
    /\ At(r, "write", "delete") =>
          /\ req[r].file \notin state
          /\ req[r].own => req[r].file \notin received
    /\ pc[r] \notin Finished => nextId <= started

SharedInv ==
    /\ file \in [Files -> FileStates]
    /\ state \subseteq Files /\ received \subseteq Files
    /\ groups \subseteq Ids /\ members \in [Ids -> SUBSET Hashes]
    /\ opens \in [Ids -> Nat \cup {Uncounted}] /\ started \in 0..MaxRequests
    /\ RowsOfShared /\ IdsSuffice /\ \A r \in Reqs : StillShared(r)

(* What the invariant says of requests, when there is one. *)
LEMMA OneRequest ==
  ASSUME Sequential, NEW r \in Reqs, StillShared(r)'
  PROVE  \A s \in Reqs : StillShared(s)'
  <1> TAKE s \in Reqs
  <1>1. s = r
    BY DEF Sequential
  <1> QED BY <1>1

(* Nothing is shared at the start. *)
LEMMA InitShared == Init => SharedInv
  <1> SUFFICES ASSUME Init PROVE SharedInv
    OBVIOUS
  <1>1. /\ state = {} /\ received = {} /\ nextId = 1 /\ groups = {} /\ started = 0
        /\ link = [i \in Ids |-> NoRow] /\ userLink = [i \in Ids |-> NoRow]
        /\ file \in [Files -> FileStates]
        /\ members \in [Ids -> SUBSET Hashes] /\ opens \in [Ids -> Nat \cup {Uncounted}]
        /\ \A r \in Reqs : pc[r] = "idle"
    BY DEF Init, FileStates
  <1>2. RowsOfShared /\ IdsSuffice
    BY <1>1 DEF RowsOfShared, IdsSuffice, NoRow
  <1>3. \A r \in Reqs : StillShared(r)
    BY <1>1 DEF StillShared, At, Finished
  <1> QED BY <1>1, <1>2, <1>3, LinksAssumption DEF SharedInv

(* Starting a request. *)
LEMMA CallsShared ==
  ASSUME Sequential, RowsTyped, SharedInv, NEW r \in Reqs, Calls(r)
  PROVE  SharedInv'
  <1>0. /\ nextId \in Nat \ {0} /\ started \in Nat /\ MaxRequests \in Nat
        /\ RowsOfShared /\ IdsSuffice
    BY LinksAssumption DEF RowsTyped, SharedInv
  <1>1. ASSUME NEW p \in {"file", "row"}, NEW q, q.id = NoId, Call(r, p, q)
        PROVE  SharedInv'
    <2>1. /\ pc'[r] = p /\ req'[r] = q /\ started' = started + 1
          /\ started < MaxRequests /\ UNCHANGED <<tables, opens>>
      BY <1>1 DEF Call, RowsTyped
    <2>2. RowsOfShared' /\ IdsSuffice' /\ nextId' <= started'
      BY <1>0, <2>1 DEF RowsOfShared, IdsSuffice, tables
    <2>3. StillShared(r)'
      BY <1>1, <2>1, <2>2 DEF StillShared, At
    <2>4. started' \in 0..MaxRequests
      BY <1>0, <2>1
    <2> QED BY <2>1, <2>2, <2>3, <2>4, OneRequest DEF SharedInv, tables
  <1>2. ASSUME NEW f \in Files, GetShareState(r, f) \/ UnpublishFile(r, f)
        PROVE  SharedInv'
    <2>1. \A route : [NoRequest EXCEPT !.route = route, !.file = f].id = NoId
      BY DEF NoRequest
    <2> QED BY <1>1, <1>2, <2>1 DEF GetShareState, UnpublishFile
  <1>a. ASSUME NEW f \in Files, NEW own \in BOOLEAN, DeleteFile(r, f, own)
        PROVE  SharedInv'
    <2>1. [NoRequest EXCEPT !.route = "delete", !.file = f, !.own = own].id = NoId
      BY DEF NoRequest
    <2> QED BY <1>1, <1>a, <2>1 DEF DeleteFile
  <1>3. ASSUME NEW f \in Files, NEW h \in HashesOf[f], NEW t \in Types, PublishFile(r, f, h, t)
        PROVE  SharedInv'
    <2>1. [NoRequest EXCEPT !.route = "publish", !.file = f, !.hash = h, !.type = t].id = NoId
      BY DEF NoRequest
    <2> QED BY <1>1, <1>3, <2>1 DEF PublishFile
  <1>4. ASSUME NEW h \in Hashes, GetPublishedFile(r, h)
        PROVE  SharedInv'
    <2>1. [NoRequest EXCEPT !.route = "open", !.hash = h].id = NoId
      BY DEF NoRequest
    <2> QED BY <1>1, <1>4, <2>1 DEF GetPublishedFile
  <1>5. ASSUME started < MaxRequests
        PROVE  nextId \in Ids /\ started + 1 \in 0..MaxRequests
    BY <1>0, <1>5 DEF IdsSuffice, Ids
  <1>6. ASSUME NEW H \in SUBSET Hashes, CreateGroup(r, H)
        PROVE  SharedInv'
    <2>1. /\ started < MaxRequests /\ started' = started + 1 /\ nextId' = nextId + 1
          /\ groups' = groups \cup {nextId} /\ members' = [members EXCEPT ![nextId] = H]
          /\ UNCHANGED <<file, state, received, link, userLink, opens>>
      BY <1>6 DEF CreateGroup
    <2>2. pc'[r] = "ok"
      BY <1>6 DEF CreateGroup, RowsTyped
    <2>3. nextId \in Ids /\ started' \in 0..MaxRequests
      BY <1>5, <2>1
    <2>4. groups' \subseteq Ids /\ members' \in [Ids -> SUBSET Hashes]
      BY <2>1, <2>3 DEF SharedInv
    <2>5. IdsSuffice'
      <3>1. nextId' <= started' + 1
        BY <1>0, <2>1 DEF IdsSuffice
      <3>2. \A g \in groups : g \in Int /\ g < nextId
        BY <1>0 DEF IdsSuffice, SharedInv, Ids
      <3> QED BY <1>0, <2>1, <3>1, <3>2 DEF IdsSuffice
    <2>6. RowsOfShared' /\ StillShared(r)'
      BY <1>0, <2>1, <2>2 DEF RowsOfShared, StillShared, At, Finished
    <2> QED BY <2>1, <2>3, <2>4, <2>5, <2>6, OneRequest DEF SharedInv
  <1>7. ASSUME NEW f \in Files, NEW h \in HashesOf[f], NEW g \in Files, ShareFile(r, f, g, h)
        PROVE  SharedInv'
    <2>1. PICK others \in {received, received \ {f}} :
             /\ started < MaxRequests /\ started' = started + 1
             /\ file[g] = "absent" /\ file' = [file EXCEPT ![g] = "live"]
             /\ \/ /\ userLink' = [Cascade(userLink, others) EXCEPT ![nextId] =
                                      [NoRow EXCEPT !.file = g, !.hash = h]]
                   /\ nextId' = nextId + 1 /\ received' = others \cup {g}
                \/ /\ userLink' = Cascade(userLink, others) /\ nextId' = nextId
                   /\ received' \in {others, others \cup {g}}
             /\ UNCHANGED <<state, link, groups, members, opens>>
             /\ \E p \in {"ok", "error"} : pc' = [pc EXCEPT ![r] = p]
      BY <1>7 DEF ShareFile, Goto
    <2>2. /\ pc'[r] \in {"ok", "error"} /\ nextId \in Ids /\ started' \in 0..MaxRequests
          /\ received' \subseteq Files /\ received' \subseteq received \cup {g}
      BY <1>5, <2>1 DEF RowsTyped, SharedInv
    <2>3. /\ file' \in [Files -> FileStates]
          /\ \A e \in state : file'[e] \notin Gone
          /\ \A e \in received' : file'[e] # "deleted"
      <3>1. file \in [Files -> FileStates] /\ state \subseteq Files
        BY DEF SharedInv
      <3>2. \A e \in Files : file'[e] = IF e = g THEN "live" ELSE file[e]
        BY <2>1, <3>1
      <3> QED BY <1>0, <2>1, <2>2, <3>1, <3>2 DEF RowsOfShared, FileStates, Gone
    <2>4. \A i \in Ids : link'[i].file # NoFile => link'[i].file \in state'
      BY <1>0, <2>1 DEF RowsOfShared
    <2>5. \A i \in Ids : userLink'[i].file # NoFile => userLink'[i].file \in received'
      <3> DEFINE rows == Cascade(userLink, others)
                 row == [NoRow EXCEPT !.file = g, !.hash = h]
      <3>1. \A i \in Ids : rows[i].file # NoFile => rows[i].file \in others
        BY DEF Cascade, NoRow
      <3>2. rows = [i \in Ids |-> rows[i]]
        BY DEF Cascade
      <3>3. row.file = g
        BY DEF NoRow
      <3>4. /\ others \subseteq received'
            /\ \/ userLink' = [rows EXCEPT ![nextId] = row] /\ g \in received'
               \/ userLink' = rows
        BY <2>1
      <3> HIDE DEF rows, row
      <3>5. \A i \in Ids : userLink'[i] = rows[i] \/ (userLink'[i] = row /\ g \in received')
        BY <3>2, <3>4
      <3> QED BY <3>1, <3>3, <3>4, <3>5
    <2>6. IdsSuffice'
      <3>1. \A e \in groups : e \in Int /\ e < nextId
        BY <1>0 DEF IdsSuffice, SharedInv, Ids
      <3> QED BY <1>0, <2>1, <3>1 DEF IdsSuffice
    <2>7. StillShared(r)'
      BY <2>2 DEF StillShared, At, Finished
    <2>8. RowsOfShared'
      BY <2>1, <2>3, <2>4, <2>5 DEF RowsOfShared
    <2> QED BY <2>1, <2>2, <2>3, <2>6, <2>7, <2>8, OneRequest DEF SharedInv
  <1> QED BY <1>2, <1>3, <1>4, <1>6, <1>7, <1>a DEF Calls

(* Reading for a request. *)
LEMMA ReadsShared ==
  ASSUME Sequential, RowsTyped, SharedInv, NEW r \in Reqs, StillTrue(r),
         FindFile(r) \/ FindShareState(r) \/ FindOldRow(r) \/ FindPublicFileByHash(r)
  PROVE  SharedInv'
  <1>0. /\ StillShared(r) /\ req[r] \in Request /\ RowsOfShared /\ IdsSuffice
        /\ link \in [Ids -> Row] /\ userLink \in [Ids -> Row]
    BY DEF SharedInv, RowsTyped
  <1>1. /\ UNCHANGED <<tables, opens, started>> /\ pc[r] \notin Finished
    BY DEF FindFile, FindShareState, FindOldRow, FindPublicFileByHash, Reads, At, Finished
  <1>2. nextId' <= started'
    BY <1>0, <1>1 DEF StillShared, tables
  <1>3. RowsOfShared' /\ IdsSuffice'
    BY <1>0, <1>1 DEF RowsOfShared, IdsSuffice, tables
  <1>4. SUFFICES StillShared(r)'
    BY <1>1, <1>3, OneRequest DEF SharedInv, tables
  <1>5. ASSUME NEW p, NEW q, Reads(r, p, q)
        PROVE  pc'[r] = p /\ req'[r] = q
    BY <1>5 DEF Reads, Goto, RowsTyped
  <1>6. CASE FindFile(r)
    <2>1. /\ pc[r] = "file" /\ req'[r] = req[r]
          /\ pc'[r] = IF file[req[r].file] # "live" THEN "error"
                      ELSE IF req[r].route = "delete" THEN "unshare" ELSE "state"
      BY <1>5, <1>6 DEF FindFile
    <2> QED BY <1>0, <1>1, <1>2, <2>1 DEF StillShared, At, tables
  <1>7. CASE FindShareState(r)
    <2>0. /\ pc[r] = "state" /\ req[r].id = NoId /\ req[r].route # "open"
          /\ file'[req[r].file] = "live" /\ req[r].file \in Files
      BY <1>0, <1>1, <1>7 DEF FindShareState, StillShared, StillTrue, tables, Request
    <2>a. PICK p \in {"ok", "panic", AfterState(r)} : \E q :
             /\ Reads(r, p, q)
             /\ \/ q \in {req[r], [req[r] EXCEPT !.create = TRUE]}
                \/ \E i \in RowsOf(link, req[r].file) :
                      q = [req[r] EXCEPT !.id = i, !.row = link[i]]
      BY <1>7 DEF FindShareState
    <2>1. PICK q :
             /\ Reads(r, p, q)
             /\ \/ q \in {req[r], [req[r] EXCEPT !.create = TRUE]}
                \/ \E i \in RowsOf(link, req[r].file) :
                      q = [req[r] EXCEPT !.id = i, !.row = link[i]]
      BY <2>a
    <2>2. /\ pc'[r] \in {"ok", "panic", "hash", "write"}
          /\ pc'[r] = "hash" => req[r].route = "publish"
          /\ req'[r] = q
      BY <1>5, <2>1 DEF AfterState
    <2>3. q.file = req[r].file /\ q.route = req[r].route
      BY <1>0, <2>1 DEF Request
    <2>4. q.id = NoId \/ q.id \in RowsWith(link', q.row.hash)
      <3>1. CASE q \in {req[r], [req[r] EXCEPT !.create = TRUE]}
        BY <1>0, <2>0, <3>1 DEF Request
      <3>2. ASSUME NEW i \in RowsOf(link, req[r].file), q = [req[r] EXCEPT !.id = i, !.row = link[i]]
            PROVE  q.id \in RowsWith(link', q.row.hash)
        <4>1. q.id = i /\ q.row = link[i]
          BY <1>0, <3>2 DEF Request
        <4>2. i \in Ids /\ link[i].file # NoFile /\ link' = link
          BY <1>1, <2>0, LinksAssumption DEF RowsOf, tables
        <4> QED BY <4>1, <4>2 DEF RowsWith
      <3> QED BY <2>1, <3>1, <3>2
    <2>5. req[r].route # "delete"
      BY <1>0, <2>0 DEF StillShared
    <2> QED BY <1>2, <2>0, <2>2, <2>3, <2>4, <2>5 DEF StillShared, At
  <1>8. CASE FindOldRow(r)
    <2>1. /\ pc[r] = "hash" /\ req[r].route = "publish" /\ pc'[r] = "write"
          /\ req'[r].file = req[r].file /\ req'[r].route = req[r].route
      BY <1>0, <1>5, <1>8 DEF FindOldRow, At, Request
    <2>2. file'[req'[r].file] = "live"
      BY <1>0, <1>1, <2>1 DEF StillShared, tables
    <2> QED BY <1>2, <2>1, <2>2 DEF StillShared, At
  <1>9. CASE FindPublicFileByHash(r)
    <2>1. pc[r] = "row" /\ req[r].route = "open"
      BY <1>9 DEF FindPublicFileByHash, StillTrue
    <2>2. /\ pc'[r] \in {"error", "save", "write"} /\ req'[r].route = "open"
          /\ pc'[r] = "save" => \E i \in Ids : link[i].file # NoFile /\ req'[r].row = link[i]
      <3>1. CASE RowsWith(link, req[r].hash) # {}
        <4>1. PICK i \in RowsWith(link, req[r].hash) :
                 \E p \in {"error", "save", "write"} :
                    Reads(r, p, [req[r] EXCEPT !.id = i, !.row = link[i]])
          BY <1>9, <3>1 DEF FindPublicFileByHash
        <4>2. i \in Ids /\ link[i].file # NoFile
          BY <4>1 DEF RowsWith
        <4>3. req'[r] = [req[r] EXCEPT !.id = i, !.row = link[i]]
              /\ pc'[r] \in {"error", "save", "write"}
          BY <1>5, <4>1
        <4>4. req'[r].route = "open" /\ req'[r].row = link[i]
          BY <1>0, <2>1, <4>3 DEF Request
        <4> QED BY <4>2, <4>3, <4>4
      <3>2. CASE RowsWith(link, req[r].hash) = {}
        <4>a. PICK p \in {"error", "write"} : \E q :
                 /\ Reads(r, p, q)
                 /\ q = req[r] \/ \E row : q = [req[r] EXCEPT !.row = row]
          BY <1>9, <3>2 DEF FindPublicFileByHash
        <4>1. PICK q :
                 /\ Reads(r, p, q)
                 /\ q = req[r] \/ \E row : q = [req[r] EXCEPT !.row = row]
          BY <4>a
        <4>2. req'[r] = q /\ pc'[r] = p
          BY <1>5, <4>1
        <4> QED BY <1>0, <2>1, <4>1, <4>2 DEF Request
      <3> QED BY <3>1, <3>2
    <2>3. pc'[r] = "save" => req'[r].row.file \in state'
      BY <1>0, <1>1, <2>2 DEF RowsOfShared, tables
    <2> QED BY <1>2, <2>2, <2>3 DEF StillShared, At
  <1> QED BY <1>6, <1>7, <1>8, <1>9

(* Writing for a request. *)
LEMMA WritesShared ==
  ASSUME Sequential, RowsTyped, SharedInv, SequentialInv, NEW r \in Reqs,
         \/ WriteShareState(r) \/ WritePublicFile(r) \/ WriteUnpublished(r)
         \/ SaveOpened(r) \/ AnswerOpen(r) \/ DeleteShareStates(r) \/ WriteDeleted(r)
  PROVE  SharedInv'
  <1>0. /\ StillShared(r) /\ req[r] \in Request /\ RowsOfShared /\ IdsSuffice
        /\ link \in [Ids -> Row] /\ userLink \in [Ids -> Row] /\ req[r].file \in Files
        /\ nextId \in Nat \ {0} /\ started \in Nat /\ MaxRequests \in Nat
        /\ file \in [Files -> FileStates] /\ state \subseteq Files
        /\ \A i \in Ids : opens[i] \in Nat \cup {Uncounted}
    BY LinksAssumption DEF SharedInv, RowsTyped, Request
  <1>1. ASSUME NEW p \in {"ok", "error"}, Goto(r, p),
               UNCHANGED <<groups, started>>, nextId' <= started' + 1, nextId' \in {nextId, nextId + 1},
               file' \in [Files -> FileStates],
               state' \subseteq Files, received' \subseteq Files,
               members' \in [Ids -> SUBSET Hashes],
               opens' \in [Ids -> Nat \cup {Uncounted}], RowsOfShared'
        PROVE  SharedInv'
    <2>1. pc'[r] = p
      BY <1>1 DEF Goto, RowsTyped
    <2>2. StillShared(r)'
      BY <2>1 DEF StillShared, At, Finished
    <2>3. IdsSuffice'
      <3>1. \A g \in groups : g \in Int /\ g < nextId
        BY <1>0 DEF IdsSuffice, SharedInv, Ids
      <3> QED BY <1>0, <1>1, <3>1 DEF IdsSuffice
    <2> QED BY <1>1, <2>2, <2>3, OneRequest DEF SharedInv
  <1>2. CASE Fails(r)
    <2>1. /\ Goto(r, "error") /\ UNCHANGED <<tables, opens, started>>
      BY <1>2 DEF Fails
    <2>2. RowsOfShared' /\ nextId' <= started' + 1
      BY <1>0, <2>1 DEF RowsOfShared, IdsSuffice, tables
    <2> QED BY <1>0, <1>1, <2>1, <2>2 DEF SharedInv, tables
  (* a state is created for a live file *)
  <1>3. ASSUME pc[r] = "write", req[r].route \in {"state", "publish", "unpublish"}
        PROVE  /\ Created(r) \subseteq Files /\ state \subseteq Created(r)
               /\ \A f \in state \cup {req[r].file} : f \in Files /\ file[f] \notin Gone
               /\ \A f \in Created(r) : file[f] \notin Gone
    BY <1>0, <1>3 DEF Created, StillShared, RowsOfShared, Gone
  <1>4. CASE WriteShareState(r) /\ ~Fails(r)
    <2>1. /\ At(r, "write", "state") /\ state' = Created(r) /\ Goto(r, "ok")
          /\ UNCHANGED <<file, received, link, userLink, nextId, groups, members,
                         req, opens, started>>
      BY <1>4 DEF WriteShareState
    <2>2. RowsOfShared' /\ nextId' <= started' + 1
      BY <1>0, <1>3, <2>1 DEF RowsOfShared, IdsSuffice, At
    <2> QED BY <1>0, <1>1, <1>3, <2>1, <2>2 DEF SharedInv, At
  <1>5. CASE WritePublicFile(r) /\ ~Fails(r)
    <2> DEFINE q == req[r]
               i == IF q.id = NoId THEN nextId ELSE q.id
               row == Typed(q.row, q.type)
               n == IF q.type = "one-time" THEN 0 ELSE Uncounted
    <2>1. /\ At(r, "write", "publish") /\ MayInsert(r, q.row) /\ state' = Created(r)
          /\ link' = [link EXCEPT ![i] = row] /\ opens' = [opens EXCEPT ![i] = n]
          /\ nextId' = IF q.id = NoId THEN nextId + 1 ELSE nextId
          /\ Goto(r, "ok")
          /\ UNCHANGED <<file, received, userLink, groups, members, req, started>>
      BY <1>5 DEF WritePublicFile
    <2>2. nextId <= started
      BY <1>0, <2>1 DEF StillShared, At, Finished
    <2>3. row.file = q.row.file /\ q.row.file \in state'
      <3>1. q.row \in Row /\ q.type \in {"public", "one-time", "monthly"}
        BY <1>0 DEF Request
      <3>2. row.file = q.row.file
        BY <3>1 DEF Typed, Row
      <3> QED BY <2>1, <3>2 DEF MayInsert
    <2>4. \A j \in Ids : link'[j].file # NoFile => link'[j].file \in state'
      <3>1. \A j \in Ids : link'[j] \in {link[j], row}
        <4> HIDE DEF row, i
        <4> QED BY <1>0, <2>1
      <3>2. state \subseteq state'
        BY <1>3, <2>1 DEF At
      <3> HIDE DEF row
      <3> QED BY <1>0, <2>3, <3>1, <3>2 DEF RowsOfShared
    <2>5. RowsOfShared'
      BY <1>0, <1>3, <2>1, <2>4 DEF RowsOfShared, At
    <2>6. opens' \in [Ids -> Nat \cup {Uncounted}]
      <3>1. n \in Nat \cup {Uncounted}
        OBVIOUS
      <3> HIDE DEF n, i
      <3> QED BY <2>1, <3>1 DEF SharedInv
    <2>7. nextId' <= started' + 1 /\ nextId' \in {nextId, nextId + 1}
      BY <1>0, <2>1, <2>2
    <2> QED BY <1>0, <1>1, <1>3, <2>1, <2>5, <2>6, <2>7 DEF SharedInv, At
  <1>6. CASE WriteUnpublished(r) /\ ~Fails(r)
    <2>1. /\ At(r, "write", "unpublish") /\ state' = state \cup {req[r].file}
          /\ link' = Unlinked(req[r].id) /\ Goto(r, "ok")
          /\ members' = IF req[r].id = NoId THEN members ELSE LeaveGroup(req[r].row.hash)
          /\ UNCHANGED <<file, received, userLink, nextId, groups, req, opens, started>>
      BY <1>6 DEF WriteUnpublished
    <2>2. members' \in [Ids -> SUBSET Hashes]
      BY <2>1 DEF LeaveGroup, SharedInv
    <2>3. \A j \in Ids : link'[j] \in {link[j], NoRow} /\ NoRow.file = NoFile
      BY <1>0, <2>1 DEF Unlinked, NoRow
    <2>4. RowsOfShared' /\ nextId' <= started' + 1
      BY <1>0, <1>3, <2>1, <2>3 DEF RowsOfShared, IdsSuffice, At
    <2>5. state' \subseteq Files
      BY <1>0, <2>1
    <2> QED BY <1>0, <1>1, <2>1, <2>2, <2>4, <2>5 DEF SharedInv
  <1>7. ASSUME NEW i, CountOpen(i) PROVE opens' \in [Ids -> Nat \cup {Uncounted}]
    BY <1>0, <1>7 DEF CountOpen, Uncounted
  <1>8. CASE SaveOpened(r) /\ ~Fails(r)
    <2> DEFINE row == Opened(req[r].row)
    <2>1. /\ pc[r] = "save" /\ link' = [link EXCEPT ![req[r].id] = row]
          /\ CountOpen(req[r].id) /\ Goto(r, "ok")
          /\ UNCHANGED <<file, state, received, userLink, nextId, groups, members,
                         req, started>>
      BY <1>8 DEF SaveOpened
    <2>2. row.file = req[r].row.file
      BY <1>0 DEF Opened, Row, Request
    <2>3. req[r].row.file \in state
      BY <1>0, <2>1 DEF StillShared
    <2>4. \A j \in Ids : link'[j] \in {link[j], row}
      <3> HIDE DEF row
      <3> QED BY <1>0, <2>1
    <2>5. RowsOfShared' /\ nextId' <= started' + 1
      <3> HIDE DEF row
      <3> QED BY <1>0, <2>1, <2>2, <2>3, <2>4 DEF RowsOfShared, IdsSuffice
    <2> QED BY <1>0, <1>1, <1>7, <2>1, <2>5 DEF SharedInv
  <1>9. CASE AnswerOpen(r) /\ ~Fails(r)
    <2>1. Goto(r, "ok") /\ CountOpen(req[r].id) /\ UNCHANGED <<tables, req, started>>
      BY <1>9 DEF AnswerOpen
    <2>2. RowsOfShared' /\ nextId' <= started' + 1
      BY <1>0, <2>1 DEF RowsOfShared, IdsSuffice, tables
    <2> QED BY <1>0, <1>1, <1>7, <2>1, <2>2 DEF SharedInv, tables
  (* the rows of the file go with its states *)
  <1>10. CASE DeleteShareStates(r)
    <2> DEFINE f == req[r].file
    <2>1. /\ pc[r] = "unshare" /\ state' = state \ {f}
          /\ received' = IF req[r].own THEN received \ {f} ELSE received
          /\ link' = Cascade(link, state') /\ userLink' = Cascade(userLink, received')
          /\ Goto(r, "write")
          /\ UNCHANGED <<file, nextId, groups, members, req, opens, started>>
      BY <1>10 DEF DeleteShareStates
    <2>2. RowsOfShared' /\ IdsSuffice'
      BY <1>0, <2>1 DEF RowsOfShared, IdsSuffice, Cascade, NoRow
    <2>3. pc'[r] = "write" /\ req'[r] = req[r]
      BY <2>1 DEF Goto, RowsTyped
    <2>4. req[r].route = "delete" /\ file[f] = "live" /\ nextId <= started
      BY <1>0, <2>1 DEF SequentialInv, StillTrue, StillShared, Finished
    <2>5. StillShared(r)'
      BY <2>1, <2>3, <2>4 DEF StillShared, At
    <2> QED BY <1>0, <2>1, <2>2, <2>5, OneRequest DEF SharedInv
  (* a deleted file has no states, but for that of another recipient *)
  <1>11. CASE WriteDeleted(r) /\ ~Fails(r)
    <2> DEFINE f == req[r].file
    <2>1. /\ At(r, "write", "delete")
          /\ file' = [file EXCEPT ![f] = IF req[r].own THEN "deleted" ELSE "removed"]
          /\ Goto(r, "ok")
          /\ UNCHANGED <<state, received, link, userLink, nextId, groups, members, req,
                         opens, started>>
      BY <1>11 DEF WriteDeleted
    <2>2. f \notin state /\ (req[r].own => f \notin received)
      BY <1>0, <2>1 DEF StillShared
    <2>3. /\ \A e \in state : e \in Files /\ file'[e] = file[e]
          /\ \A e \in received : e \in Files /\ file'[e] \in {file[e], "removed"}
      BY <1>0, <2>1, <2>2 DEF SharedInv
    <2>4. RowsOfShared' /\ nextId' <= started' + 1
      BY <1>0, <2>1, <2>3 DEF RowsOfShared, IdsSuffice
    <2>5. file' \in [Files -> FileStates]
      BY <1>0, <2>1 DEF FileStates
    <2> QED BY <1>0, <1>1, <2>1, <2>4, <2>5 DEF SharedInv
  <1> QED BY <1>2, <1>4, <1>5, <1>6, <1>8, <1>9, <1>10, <1>11

(* Every step of sequential requests. *)
LEMMA NextShared ==
  ASSUME Sequential
  PROVE  RowsTyped /\ SequentialInv /\ SharedInv /\ [Next]_vars => SharedInv'
  <1> SUFFICES ASSUME RowsTyped, SequentialInv, SharedInv, [Next]_vars PROVE SharedInv'
    OBVIOUS
  <1>1. CASE UNCHANGED vars
    <2>1. \A r \in Reqs : StillShared(r)'
      BY <1>1 DEF vars, SharedInv, StillShared, At
    <2> QED BY <1>1, <2>1 DEF vars, SharedInv, RowsOfShared, IdsSuffice
  <1>2. ASSUME NEW r \in Reqs, Calls(r) PROVE SharedInv'
    BY <1>2, CallsShared
  <1>3. ASSUME NEW r \in Reqs, Step(r) PROVE SharedInv'
    BY <1>3, ReadsShared, WritesShared DEF Step, SequentialInv
  <1>4. ASSUME NEW i \in Ids, Expire(i) PROVE SharedInv'
    <2>1. /\ link' = [link EXCEPT ![i].expires = "over"]
          /\ UNCHANGED <<file, state, received, userLink, nextId, groups, members, pc,
                         req, opens, started>>
      BY <1>4 DEF Expire
    <2>2. \A j \in Ids : /\ link'[j].file = link[j].file
                         /\ link'[j].hash = link[j].hash
      BY <2>1 DEF RowsTyped, Row
    <2>3. \A h : RowsWith(link', h) = RowsWith(link, h)
      BY <2>2, SameRows
    <2>4. \A r \in Reqs : StillShared(r)'
      BY <2>1, <2>3 DEF SharedInv, StillShared, At
    <2> QED BY <2>1, <2>2, <2>4 DEF SharedInv, RowsOfShared, IdsSuffice
  <1> QED BY <1>1, <1>2, <1>3, <1>4 DEF Next

(* The invariant of files that are shared. *)
LEMMA AlwaysShared ==
  ASSUME Sequential
  PROVE  Spec => []SharedInv
  BY InitShared, AlwaysTyped, AlwaysSequential, NextShared, PTL DEF Spec

(* While requests run one after the other, the rows and the ids of links are
   well-formed, and no share state and no link outlives its file, whichever routes
   created them (LinksInv). *)
THEOREM LinksDoNotOutliveFiles ==
  ASSUME Sequential
  PROVE  Spec => []LinksInv
  <1>1. RowsTyped /\ SharedInv => LinksInv
    <2> SUFFICES ASSUME RowsTyped, SharedInv PROVE TypeOK /\ DeletedFilesHaveNoLink
      BY DEF LinksInv
    <2>1. nextId \in 1..(MaxRequests + 1)
      BY LinksAssumption DEF RowsTyped, SharedInv, IdsSuffice
    <2>2. TypeOK
      BY <2>1 DEF TypeOK, RowsTyped, SharedInv, Progress, Request, FileStates
    <2>3. DeletedFilesHaveNoLink
      BY LinksAssumption DEF DeletedFilesHaveNoLink, SharedInv, RowsOfShared, RowsOf, Gone
    <2> QED BY <2>2, <2>3
  <1> QED BY <1>1, AlwaysTyped, AlwaysShared, PTL

(* While requests run one after the other, a link leaves a group only in the step
   that unpublishes it, and takes no other along, although records of groups and
   links are related by the share hash alone (GroupsLoseOnlyUnpublished). *)
THEOREM GroupsKeepPublished ==
  ASSUME Sequential
  PROVE  Spec => GroupsLoseOnlyUnpublished
  <1>1. ASSUME RowsTyped, SequentialInv, SharedInv, [Next]_vars,
               NEW g \in groups, NEW h \in members[g] \ members'[g]
        PROVE  RowsWith(link, h) # {} /\ RowsWith(link', h) = {}
    <2>0. /\ link \in [Ids -> Row] /\ members \in [Ids -> SUBSET Hashes] /\ g \in Ids
          /\ g < nextId /\ NoRow.file = NoFile
      BY <1>1 DEF SharedInv, RowsTyped, IdsSuffice, NoRow
    <2>1. members' # members
      BY <1>1
    <2>2. ASSUME NEW r \in Reqs, Calls(r) PROVE FALSE
      <3>1. PICK H : CreateGroup(r, H)
        BY <2>1, <2>2 DEF Calls, GetShareState, UnpublishFile, DeleteFile, PublishFile,
                          GetPublishedFile, ShareFile, Call, tables
      <3>2. members' = [members EXCEPT ![nextId] = H] /\ nextId # g
        BY <1>1, <2>0, <3>1 DEF CreateGroup, RowsTyped, Ids
      <3> QED BY <1>1, <2>0, <3>2
    <2>3. ASSUME NEW r \in Reqs, WriteUnpublished(r)
          PROVE  RowsWith(link, h) # {} /\ RowsWith(link', h) = {}
      <3> DEFINE q == req[r]
      <3>1. /\ At(r, "write", "unpublish") /\ q.id # NoId /\ link' = Unlinked(q.id)
            /\ members' = LeaveGroup(q.row.hash)
        BY <2>1, <2>3 DEF WriteUnpublished, Fails, tables
      <3>2. h = q.row.hash
        BY <1>1, <2>0, <3>1 DEF LeaveGroup
      <3>3. q.id \in RowsWith(link, h)
        BY <1>1, <3>1, <3>2 DEF SharedInv, StillShared
      <3>4. \A i \in Ids \ {q.id} : link[i].file # NoFile => link[i].hash # h
        BY <1>1, <3>3 DEF SequentialInv, HashNamesOneLink, RowsWith
      <3>5. \A i \in Ids : link'[i] = IF i = q.id THEN NoRow ELSE link[i]
        BY <2>0, <3>1 DEF Unlinked
      <3> QED BY <2>0, <3>3, <3>4, <3>5 DEF RowsWith
    <2>4. ASSUME NEW r \in Reqs, Step(r)
          PROVE  WriteUnpublished(r)
      BY <2>1, <2>4 DEF Step, FindFile, FindShareState, FindOldRow, FindPublicFileByHash,
         Reads, WriteShareState, WritePublicFile, SaveOpened, AnswerOpen,
         DeleteShareStates, WriteDeleted, Fails, tables
    <2>5. ~UNCHANGED vars /\ \A i \in Ids : ~Expire(i)
      BY <2>1 DEF vars, Expire
    <2> QED BY <1>1, <2>2, <2>3, <2>4, <2>5 DEF Next
  <1>2. RowsTyped /\ SequentialInv /\ SharedInv /\ [Next]_vars =>
          [\A g \in groups : \A h \in members[g] \ members'[g] :
              RowsWith(link, h) # {} /\ RowsWith(link', h) = {}]_vars
    BY <1>1
  <1> QED BY <1>2, AlwaysTyped, AlwaysSequential, AlwaysShared, PTL
          DEF Spec, GroupsLoseOnlyUnpublished
=============================================================================
