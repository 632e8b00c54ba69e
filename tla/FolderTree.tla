----------------------------- MODULE FolderTree -----------------------------
(***************************************************************************)
(* The tree of folders and files: CreateFolder, the folders that an upload *)
(* makes on its way (GetAndProcessFileRoot), moving a folder or a file,    *)
(* and the recursive DeleteFolder.                                         *)
(*                                                                         *)
(* Creations and moves commit statement by statement; a delete reads       *)
(* committed rows, folder by folder, and commits its soft deletions at the *)
(* end.  folderMutex is held by creations and moves, not by uploads and    *)
(* deletes.  What a delete does to each file (objects, storage, ownership) *)
(* is the subject of FolderDelete.                                         *)
(***************************************************************************)
EXTENDS Integers, Sequences

CONSTANTS
    Users, Titles,
    TitlesOf,       \* Users -> SUBSET Titles: the names that a user gives
    Reqs,           \* slots for requests in flight
    Handlers,       \* the routes that clients call
    Careful,        \* clients do not move a folder below itself
    MaxRequests,    \* bound: requests ever started
    MaxFolders,     \* bound: folders ever created
    MaxDepth        \* bound: frames of the recursion

ASSUME TreeAssumption ==
    /\ Users # {} /\ Titles # {} /\ TitlesOf \in [Users -> SUBSET Titles]
    /\ Careful \in BOOLEAN
    /\ Handlers \subseteq {"create", "upload", "moveFolder", "moveFile", "delete"}
    /\ MaxRequests \in Nat /\ MaxFolders \in Nat /\ MaxDepth \in Nat

Top == 0                        \* the root "/"
Folders == 1..MaxFolders
FileIds == 1..MaxRequests       \* a request uploads one file
NoUser == "-"
Free == "-"
Places == Folders \cup {Top}

VARIABLES
    folder,         \* Folders -> [row, title, root]
    member,         \* folders_users: the owner of each folder, if it has one
    file,           \* FileIds -> [row, root, user]
    nextFolder, nextFile,
    folderMutex,
    pc, req,        \* the requests
    stack,          \* the recursion of a delete: [folder, children to visit]
    pending,        \* what its transaction has deleted
    started

tree == <<folder, member, file, nextFolder, nextFile>>
vars == <<folder, member, file, nextFolder, nextFile, folderMutex, pc, req,
          stack, pending, started>>

Rows == {"absent", "live", "deleted"}
Frame == [folder : Folders, children : SUBSET Folders]
Paths == {<< >>} \cup {<<t>> : t \in Titles} \cup (Titles \X Titles)

TypeOK ==
    /\ folder \in [Folders -> [row : Rows, title : Titles, root : Places]]
    /\ member \in [Folders -> Users \cup {NoUser}]
    /\ file \in [FileIds -> [row : Rows, root : Places, user : Users]]
    /\ nextFolder \in 1..(MaxFolders + 1)
    /\ nextFile \in 1..(MaxRequests + 1)
    /\ folderMutex \in Reqs \cup {Free}
    /\ pc \in [Reqs -> {"idle", "create", "relate", "path", "mkdir", "move",
                        "find", "files", "children", "next", "commit"}]
    /\ req \in [Reqs -> [route : Handlers \cup {"none"}, user : Users,
                         path : Paths, root : Places, id : Folders \cup FileIds]]
    /\ stack \in [Reqs -> Seq(Frame)]
    /\ \A r \in Reqs : Len(stack[r]) <= MaxDepth
    /\ pending \in [Reqs -> [files : SUBSET FileIds, folders : SUBSET Folders]]
    /\ started \in 0..MaxRequests

NoRequest == [route |-> "none", user |-> CHOOSE u \in Users : TRUE,
              path |-> << >>, root |-> Top, id |-> 1]
NothingPending == [files |-> {}, folders |-> {}]

Init ==
    /\ folder = [f \in Folders |-> [row |-> "absent", root |-> Top,
                                    title |-> CHOOSE t \in Titles : TRUE]]
    /\ member = [f \in Folders |-> NoUser]
    /\ file = [g \in FileIds |-> [row |-> "absent", root |-> Top,
                                  user |-> NoRequest.user]]
    /\ nextFolder = 1 /\ nextFile = 1 /\ folderMutex = Free
    /\ pc = [r \in Reqs |-> "idle"] /\ req = [r \in Reqs |-> NoRequest]
    /\ stack = [r \in Reqs |-> << >>]
    /\ pending = [r \in Reqs |-> NothingPending]
    /\ started = 0

-----------------------------------------------------------------------------
(* Folders and the tree                                                    *)

Live(f) == folder[f].row = "live"

(* f lies below g, or is g *)
Below(f, g) ==
    LET up[i \in 0..MaxFolders] ==
            IF i = 0 THEN {f}
            ELSE LET s == up[i - 1]
                 IN  s \cup {folder[x].root : x \in s \ {Top}}
    IN  g \in up[MaxFolders]

(* where a client may put something: the folders that it is shown *)
PlacesOf(u) == {Top} \cup {f \in Folders : Live(f) /\ member[f] = u}

-----------------------------------------------------------------------------
(* A client calls a route                                                  *)

Call(r, route, p, q) ==
    /\ route \in Handlers /\ pc[r] = "idle" /\ started < MaxRequests
    /\ started' = started + 1
    /\ pc' = [pc EXCEPT ![r] = p]
    /\ req' = [req EXCEPT ![r] = [q EXCEPT !.route = route]]
    /\ UNCHANGED <<tree, folderMutex, stack, pending>>

CreateFolder(r, u, t, root) ==
    Call(r, "create", "create", [NoRequest EXCEPT !.user = u, !.path = <<t>>,
                                                  !.root = root])

(* a file whose name is a path below root *)
Upload(r, u, path, root) ==
    Call(r, "upload", "path", [NoRequest EXCEPT !.user = u, !.path = path,
                                                !.root = root])

UpdateFolderRoot(r, u, f, root) ==
    /\ Live(f) /\ member[f] = u
    /\ Careful => ~Below(root, f)
    /\ Call(r, "moveFolder", "move", [NoRequest EXCEPT !.user = u, !.id = f,
                                                       !.root = root])

UpdateFileRoot(r, u, g, root) ==
    /\ file[g].row = "live" /\ file[g].user = u
    /\ Call(r, "moveFile", "move", [NoRequest EXCEPT !.user = u, !.id = g,
                                                     !.root = root])

DeleteFolder(r, u, f) ==
    /\ Live(f) /\ member[f] = u
    /\ Call(r, "delete", "find", [NoRequest EXCEPT !.user = u, !.id = f])

-----------------------------------------------------------------------------
(* Creations and moves                                                     *)

Goto(r, p) == pc' = [pc EXCEPT ![r] = p]

Return(r) == /\ Goto(r, "idle")
             /\ req' = [req EXCEPT ![r] = NoRequest]
             /\ stack' = [stack EXCEPT ![r] = << >>]
             /\ pending' = [pending EXCEPT ![r] = NothingPending]
             /\ UNCHANGED started

(* the row of `folders`, committed on its own *)
Insert(t, root) ==
    /\ nextFolder \in Folders
    /\ folder' = [folder EXCEPT ![nextFolder] =
                    [row |-> "live", title |-> t, root |-> root]]
    /\ nextFolder' = nextFolder + 1

InsertFolder(r) ==
    /\ pc[r] = "create" /\ folderMutex = Free
    /\ Insert(Head(req[r].path), req[r].root)
    /\ req' = [req EXCEPT ![r].id = nextFolder]
    /\ folderMutex' = r
    /\ Goto(r, "relate")
    /\ UNCHANGED <<member, file, nextFile, stack, pending, started>>

(* mutant: folderMutex is not unlocked *)
RelateAndKeepLock(r) ==
    /\ pc[r] = "relate" /\ req[r].route = "create"
    /\ member' = [member EXCEPT ![req[r].id] = req[r].user]
    /\ Return(r)
    /\ UNCHANGED <<folder, file, nextFolder, nextFile, folderMutex>>

(* the row of `folders_users`, in another statement *)
RelateFolder(r) ==
    /\ pc[r] = "relate" /\ req[r].route = "create"
    /\ member' = [member EXCEPT ![req[r].id] = req[r].user]
    /\ folderMutex' = Free
    /\ Return(r)
    /\ UNCHANGED <<folder, file, nextFolder, nextFile>>

(* mutant: row and place are swapped *)
MoveInside(r) ==
    LET q == req[r] IN
    /\ pc[r] = "move" /\ q.route = "moveFolder" /\ folderMutex = Free
    /\ folder' = IF q.root # Top /\ Live(q.root)
                   THEN [folder EXCEPT ![q.root].root = q.id] ELSE folder
    /\ Return(r)
    /\ UNCHANGED <<member, file, nextFolder, nextFile, folderMutex>>

(* UpdateRootOnly: nothing is asked of the new place *)
MoveFolder(r) ==
    LET q == req[r] IN
    /\ pc[r] = "move" /\ q.route = "moveFolder" /\ folderMutex = Free
    /\ folder' = IF Live(q.id) THEN [folder EXCEPT ![q.id].root = q.root]
                               ELSE folder
    /\ Return(r)
    /\ UNCHANGED <<member, file, nextFolder, nextFile, folderMutex>>

(* a deleted file is not found *)
MoveFile(r) ==
    LET q == req[r] IN
    /\ pc[r] = "move" /\ q.route = "moveFile"
    /\ file' = IF file[q.id].row = "live" THEN [file EXCEPT ![q.id].root = q.root]
                                          ELSE file
    /\ Return(r)
    /\ UNCHANGED <<folder, member, nextFolder, nextFile, folderMutex>>

-----------------------------------------------------------------------------
(* GetAndProcessFileRoot                                                   *)

(* mutant: only what lies in "/" is found *)
InTop(t, root) == {f \in Folders : Live(f) /\ folder[f].title = t
                                           /\ folder[f].root = root /\ root = Top}

(* mutant: the title is not compared *)
AnyTitled(t, root) == {f \in Folders : Live(f) /\ folder[f].root = root}

(* live folders of this title in this place, whosever they are *)
Titled(t, root) == {f \in Folders : Live(f) /\ folder[f].title = t
                                            /\ folder[f].root = root}

(* the recursive call: the next title below f *)
Descend(r, f) == req' = [req EXCEPT ![r].path = Tail(@), ![r].root = f]

FindFolderByTitleAndRoot(r) ==
    LET T == Titled(Head(req[r].path), req[r].root) IN
    /\ pc[r] = "path" /\ req[r].path # << >>
    /\ \/ /\ T # {}
          /\ Descend(r, CHOOSE f \in T : \A g \in T : f <= g)
          /\ UNCHANGED pc
       \/ T = {} /\ Goto(r, "mkdir") /\ UNCHANGED req
    /\ UNCHANGED <<tree, folderMutex, stack, pending, started>>

InsertPathFolder(r) ==
    /\ pc[r] = "mkdir"
    /\ Insert(Head(req[r].path), req[r].root)
    /\ req' = [req EXCEPT ![r].id = nextFolder]
    /\ Goto(r, "relate")
    /\ UNCHANGED <<member, file, nextFile, folderMutex, stack, pending, started>>

(* mutant: the recursion goes on without the UID of the new folder *)
RelateAndLose(r) ==
    /\ pc[r] = "relate" /\ req[r].route = "upload"
    /\ member' = [member EXCEPT ![req[r].id] = req[r].user]
    /\ Descend(r, -1)
    /\ Goto(r, "path")
    /\ UNCHANGED <<folder, file, nextFolder, nextFile, folderMutex, stack,
                   pending, started>>

RelatePathFolder(r) ==
    /\ pc[r] = "relate" /\ req[r].route = "upload"
    /\ member' = [member EXCEPT ![req[r].id] = req[r].user]
    /\ Descend(r, req[r].id)
    /\ Goto(r, "path")
    /\ UNCHANGED <<folder, file, nextFolder, nextFile, folderMutex, stack,
                   pending, started>>

(* The row of a new folder or its relation is not written: the handler answers an
   error.  The row is committed by then if it is the relation, and stays without
   an owner; so do the folders that an upload has made before.  *)
FolderFails(r) ==
    /\ pc[r] \in {"mkdir", "relate"}
    /\ folderMutex' = IF folderMutex = r THEN Free ELSE folderMutex
    /\ Return(r)
    /\ UNCHANGED tree

(* the rest of the upload *)
InsertFile(r) ==
    /\ pc[r] = "path" /\ req[r].path = << >>
    /\ file' = [file EXCEPT ![nextFile] = [row |-> "live", root |-> req[r].root,
                                           user |-> req[r].user]]
    /\ nextFile' = nextFile + 1
    /\ Return(r)
    /\ UNCHANGED <<folder, member, nextFolder, folderMutex>>

-----------------------------------------------------------------------------
(* DeleteFolder                                                            *)

Current(r) == stack[r][Len(stack[r])].folder
Unvisited(r) == stack[r][Len(stack[r])].children

(* DeleteFolderAndContentsRecursive is called *)
Enter(r, f) ==
    /\ Len(stack[r]) < MaxDepth
    /\ stack' = [stack EXCEPT ![r] = Append(@, [folder |-> f, children |-> {}])]
    /\ Goto(r, "files")

(* FindFolderByUID and FindFolderUser *)
FindFolder(r) ==
    /\ pc[r] = "find"
    /\ \/ Live(req[r].id) /\ Enter(r, req[r].id) /\ UNCHANGED <<req, pending, started>>
       \/ ~Live(req[r].id) /\ Return(r)
    /\ UNCHANGED <<tree, folderMutex>>

(* DeleteAllFilesInFolder *)
DeleteFiles(r) ==
    /\ pc[r] = "files"
    /\ pending' = [pending EXCEPT ![r].files = @ \cup
                    {g \in FileIds : file[g].row = "live"
                                     /\ file[g].root = Current(r)}]
    /\ Goto(r, "children")
    /\ UNCHANGED <<tree, folderMutex, req, stack, started>>

(* mutant: subfolders are left alone *)
NoChildren(f) == {}

(* query.GetChildFoldersByUID *)
ChildFolders(f) == {g \in Folders : Live(g) /\ folder[g].root = f}

ListChildren(r) ==
    /\ pc[r] = "children"
    /\ stack' = [stack EXCEPT ![r][Len(stack[r])].children = ChildFolders(Current(r))]
    /\ Goto(r, "next")
    /\ UNCHANGED <<tree, folderMutex, req, pending, started>>

VisitChild(r) ==
    /\ pc[r] = "next" /\ Len(stack[r]) < MaxDepth
    /\ \E g \in Unvisited(r) :
          stack' = [stack EXCEPT ![r] =
              Append([@ EXCEPT ![Len(@)].children = @ \ {g}],
                     [folder |-> g, children |-> {}])]
    /\ Goto(r, "files")
    /\ UNCHANGED <<tree, folderMutex, req, pending, started>>

(* query.DeleteFolderByUID, and return from the recursion *)
DeleteSelf(r) ==
    /\ pc[r] = "next" /\ Unvisited(r) = {}
    /\ pending' = [pending EXCEPT ![r].folders = @ \cup {Current(r)}]
    /\ stack' = [stack EXCEPT ![r] = SubSeq(@, 1, Len(@) - 1)]
    /\ Goto(r, IF Len(stack[r]) = 1 THEN "commit" ELSE "next")
    /\ UNCHANGED <<tree, folderMutex, req, started>>

Commit(r) ==
    /\ pc[r] = "commit"
    /\ folder' = [f \in Folders |-> IF f \in pending[r].folders
                    THEN [folder[f] EXCEPT !.row = "deleted"] ELSE folder[f]]
    /\ file' = [g \in FileIds |-> IF g \in pending[r].files
                    THEN [file[g] EXCEPT !.row = "deleted"] ELSE file[g]]
    /\ Return(r)
    /\ UNCHANGED <<member, nextFolder, nextFile, folderMutex>>

(* an error on the way: the transaction is rolled back *)
DeleteFails(r) ==
    /\ pc[r] \in {"files", "children", "next", "commit"}
    /\ Return(r)
    /\ UNCHANGED <<tree, folderMutex>>

-----------------------------------------------------------------------------
PathsOf(u) == {path \in Paths : \A i \in DOMAIN path : path[i] \in TitlesOf[u]}

Calls(r) ==
    \E u \in Users :
        \/ \E root \in PlacesOf(u) :
              \/ \E t \in TitlesOf[u] : CreateFolder(r, u, t, root)
              \/ \E path \in PathsOf(u) : Upload(r, u, path, root)
              \/ \E f \in Folders : UpdateFolderRoot(r, u, f, root)
              \/ \E g \in FileIds : UpdateFileRoot(r, u, g, root)
        \/ \E f \in Folders : DeleteFolder(r, u, f)

Step(r) ==
    \/ InsertFolder(r) \/ RelateFolder(r) \/ MoveFolder(r) \/ MoveFile(r)
    \/ FindFolderByTitleAndRoot(r) \/ InsertPathFolder(r) \/ RelatePathFolder(r)
    \/ InsertFile(r)
    \/ FindFolder(r) \/ DeleteFiles(r) \/ ListChildren(r) \/ VisitChild(r)
    \/ DeleteSelf(r) \/ Commit(r)

Next == \E r \in Reqs : Calls(r) \/ Step(r) \/ FolderFails(r) \/ DeleteFails(r)

(* A handler goes on (weak fairness), and gets folderMutex when it waits for
   it, as sync.Mutex starves nobody (strong fairness).  Nothing must fail. *)
Fairness == \A r \in Reqs : /\ WF_vars(Step(r))
                            /\ SF_vars(InsertFolder(r) \/ MoveFolder(r))

Spec == Init /\ [][Next]_vars /\ Fairness

-----------------------------------------------------------------------------
Quiet == \A r \in Reqs : pc[r] = "idle"

(* What is live hangs from "/" by live folders: a delete takes everything below
   the folder with it, and nothing is left where nobody can reach it. *)
NothingBelowDeleted ==
    Quiet => /\ \A f \in Folders : Live(f) /\ folder[f].root # Top =>
                    Live(folder[f].root)
             /\ \A g \in FileIds : file[g].row = "live" /\ file[g].root # Top =>
                    Live(file[g].root)

(* No folder lies below itself. *)
TreeIsAcyclic == \A f \in Folders : Below(f, Top)

(* The live folders are a tree below "/", and the live files hang from it.  *)
TreeInv == TypeOK /\ NothingBelowDeleted /\ TreeIsAcyclic

(* An upload makes a folder only where there is none of that title, so that a
   path always leads to one folder. *)
PathsAreFoundBeforeMade ==
    [][\A r \in Reqs : pc[r] = "mkdir" /\ pc'[r] = "relate" =>
         ~\E f \in Folders : /\ Live(f)
                             /\ folder[f].title = Head(req[r].path)
                             /\ folder[f].root = req[r].root]_vars

(* The recursion of a delete comes to an end: the handler answers.  *)
RequestsAreAnswered == \A r \in Reqs : pc[r] # "idle" ~> pc[r] = "idle"

(* The recursion does not come back to a folder that it is in. *)
RecursionDescends ==
    \A r \in Reqs : \A i, j \in 1..Len(stack[r]) :
        i # j => stack[r][i].folder # stack[r][j].folder

(* A delete takes the user's own files only: whoever reaches a folder by its
   title may put a file into it, but the delete of the folder is not to take
   what other users have put there. *)
OnlyOwnFilesAreDeleted ==
    [][\A r \in Reqs, g \in FileIds :
         pc[r] = "commit" /\ g \in pending[r].files /\ file'[g].row = "deleted" =>
            file[g].user = req[r].user]_vars

(* A path leads to one folder, and that is a folder of the user, or of nobody if
   its relation failed: uploads do not make it twice, and deletes find no files of
   others in it.  *)
TitlesLeadToOwnFolders == PathsAreFoundBeforeMade /\ OnlyOwnFilesAreDeleted
=============================================================================
