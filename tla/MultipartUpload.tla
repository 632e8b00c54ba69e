--------------------------- MODULE MultipartUpload ---------------------------
(***************************************************************************)
(* POST /upload/multipart: a client sends the chunks of a content one      *)
(* request each, and the handler passes them on to an S3 multipart upload  *)
(* that it remembers in the package variable uploadStates.  A handler      *)
(* holds statesMutex from its first look at uploadStates until it returns; *)
(* the goroutine that aborts an upload holds it twice, and not in between. *)
(*                                                                         *)
(* A request, the S3 upload it may initiate and the abort it may start     *)
(* have the same number.  Chunks are numbered from 1.                      *)
(***************************************************************************)
EXTENDS Integers, Sequences

CONSTANTS
    Clients, Cids,
    CidOf,          \* Clients -> Cids: the content that a client sends
    Length,         \* the number of chunks of each content
    Failures,       \* the S3 calls that may fail or lose their answer
    Retries,        \* what a client may send after an error: the "same"
                    \* chunk or the "first"
    MaxRequests,    \* bound: requests ever sent
    MaxTimeouts,    \* bound: requests that a client does not wait for
    MaxCrashes      \* bound: restarts of the process

ASSUME UploadAssumption ==
    /\ Clients # {} /\ CidOf \in [Clients -> Cids]
    /\ Length \in Nat \ {0} /\ MaxRequests \in Nat
    /\ MaxTimeouts \in Nat /\ MaxCrashes \in Nat
    /\ Failures \subseteq {"initiate", "part", "complete", "abort"}
    /\ Retries \subseteq {"same", "first"}

Ids == 1..MaxRequests
None == 0
Chunks == 1..Length

VARIABLES
    states,         \* Cids -> multipartUploadState
    mutex,          \* the request whose handler holds statesMutex, or None
    pc, req,        \* the handlers, and the chunk each has been sent
    aborts, target, \* the abort goroutines, and the upload each has read
    upload, stored, \* S3: multipart uploads, and their parts
    object,         \* S3: Cids -> what the completed object consists of
    next, waits,    \* the clients: the next chunk, the request waited for
    failing,        \* history: the upload that an abort was started for
    sent, timeouts, crashes

s3 == <<upload, stored, object>>
peers == <<next, waits>>
bounds == <<sent, timeouts, crashes>>
vars == <<states, mutex, pc, req, aborts, target, upload, stored, object, next,
          waits, failing, sent, timeouts, crashes>>

Part == [number : Ids, chunk : Chunks]
State == [id : Ids \cup {None}, parts : Seq(Part), number : Nat \ {0}]
NoState == [id |-> None, parts |-> << >>, number |-> 1]

TypeOK ==
    /\ states \in [Cids -> State]
    /\ mutex \in Ids \cup {None}
    /\ pc \in [Ids -> {"none", "waiting", "part", "complete", "ok", "failed"}]
    /\ req \in [Ids -> [client : Clients, chunk : Chunks]]
    /\ aborts \in [Ids -> {"none", "read", "abort", "clean", "done", "lost"}]
    /\ target \in [Ids -> Ids \cup {None}]
    /\ upload \in [Ids -> {"none", "open", "completed", "aborted"}]
    /\ stored \in [Ids -> [Ids -> Chunks \cup {None}]]
    /\ object \in [Cids -> Seq(Chunks)]
    /\ next \in [Clients -> Nat \ {0}]
    /\ waits \in [Clients -> Ids \cup {None}]
    /\ failing \in [Ids -> Ids \cup {None}]
    /\ sent \in 0..MaxRequests
    /\ timeouts \in 0..MaxTimeouts /\ crashes \in 0..MaxCrashes

Init ==
    /\ states = [c \in Cids |-> NoState] /\ mutex = None
    /\ pc = [n \in Ids |-> "none"]
    /\ req = [n \in Ids |-> [client |-> CHOOSE k \in Clients : TRUE, chunk |-> 1]]
    /\ aborts = [n \in Ids |-> "none"] /\ target = [n \in Ids |-> None]
    /\ upload = [n \in Ids |-> "none"]
    /\ stored = [n \in Ids |-> [i \in Ids |-> None]]
    /\ object = [c \in Cids |-> << >>]
    /\ next = [k \in Clients |-> 1] /\ waits = [k \in Clients |-> None]
    /\ failing = [n \in Ids |-> None]
    /\ sent = 0 /\ timeouts = 0 /\ crashes = 0

-----------------------------------------------------------------------------
(* Clients                                                                 *)

SendChunk(k) ==
    /\ waits[k] = None /\ next[k] \in Chunks /\ sent < MaxRequests
    /\ sent' = sent + 1
    /\ req' = [req EXCEPT ![sent'] = [client |-> k, chunk |-> next[k]]]
    /\ pc' = [pc EXCEPT ![sent'] = "waiting"]
    /\ waits' = [waits EXCEPT ![k] = sent']
    /\ UNCHANGED <<states, mutex, aborts, target, s3, next, failing, timeouts,
                   crashes>>

RetryAt(k) == {IF how = "same" THEN next[k] ELSE 1 : how \in Retries}

SeeAnswer(k) ==
    /\ waits[k] # None
    /\ \/ pc[waits[k]] = "ok" /\ next' = [next EXCEPT ![k] = @ + 1]
       \/ /\ pc[waits[k]] = "failed"
          /\ \E i \in RetryAt(k) : next' = [next EXCEPT ![k] = i]
    /\ waits' = [waits EXCEPT ![k] = None]
    /\ UNCHANGED <<states, mutex, pc, req, aborts, target, s3, failing, bounds>>

(* the connection is lost, the handler goes on *)
TimeOut(k) ==
    /\ waits[k] # None /\ timeouts < MaxTimeouts
    /\ timeouts' = timeouts + 1
    /\ waits' = [waits EXCEPT ![k] = None]
    /\ \E i \in RetryAt(k) : next' = [next EXCEPT ![k] = i]
    /\ UNCHANGED <<states, mutex, pc, req, aborts, target, s3, failing, sent,
                   crashes>>

-----------------------------------------------------------------------------
(* The handler                                                             *)

Cid(n) == CidOf[req[n].client]
Last(n) == req[n].chunk = Length
Answer(n, a) == pc' = [pc EXCEPT ![n] = a] /\ mutex' = None

(* statesMutex.Lock() *)
Locks(n) == pc[n] = "waiting" /\ mutex = None

(* mutant: part numbers from 0 *)
FirstPartIsZero(n) == [NoState EXCEPT !.id = n, !.number = 0]

(* mutant: an upload in progress is continued *)
ContinueState(n) == IF states[Cid(n)] = NoState THEN [NoState EXCEPT !.id = n]
                                                 ELSE states[Cid(n)]

NewState(n) == [NoState EXCEPT !.id = n]

(* offset == 0: initiateMultipartUpload replaces the state of the content *)
FirstChunk(n) ==
    /\ Locks(n) /\ req[n].chunk = 1
    /\ upload' = [upload EXCEPT ![n] = "open"]
    /\ states' = [states EXCEPT ![Cid(n)] = NewState(n)]
    /\ mutex' = n /\ pc' = [pc EXCEPT ![n] = "part"]
    /\ UNCHANGED <<req, aborts, target, stored, object, peers, failing, bounds>>

(* an error of CreateMultipartUpload; S3 may have created the upload *)
InitiateFails(n) ==
    /\ Locks(n) /\ req[n].chunk = 1 /\ "initiate" \in Failures
    /\ upload' \in {upload, [upload EXCEPT ![n] = "open"]}
    /\ Answer(n, "failed")
    /\ UNCHANGED <<states, req, aborts, target, stored, object, peers, failing,
                   bounds>>

NextChunk(n) ==
    /\ Locks(n) /\ req[n].chunk # 1 /\ states[Cid(n)] # NoState
    /\ mutex' = n /\ pc' = [pc EXCEPT ![n] = "part"]
    /\ UNCHANGED <<states, req, aborts, target, s3, peers, failing, bounds>>

(* abortMultipartUploadAsync, called for the upload of the state, if any *)
StartAbort(n) ==
    /\ aborts' = [aborts EXCEPT ![n] = "read"]
    /\ failing' = [failing EXCEPT ![n] = states[Cid(n)].id]

(* mutant: the abort runs before the mutex is unlocked, not in a goroutine *)
AbortLocked(n) ==
    /\ Locks(n) /\ req[n].chunk # 1 /\ states[Cid(n)] = NoState
    /\ StartAbort(n)
    /\ mutex' = n
    /\ UNCHANGED <<states, pc, req, target, s3, peers, bounds>>

(* upload state not found *)
NotFound(n) ==
    /\ Locks(n) /\ req[n].chunk # 1 /\ states[Cid(n)] = NoState
    /\ StartAbort(n)
    /\ Answer(n, "failed")
    /\ UNCHANGED <<states, req, target, s3, peers, bounds>>

(* S3 overwrites a part that it has under this number *)
Store(n) ==
    LET s == states[Cid(n)] IN
    stored' = [stored EXCEPT ![s.id][s.number] = req[n].chunk]

(* mutant: state.PartNumber++ is forgotten *)
SamePartNumber(n) ==
    LET s == states[Cid(n)] IN
    [s EXCEPT !.parts = Append(@, [number |-> s.number, chunk |-> req[n].chunk])]

WithPart(n) ==
    LET s == states[Cid(n)] IN
    [s EXCEPT !.parts = Append(@, [number |-> s.number, chunk |-> req[n].chunk]),
              !.number = @ + 1]

UploadPart(n) ==
    /\ pc[n] = "part" /\ upload[states[Cid(n)].id] = "open"
    /\ Store(n)
    /\ states' = [states EXCEPT ![Cid(n)] = WithPart(n)]
    /\ IF Last(n) THEN pc' = [pc EXCEPT ![n] = "complete"] /\ UNCHANGED mutex
                  ELSE Answer(n, "ok")
    /\ UNCHANGED <<req, aborts, target, upload, object, peers, failing, bounds>>

(* an upload that S3 no longer has, or a failure before or after it stored
   the part; the state is kept *)
PartFails(n) ==
    /\ pc[n] = "part"
    /\ \/ upload[states[Cid(n)].id] # "open" /\ UNCHANGED stored
       \/ "part" \in Failures /\ (UNCHANGED stored \/ Store(n))
    /\ Answer(n, "failed")
    /\ UNCHANGED <<states, req, aborts, target, upload, object, peers, failing,
                   bounds>>

(* what S3 makes of the parts that it is told to put together *)
Assemble(n) ==
    LET s == states[Cid(n)] IN
    /\ upload' = [upload EXCEPT ![s.id] = "completed"]
    /\ object' = [object EXCEPT ![Cid(n)] =
                     [i \in DOMAIN s.parts |-> stored[s.id][s.parts[i].number]]]

CompleteUpload(n) ==
    /\ pc[n] = "complete" /\ upload[states[Cid(n)].id] = "open"
    /\ Assemble(n)
    /\ states' = [states EXCEPT ![Cid(n)] = NoState]
    /\ Answer(n, "ok")
    /\ UNCHANGED <<req, aborts, target, stored, peers, failing, bounds>>

(* mutant: a failed completion is answered like a success *)
CompleteFailsUnnoticed(n) ==
    /\ pc[n] = "complete"
    /\ \/ upload[states[Cid(n)].id] # "open" /\ UNCHANGED <<upload, object>>
       \/ /\ "complete" \in Failures
          /\ UNCHANGED <<upload, object>> \/ Assemble(n)
    /\ Answer(n, "ok")
    /\ UNCHANGED <<states, req, aborts, target, stored, peers, failing, bounds>>

CompleteFails(n) ==
    /\ pc[n] = "complete"
    /\ \/ upload[states[Cid(n)].id] # "open" /\ UNCHANGED <<upload, object>>
       \/ /\ "complete" \in Failures /\ upload[states[Cid(n)].id] = "open"
          /\ UNCHANGED <<upload, object>> \/ Assemble(n)
    /\ StartAbort(n)
    /\ Answer(n, "failed")
    /\ UNCHANGED <<states, req, target, stored, peers, bounds>>

-----------------------------------------------------------------------------
(* The goroutine of abortMultipartUploadAsync                              *)

AbortGoes(n, a) == aborts' = [aborts EXCEPT ![n] = a]

AbortReads(n) ==
    /\ aborts[n] = "read" /\ mutex = None
    /\ AbortGoes(n, IF states[Cid(n)] = NoState THEN "done" ELSE "abort")
    /\ target' = [target EXCEPT ![n] = states[Cid(n)].id]
    /\ UNCHANGED <<states, mutex, pc, req, s3, peers, failing, bounds>>

AbortUpload(n) ==
    /\ aborts[n] = "abort" /\ upload[target[n]] = "open"
    /\ upload' = [upload EXCEPT ![target[n]] = "aborted"]
    /\ AbortGoes(n, "clean")
    /\ UNCHANGED <<states, mutex, pc, req, target, stored, object, peers,
                   failing, bounds>>

(* S3 no longer has the upload, or does not answer; the state is kept *)
AbortFails(n) ==
    /\ aborts[n] = "abort"
    /\ \/ upload[target[n]] # "open" /\ UNCHANGED upload
       \/ /\ "abort" \in Failures /\ upload[target[n]] = "open"
          /\ upload' \in {upload, [upload EXCEPT ![target[n]] = "aborted"]}
    /\ AbortGoes(n, "done")
    /\ UNCHANGED <<states, mutex, pc, req, target, stored, object, peers,
                   failing, bounds>>

(* delete(uploadStates, cid), whichever upload the state is of by now *)
AbortCleans(n) ==
    /\ aborts[n] = "clean" /\ mutex = None
    /\ states' = [states EXCEPT ![Cid(n)] = NoState]
    /\ AbortGoes(n, "done")
    /\ UNCHANGED <<mutex, pc, req, target, s3, peers, failing, bounds>>

-----------------------------------------------------------------------------
(* the process ends, and with it uploadStates *)
Crash ==
    /\ crashes < MaxCrashes
    /\ crashes' = crashes + 1
    /\ states' = [c \in Cids |-> NoState] /\ mutex' = None
    /\ pc' = [n \in Ids |-> IF pc[n] \in {"waiting", "part", "complete"}
                              THEN "failed" ELSE pc[n]]
    /\ aborts' = [n \in Ids |-> IF aborts[n] \in {"read", "abort", "clean"}
                                  THEN "lost" ELSE aborts[n]]
    /\ UNCHANGED <<req, target, s3, peers, failing, sent, timeouts>>

Takes(n) == FirstChunk(n) \/ InitiateFails(n) \/ NextChunk(n) \/ NotFound(n)

CallsS3(n) ==
    \/ UploadPart(n) \/ PartFails(n) \/ CompleteUpload(n) \/ CompleteFails(n)
    \/ AbortUpload(n) \/ AbortFails(n)

Next ==
    \/ \E k \in Clients : SendChunk(k) \/ SeeAnswer(k) \/ TimeOut(k)
    \/ \E n \in Ids : Takes(n) \/ CallsS3(n) \/ AbortReads(n) \/ AbortCleans(n)
    \/ Crash

(* S3 calls end.  A goroutine that waits for statesMutex gets it at the latest when
   nobody holds it any more; a sync.RWMutex promises more.  *)
Fairness ==
    \A n \in Ids : /\ WF_vars(Takes(n))
                   /\ WF_vars(AbortReads(n) \/ AbortCleans(n))
                   /\ WF_vars(CallsS3(n))

Spec == Init /\ [][Next]_vars /\ Fairness

-----------------------------------------------------------------------------
(* An object that consists of all chunks of its content, once each and in order *)
Whole(c) == object[c] \in {<< >>, [i \in Chunks |-> i]}

(* and one that ends with further copies of the last chunk. *)
LastRepeated(c) ==
    /\ Chunks \subseteq DOMAIN object[c]
    /\ \A i \in DOMAIN object[c] : object[c][i] = IF i <= Length THEN i ELSE Length

(* a client was refused its last chunk, and has sent it again *)
LastSentAgain(c) ==
    \E m, n \in Ids : /\ m < n /\ Cid(m) = c /\ Last(m) /\ pc[m] = "failed"
                      /\ Cid(n) = c /\ Last(n) /\ pc[n] # "none"

(* As long as clients wait for their answers, no chunk of an object is missing or out
   of place, whichever requests and aborts have failed; and none is there twice, except
   the last one: a client that sends it again because the completion has failed adds a
   part to the upload, which the abort has not ended yet.  *)
ObjectsAreWhole ==
    timeouts = 0 => \A c \in Cids : Whole(c) \/ (LastRepeated(c) /\ LastSentAgain(c))

(* CompletedParts is what S3 has: nothing that a later chunk has overwritten, even
   when S3 stored a part and its answer was lost.  *)
ListedPartsAreStored ==
    \A c \in Cids : \A i \in DOMAIN states[c].parts :
        LET p == states[c].parts[i] IN stored[states[c].id][p.number] = p.chunk

(* A client that has sent its last chunk successfully finds the object.  *)
AnsweredUploadsHaveObject ==
    \A n \in Ids : pc[n] = "ok" /\ Last(n) => object[Cid(n)] # << >>

(* What the process remembers of an upload and what it has answered agree with
   what S3 has.  *)
UploadsInv == TypeOK /\ ListedPartsAreStored /\ AnsweredUploadsHaveObject

(* Each chunk is answered and each abort ends: neither waits for statesMutex
   forever, so that when clients send no more all goroutines have returned.  *)
Returned(n) == /\ pc[n] \in {"none", "ok", "failed"}
               /\ aborts[n] \in {"none", "done", "lost"}

HandlersReturn == <>[](\A n \in Ids : Returned(n))

(* "process the chunks and handle multipart upload" (file_upload_multipart.go:64):
   a last chunk that is sent again is one part more, and a chunk that its client has
   given up is processed all the same, between the chunks that the client sends when
   it starts again.  *)
ObjectsAreAlwaysWhole == \A c \in Cids : Whole(c)

(* "Abort if already started": an upload that was initiated for the content before
   an abort started is no longer open when the abort has ended.  *)
AbortEndsStartedUploads ==
    \A n \in Ids : aborts[n] = "done" =>
        \A i \in 1..(n - 1) : Cid(i) = Cid(n) => upload[i] # "open"

(* An abort aborts the upload that was failing when it was started, if any, and
   no upload that the client has initiated since.  *)
AbortsOnlyFailingUpload ==
    \A n \in Ids : aborts[n] = "clean" => target[n] = failing[n]
=============================================================================
