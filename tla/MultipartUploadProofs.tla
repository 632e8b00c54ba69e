------------------------ MODULE MultipartUploadProofs ------------------------
(* Multipart uploads, for any clients, contents, failures and bounds. *)
EXTENDS MultipartUpload, FiniteSetTheorems, SequenceTheorems, TLAPS

-----------------------------------------------------------------------------
(* Uploads and what S3 has of them, for any clients                        *)

(* the requests whose chunk S3 may have got *)
Sure == {n \in Ids : pc[n] \in {"complete", "ok", "failed"}}

Holding(n) == pc[n] \in {"part", "complete"}

(* The state of a content is that of an upload which a chunk of the content has
   initiated.  Its parts are numbered in order, S3 has each of them, and they are
   no more than the requests that are past their upload.  *)
StateOf(c) ==
    LET s == states[c] IN
    \/ s = NoState
    \/ /\ s.id \in Ids /\ Cid(s.id) = c /\ pc[s.id] \notin {"none", "waiting"}
       /\ s.number = Len(s.parts) + 1 /\ Len(s.parts) <= Cardinality(Sure)
       /\ \A i \in 1..Len(s.parts) :
             s.parts[i].number = i /\ stored[s.id][i] = s.parts[i].chunk

(* A handler between its S3 calls holds the mutex and has a state, which lists a
   part when the upload is about to be completed.  *)
HandlerOf(n) ==
    /\ Holding(n) => mutex = n /\ states[Cid(n)] # NoState
    /\ pc[n] = "complete" => Last(n) /\ states[Cid(n)].parts # << >>
    /\ n > sent => pc[n] = "none" /\ aborts[n] = "none"

IInv ==
    /\ TypeOK
    /\ \A c \in Cids : StateOf(c)
    /\ \A n \in Ids : HandlerOf(n)
    /\ AnsweredUploadsHaveObject

(* Sets of requests are finite, and a set that leaves one out is smaller. *)
LEMMA Counting ==
  /\ \A S \in SUBSET Ids : Cardinality(S) \in Nat
  /\ \A S, T \in SUBSET Ids : S \subseteq T => Cardinality(S) <= Cardinality(T)
  /\ \A S \in SUBSET Ids : \A n \in Ids \ S :
        /\ Cardinality(S) + 1 <= MaxRequests
        /\ Cardinality(S \cup {n}) = Cardinality(S) + 1
  <1>1. IsFiniteSet(Ids) /\ Cardinality(Ids) = MaxRequests
    BY FS_Interval, UploadAssumption DEF Ids
  <1>2. \A S \in SUBSET Ids : IsFiniteSet(S) /\ Cardinality(S) \in Nat
    BY <1>1, FS_Subset, FS_CardinalityType
  <1>3. \A S, T \in SUBSET Ids : S \subseteq T => Cardinality(S) <= Cardinality(T)
    BY <1>2, FS_Subset
  <1>4. ASSUME NEW S \in SUBSET Ids, NEW n \in Ids \ S
        PROVE  /\ Cardinality(S \cup {n}) = Cardinality(S) + 1
               /\ Cardinality(S) + 1 <= MaxRequests
    <2>1. Cardinality(S \cup {n}) = Cardinality(S) + 1
      BY <1>2, FS_AddElement
    <2>2. Cardinality(S \cup {n}) <= Cardinality(Ids)
      BY <1>3
    <2> QED BY <1>1, <2>1, <2>2
  <1> QED BY <1>2, <1>3, <1>4

(* The upload that a handler is about to continue, and the number of its next part. *)
LEMMA Continues ==
  ASSUME IInv, NEW n \in Ids, Holding(n)
  PROVE  LET s == states[Cid(n)] IN
         /\ Cid(n) \in Cids /\ s \in State /\ s # NoState /\ s.id \in Ids
         /\ s.parts \in Seq(Part) /\ Len(s.parts) \in Nat
         /\ s.number = Len(s.parts) + 1
         /\ pc[n] = "part" => s.number \in Ids
  <1> DEFINE s == states[Cid(n)]
  <1>1. /\ Cid(n) \in Cids /\ s \in State /\ s # NoState /\ StateOf(Cid(n))
    BY UploadAssumption DEF IInv, TypeOK, Cid, HandlerOf
  <1>2. /\ s.parts \in Seq(Part) /\ s.id \in Ids /\ s.number = Len(s.parts) + 1
        /\ Len(s.parts) <= Cardinality(Sure)
    BY <1>1 DEF StateOf, State
  <1>3. Len(s.parts) \in Nat
    BY <1>2, LenProperties
  <1>4. CASE pc[n] = "part"
    <2>1. Sure \in SUBSET Ids /\ n \notin Sure
      BY <1>4 DEF Sure
    <2>2. Cardinality(Sure) \in Nat /\ Cardinality(Sure) + 1 <= MaxRequests
      BY <2>1, Counting
    <2> QED BY <1>1, <1>2, <1>3, <2>2, UploadAssumption DEF Ids
  <1> QED BY <1>1, <1>2, <1>3, <1>4

(* What the process starts with. *)
LEMMA InitIInv == Init => IInv
  <1> SUFFICES ASSUME Init PROVE IInv
    OBVIOUS
  <1>1. (CHOOSE k \in Clients : TRUE) \in Clients
    BY UploadAssumption
  <1>2. << >> \in Seq(Part) /\ << >> \in Seq(Chunks)
    BY EmptySeq
  <1>3. NoState \in State
    BY <1>2 DEF NoState, State
  <1>4. req \in [Ids -> [client : Clients, chunk : Chunks]]
    <2> DEFINE k == CHOOSE k \in Clients : TRUE
    <2>1. req = [n \in Ids |-> [client |-> k, chunk |-> 1]]
      BY DEF Init
    <2>2. 1 \in Chunks
      BY UploadAssumption DEF Chunks
    <2> HIDE DEF k
    <2> QED BY <1>1, <2>1, <2>2 DEF k
  <1>5. TypeOK
    <2>1. /\ states \in [Cids -> State] /\ object \in [Cids -> Seq(Chunks)]
          /\ stored \in [Ids -> [Ids -> Chunks \cup {None}]]
      BY <1>2, <1>3 DEF Init
    <2>2. /\ sent \in 0..MaxRequests /\ timeouts \in 0..MaxTimeouts
          /\ crashes \in 0..MaxCrashes /\ next \in [Clients -> Nat \ {0}]
      BY UploadAssumption DEF Init
    <2> QED BY <1>4, <2>1, <2>2, Zenon DEF Init, TypeOK, None
  <1>6. \A c \in Cids : StateOf(c)
    BY DEF Init, StateOf
  <1>7. \A n \in Ids : HandlerOf(n)
    BY DEF Init, HandlerOf, Holding
  <1> QED BY <1>5, <1>6, <1>7 DEF IInv, Init, AnsweredUploadsHaveObject

-----------------------------------------------------------------------------
(* S3 gets a part under the number of the next one. *)
LEMMA Stores ==
  ASSUME IInv, NEW n \in Ids, pc[n] = "part", Store(n)
  PROVE  LET s == states[Cid(n)] IN
         /\ stored' \in [Ids -> [Ids -> Chunks \cup {None}]]
         /\ stored'[s.id][s.number] = req[n].chunk
         /\ \A i \in Ids, j \in Ids :
               <<i, j>> # <<s.id, s.number>> => stored'[i][j] = stored[i][j]
  <1> DEFINE s == states[Cid(n)]
  <1>1. s.id \in Ids /\ s.number \in Ids /\ req[n].chunk \in Chunks
    BY Continues DEF IInv, TypeOK, Holding
  <1>2. stored' = [stored EXCEPT ![s.id] = [stored[s.id] EXCEPT ![s.number] = req[n].chunk]]
    BY <1>1 DEF Store, IInv, TypeOK
  <1> HIDE DEF s
  <1>3. stored \in [Ids -> [Ids -> Chunks \cup {None}]]
    BY DEF IInv, TypeOK
  <1>4. /\ stored' \in [Ids -> [Ids -> Chunks \cup {None}]]
        /\ stored'[s.id][s.number] = req[n].chunk
        /\ \A i \in Ids, j \in Ids :
               <<i, j>> # <<s.id, s.number>> => stored'[i][j] = stored[i][j]
    BY <1>1, <1>2, <1>3
  <1> QED BY <1>4 DEF s

(* The state lists the part. *)
LEMMA Lists ==
  ASSUME IInv, NEW n \in Ids, pc[n] = "part"
  PROVE  LET s == states[Cid(n)]
             t == WithPart(n)
         IN  /\ t \in State /\ t.id = s.id
             /\ Len(t.parts) = Len(s.parts) + 1 /\ t.number = s.number + 1
             /\ \A i \in 1..Len(s.parts) : t.parts[i] = s.parts[i]
             /\ t.parts[Len(s.parts) + 1] = [number |-> s.number, chunk |-> req[n].chunk]
  <1> DEFINE s == states[Cid(n)]
             p == [number |-> s.number, chunk |-> req[n].chunk]
  <1>1. /\ s \in State /\ s.parts \in Seq(Part) /\ s.number \in Ids
        /\ req[n].chunk \in Chunks
    BY Continues DEF IInv, TypeOK, Holding
  <1>2. p \in Part
    BY <1>1 DEF Part
  <1>3. WithPart(n) = [s EXCEPT !.parts = Append(s.parts, p), !.number = s.number + 1]
    BY DEF WithPart
  <1> HIDE DEF p, s
  <1>4. /\ Append(s.parts, p) \in Seq(Part) /\ Len(Append(s.parts, p)) = Len(s.parts) + 1
        /\ \A i \in 1..Len(s.parts) : Append(s.parts, p)[i] = s.parts[i]
        /\ Append(s.parts, p)[Len(s.parts) + 1] = p
    BY <1>1, <1>2, AppendProperties
  <1>5. s.number + 1 \in Nat \ {0}
    BY <1>1, UploadAssumption DEF Ids
  <1>6. /\ WithPart(n) \in State /\ WithPart(n).id = s.id
        /\ WithPart(n).parts = Append(s.parts, p) /\ WithPart(n).number = s.number + 1
    <2> DEFINE a == Append(s.parts, p)
               m == s.number + 1
    <2>1. a \in Seq(Part) /\ m \in Nat \ {0} /\ WithPart(n) = [s EXCEPT !.parts = a, !.number = m]
      BY <1>3, <1>4, <1>5
    <2> HIDE DEF a, m
    <2>2. /\ WithPart(n) \in State /\ WithPart(n).id = s.id
          /\ WithPart(n).parts = a /\ WithPart(n).number = m
      BY <1>1, <2>1 DEF State
    <2> QED BY <2>2 DEF a, m
  <1> QED BY <1>4, <1>6 DEF s, p

(* What S3 puts together are the listed chunks. *)
LEMMA Assembles ==
  ASSUME IInv, NEW n \in Ids, pc[n] = "complete", Assemble(n)
  PROVE  LET s == states[Cid(n)]
             o == [i \in 1..Len(s.parts) |-> s.parts[i].chunk]
         IN  /\ upload' = [upload EXCEPT ![s.id] = "completed"]
             /\ object' = [object EXCEPT ![Cid(n)] = o]
             /\ o \in Seq(Chunks) /\ o # << >>
  <1> DEFINE s == states[Cid(n)]
             o == [i \in 1..Len(s.parts) |-> s.parts[i].chunk]
  <1>1. /\ Cid(n) \in Cids /\ s # NoState /\ s.parts \in Seq(Part) /\ Len(s.parts) \in Nat
        /\ StateOf(Cid(n)) /\ s.parts # << >>
    BY Continues DEF IInv, Holding, HandlerOf
  <1>2. /\ DOMAIN s.parts = 1..Len(s.parts)
        /\ \A i \in 1..Len(s.parts) : s.parts[i] \in Part
    BY <1>1, LenProperties
  <1>3. \A i \in 1..Len(s.parts) : stored[s.id][s.parts[i].number] = s.parts[i].chunk
    BY <1>1 DEF StateOf
  <1>4. [i \in DOMAIN s.parts |-> stored[s.id][s.parts[i].number]] = o
    BY <1>2, <1>3
  <1>5. object' = [object EXCEPT ![Cid(n)] = o] /\ upload' = [upload EXCEPT ![s.id] = "completed"]
    BY <1>4 DEF Assemble
  <1>6. Len(s.parts) \in Nat \ {0}
    BY <1>1, EmptySeq
  <1>7. o \in Seq(Chunks) /\ o # << >>
    <2>1. \A i \in 1..Len(s.parts) : s.parts[i].chunk \in Chunks
      BY <1>2 DEF Part
    <2>2. o \in Seq(Chunks)
      BY <1>6, <2>1, IsASeq
    <2>3. DOMAIN o = 1..Len(s.parts)
      OBVIOUS
    <2>4. 1 \in DOMAIN o
      BY <1>6, <2>3
    <2> HIDE DEF o
    <2> QED BY <2>2, <2>4
  <1> QED BY <1>5, <1>7

(* Every variable keeps its type. *)
LEMMA NextTypeOK == IInv /\ [Next]_vars => TypeOK'
  <1> SUFFICES ASSUME IInv, [Next]_vars PROVE TypeOK'
    OBVIOUS
  <1> USE DEF s3, peers, bounds
  <1>0. /\ TypeOK /\ NoState \in State
        /\ \A n \in Ids : Cid(n) \in Cids /\ states[Cid(n)].id \in Ids \cup {None}
    <2>1. NoState \in State
      BY EmptySeq DEF NoState, State
    <2> QED BY <2>1, UploadAssumption DEF IInv, TypeOK, Cid, State
  <1>1. ASSUME NEW k \in Clients, SendChunk(k) PROVE TypeOK'
    <2>1. sent + 1 \in Ids /\ sent' = sent + 1 /\ next[k] \in Chunks
      BY <1>0, <1>1, UploadAssumption DEF SendChunk, TypeOK, Ids
    <2>2. /\ sent' \in Ids /\ sent' \in 0..MaxRequests
          /\ [client |-> k, chunk |-> next[k]] \in [client : Clients, chunk : Chunks]
      BY <2>1, UploadAssumption DEF Ids
    <2>3. /\ req' = [req EXCEPT ![sent'] = [client |-> k, chunk |-> next[k]]]
          /\ pc' = [pc EXCEPT ![sent'] = "waiting"]
          /\ waits' = [waits EXCEPT ![k] = sent']
          /\ UNCHANGED <<states, mutex, aborts, target, s3, next, failing, timeouts,
                         crashes>>
      BY <1>1 DEF SendChunk
    <2> QED BY <1>0, <2>2, <2>3 DEF TypeOK
  <1>2. ASSUME NEW k \in Clients, SeeAnswer(k) PROVE TypeOK'
    <2>0. next \in [Clients -> Nat \ {0}]
      BY <1>0 DEF TypeOK
    <2>2. next[k] + 1 \in Nat \ {0} /\ RetryAt(k) \subseteq Nat \ {0}
      BY <2>0 DEF RetryAt
    <2>3. PICK i \in Nat \ {0} : next' = [next EXCEPT ![k] = i]
      BY <1>2, <2>2 DEF SeeAnswer
    <2>1. next' \in [Clients -> Nat \ {0}]
      BY <2>0, <2>3
    <2> QED BY <1>0, <1>2, <2>1 DEF SeeAnswer, TypeOK
  <1>3. ASSUME NEW k \in Clients, TimeOut(k) PROVE TypeOK'
    <2>0. next \in [Clients -> Nat \ {0}]
      BY <1>0 DEF TypeOK
    <2>3. RetryAt(k) \subseteq Nat \ {0}
      BY <2>0 DEF RetryAt
    <2>4. PICK i \in Nat \ {0} : next' = [next EXCEPT ![k] = i]
      BY <1>3, <2>3 DEF TimeOut
    <2>1. next' \in [Clients -> Nat \ {0}]
      BY <2>0, <2>4
    <2>2. timeouts' \in 0..MaxTimeouts
      BY <1>0, <1>3, UploadAssumption DEF TimeOut, TypeOK
    <2> QED BY <1>0, <1>3, <2>1, <2>2 DEF TimeOut, TypeOK
  <1>4. ASSUME NEW n \in Ids, FirstChunk(n) PROVE TypeOK'
    <2>1. NewState(n) \in State
      BY <1>0 DEF NewState, NoState, State
    <2> QED BY <1>0, <1>4, <2>1 DEF FirstChunk, TypeOK
  <1>5. ASSUME NEW n \in Ids, InitiateFails(n) \/ NextChunk(n) PROVE TypeOK'
    BY <1>0, <1>5 DEF InitiateFails, NextChunk, Answer, TypeOK
  <1>6. ASSUME NEW n \in Ids, NotFound(n) PROVE TypeOK'
    BY <1>0, <1>6 DEF NotFound, StartAbort, Answer, TypeOK
  <1>7. ASSUME NEW n \in Ids, UploadPart(n) PROVE TypeOK'
    <2>1. WithPart(n) \in State /\ stored' \in [Ids -> [Ids -> Chunks \cup {None}]]
      BY <1>7, Lists, Stores DEF UploadPart
    <2> QED BY <1>0, <1>7, <2>1 DEF UploadPart, Answer, TypeOK
  <1>8. ASSUME NEW n \in Ids, PartFails(n) PROVE TypeOK'
    <2>1. stored' \in [Ids -> [Ids -> Chunks \cup {None}]]
      BY <1>0, <1>8, Stores DEF PartFails, TypeOK
    <2> QED BY <1>0, <1>8, <2>1 DEF PartFails, Answer, TypeOK
  <1>9. ASSUME NEW n \in Ids, pc[n] = "complete",
               UNCHANGED <<upload, object>> \/ Assemble(n)
        PROVE  /\ upload' \in [Ids -> {"none", "open", "completed", "aborted"}]
               /\ object' \in [Cids -> Seq(Chunks)]
    <2>1. states[Cid(n)].id \in Ids
      BY <1>9, Continues DEF Holding
    <2>2. CASE UNCHANGED <<upload, object>>
      BY <1>0, <2>2 DEF TypeOK
    <2>3. CASE Assemble(n)
      <3> DEFINE o == [i \in 1..Len(states[Cid(n)].parts) |-> states[Cid(n)].parts[i].chunk]
      <3>1. /\ upload' = [upload EXCEPT ![states[Cid(n)].id] = "completed"]
            /\ object' = [object EXCEPT ![Cid(n)] = o] /\ o \in Seq(Chunks)
        BY <1>9, <2>3, Assembles
      <3> HIDE DEF o
      <3> QED BY <1>0, <2>1, <3>1 DEF TypeOK
    <2> QED BY <1>9, <2>2, <2>3
  <1>10. ASSUME NEW n \in Ids, CompleteUpload(n) PROVE TypeOK'
    BY <1>0, <1>9, <1>10 DEF CompleteUpload, Answer, TypeOK
  <1>11. ASSUME NEW n \in Ids, CompleteFails(n) PROVE TypeOK'
    <2>1. /\ pc[n] = "complete" /\ (UNCHANGED <<upload, object>> \/ Assemble(n))
          /\ aborts' = [aborts EXCEPT ![n] = "read"]
          /\ failing' = [failing EXCEPT ![n] = states[Cid(n)].id]
          /\ pc' = [pc EXCEPT ![n] = "failed"] /\ mutex' = None
          /\ UNCHANGED <<states, req, target, stored, peers, bounds>>
      BY <1>11 DEF CompleteFails, StartAbort, Answer
    <2>2. /\ upload' \in [Ids -> {"none", "open", "completed", "aborted"}]
          /\ object' \in [Cids -> Seq(Chunks)]
      BY <1>9, <2>1
    <2>3. /\ aborts' \in [Ids -> {"none", "read", "abort", "clean", "done", "lost"}]
          /\ failing' \in [Ids -> Ids \cup {None}] /\ mutex' \in Ids \cup {None}
          /\ pc' \in [Ids -> {"none", "waiting", "part", "complete", "ok", "failed"}]
      BY <1>0, <2>1 DEF TypeOK
    <2> QED BY <1>0, <2>1, <2>2, <2>3 DEF TypeOK
  <1>12. ASSUME NEW n \in Ids, AbortReads(n) PROVE TypeOK'
    BY <1>0, <1>12 DEF AbortReads, AbortGoes, TypeOK
  <1>13. ASSUME NEW n \in Ids, AbortUpload(n) \/ AbortFails(n) PROVE TypeOK'
    <2>1. /\ upload' \in {upload, [upload EXCEPT ![target[n]] = "aborted"]}
          /\ aborts' \in {[aborts EXCEPT ![n] = "clean"], [aborts EXCEPT ![n] = "done"]}
          /\ UNCHANGED <<states, mutex, pc, req, target, stored, object, peers,
                         failing, bounds>>
      BY <1>13 DEF AbortUpload, AbortFails, AbortGoes
    <2> QED BY <1>0, <2>1 DEF TypeOK
  <1>14. ASSUME NEW n \in Ids, AbortCleans(n) PROVE TypeOK'
    BY <1>0, <1>14 DEF AbortCleans, AbortGoes, TypeOK
  <1>15. CASE Crash
    <2>1. crashes' \in 0..MaxCrashes
      BY <1>0, <1>15, UploadAssumption DEF Crash, TypeOK
    <2> QED BY <1>0, <1>15, <2>1 DEF Crash, TypeOK
  <1>16. CASE UNCHANGED vars
    BY <1>0, <1>16 DEF vars, TypeOK
  <1> QED BY <1>1, <1>2, <1>3, <1>4, <1>5, <1>6, <1>7, <1>8, <1>10, <1>11, <1>12,
             <1>13, <1>14, <1>15, <1>16
          DEF Next, Takes, CallsS3

(* A handler goes on from its chunk to its answer, and its chunk stays the same. *)
Forward ==
    \A n \in Ids :
        /\ pc[n] # "none" => pc'[n] # "none" /\ req'[n] = req[n]
        /\ pc[n] = "failed" => pc'[n] = "failed"
        /\ pc[n] \notin {"none", "waiting"} => pc'[n] # "waiting"
        /\ n \in Sure => n \in Sure'

(* A state that a step leaves alone, with its parts in S3. *)
LEMMA StateKept ==
  ASSUME IInv, TypeOK', Forward, NEW c \in Cids, states'[c] = states[c],
         states[c] # NoState =>
             \A i \in 1..Len(states[c].parts) :
                 stored'[states[c].id][i] = stored[states[c].id][i]
  PROVE  StateOf(c)'
  <1>1. StateOf(c) /\ states[c] \in State
    BY DEF IInv, TypeOK
  <1>2. CASE states[c] = NoState
    BY <1>2 DEF StateOf
  <1>3. CASE states[c] # NoState
    <2> DEFINE s == states[c]
    <2>1. /\ s.id \in Ids /\ Cid(s.id) = c /\ pc[s.id] \notin {"none", "waiting"}
          /\ s.number = Len(s.parts) + 1 /\ Len(s.parts) <= Cardinality(Sure)
          /\ \A i \in 1..Len(s.parts) :
                s.parts[i].number = i /\ stored[s.id][i] = s.parts[i].chunk
      BY <1>1, <1>3 DEF StateOf
    <2>2. Cid(s.id)' = c /\ pc'[s.id] \notin {"none", "waiting"}
      BY <2>1 DEF Forward, Cid
    <2>3. Len(s.parts) \in Nat
      BY <1>1, LenProperties DEF State
    <2>4. Len(s.parts) <= Cardinality(Sure')
      <3>1. Sure \in SUBSET Ids /\ Sure' \in SUBSET Ids /\ Sure \subseteq Sure'
        BY DEF Sure, Forward
      <3> QED BY <2>1, <2>3, <3>1, Counting
    <2> QED BY <1>3, <2>1, <2>2, <2>4 DEF StateOf
  <1> QED BY <1>2, <1>3

(* Requests go forward. *)
LEMMA NextForward == IInv /\ [Next]_vars => Forward
  <1> SUFFICES ASSUME IInv, [Next]_vars PROVE Forward
    OBVIOUS
  <1>0. /\ pc \in [Ids -> {"none", "waiting", "part", "complete", "ok", "failed"}]
        /\ \A n \in Ids : n > sent => pc[n] = "none"
        /\ req \in [Ids -> [client : Clients, chunk : Chunks]] /\ sent \in Nat
    BY UploadAssumption DEF IInv, TypeOK, HandlerOf
  <1>1. ASSUME NEW k \in Clients, SendChunk(k) PROVE Forward
    <2>1. sent + 1 > sent /\ sent' = sent + 1
      BY <1>0, <1>1 DEF SendChunk
    <2>2. \A n \in Ids : pc[n] # "none" => pc'[n] = pc[n] /\ req'[n] = req[n]
      BY <1>0, <1>1, <2>1 DEF SendChunk
    <2> QED BY <2>2 DEF Forward, Sure
  <1>2. ASSUME NEW m \in Ids, req' = req,
               \/ pc[m] \in {"waiting", "part"}
                    /\ \E p \in {"part", "complete", "ok", "failed"} : pc' = [pc EXCEPT ![m] = p]
               \/ pc[m] = "complete"
                    /\ \E p \in {"ok", "failed"} : pc' = [pc EXCEPT ![m] = p]
               \/ pc' = pc
        PROVE  Forward
    BY <1>0, <1>2 DEF Forward, Sure
  <1>3. ASSUME NEW m \in Ids, Takes(m) PROVE Forward
    BY <1>2, <1>3 DEF Takes, FirstChunk, InitiateFails, NextChunk, NotFound, StartAbort, Answer, Locks
  <1>4. ASSUME NEW m \in Ids, CallsS3(m) PROVE Forward
    <2>1. CASE UploadPart(m) \/ PartFails(m)
      BY <1>2, <2>1 DEF UploadPart, PartFails, Answer
    <2>2. CASE CompleteUpload(m) \/ CompleteFails(m)
      BY <1>2, <2>2 DEF CompleteUpload, CompleteFails, StartAbort, Answer
    <2>3. CASE AbortUpload(m) \/ AbortFails(m)
      BY <1>2, <2>3 DEF AbortUpload, AbortFails
    <2> QED BY <1>4, <2>1, <2>2, <2>3 DEF CallsS3
  <1>5. ASSUME NEW m \in Ids, AbortReads(m) \/ AbortCleans(m) PROVE Forward
    BY <1>2, <1>5 DEF AbortReads, AbortCleans
  <1>6. CASE Crash
    BY <1>0, <1>6 DEF Crash, Forward, Sure
  <1>7. ASSUME pc' = pc, req' = req PROVE Forward
    BY <1>7 DEF Forward, Sure
  <1>8. CASE UNCHANGED vars
    BY <1>7, <1>8 DEF vars
  <1>9. ASSUME NEW k \in Clients, SeeAnswer(k) \/ TimeOut(k) PROVE Forward
    BY <1>7, <1>9 DEF SeeAnswer, TimeOut
  <1> QED BY <1>1, <1>3, <1>4, <1>5, <1>6, <1>8, <1>9 DEF Next

(* The states stay those of uploads in progress, whatever a step does to one. *)
LEMMA NextStates ==
  ASSUME IInv, [Next]_vars, TypeOK', NEW c \in Cids
  PROVE  StateOf(c)'
  <1>0. Forward
    BY NextForward
  <1>1. ASSUME states'[c] = states[c], stored' = stored PROVE StateOf(c)'
    BY <1>0, <1>1, StateKept
  <1>2. ASSUME states'[c] = NoState PROVE StateOf(c)'
    BY <1>2 DEF StateOf
  <1>3. ASSUME NEW n \in Ids, FirstChunk(n) PROVE StateOf(c)'
    <2>1. CASE c = Cid(n)
      <3>1. /\ states'[c] = NewState(n) /\ pc'[n] = "part" /\ req' = req
        BY <1>3, <2>1 DEF FirstChunk, IInv, TypeOK
      <3>2. Cid(n)' = c
        BY <2>1, <3>1 DEF Cid
      <3>3. Sure' \in SUBSET Ids
        BY DEF Sure
      <3>4. Cardinality(Sure') \in Nat
        BY <3>3, Counting
      <3>5. /\ NewState(n).id = n /\ NewState(n).number = 1 /\ NewState(n).parts = << >>
        BY DEF NewState, NoState
      <3> QED BY <3>1, <3>2, <3>4, <3>5 DEF StateOf
    <2>2. CASE c # Cid(n)
      BY <1>1, <1>3, <2>2 DEF FirstChunk, IInv, TypeOK
    <2> QED BY <2>1, <2>2
  <1>4. ASSUME NEW n \in Ids, UploadPart(n) \/ PartFails(n), c # Cid(n) PROVE StateOf(c)'
    <2>1. CASE stored' = stored
      BY <1>1, <1>4, <2>1 DEF UploadPart, PartFails, IInv, TypeOK
    <2>2. CASE Store(n) /\ states[c] # NoState
      <3> DEFINE s == states[Cid(n)]
      <3>1. pc[n] = "part" /\ states'[c] = states[c]
        BY <1>4 DEF UploadPart, PartFails, IInv, TypeOK
      <3>2. /\ StateOf(c) /\ s # NoState /\ StateOf(Cid(n)) /\ Cid(n) \in Cids
        BY <3>1, Continues DEF IInv, Holding
      <3>3. states[c].id # s.id /\ states[c].id \in Ids
        BY <1>4, <2>2, <3>2 DEF StateOf
      <3>4. \A i \in Ids : stored'[states[c].id][i] = stored[states[c].id][i]
        BY <2>2, <3>1, <3>3, Stores
      <3>5. \A i \in 1..Len(states[c].parts) : i \in Ids
        <4>1. Sure \in SUBSET Ids
          BY DEF Sure
        <4>2. Cardinality(Sure) <= Cardinality(Ids) /\ Cardinality(Ids) = MaxRequests
              /\ Cardinality(Sure) \in Nat
          <5>1. Cardinality(Ids) = MaxRequests
            BY FS_Interval, UploadAssumption DEF Ids
          <5> QED BY <4>1, <5>1, Counting
        <4>3. Len(states[c].parts) <= Cardinality(Sure) /\ Len(states[c].parts) \in Nat
          BY <2>2, <3>2, LenProperties DEF StateOf, IInv, TypeOK, State
        <4> QED BY <4>2, <4>3, UploadAssumption DEF Ids
      <3> QED BY <1>0, <3>1, <3>4, <3>5, StateKept
    <2>3. CASE states[c] = NoState
      BY <1>2, <1>4, <2>3 DEF UploadPart, PartFails, IInv, TypeOK
    <2> QED BY <1>4, <2>1, <2>2, <2>3 DEF UploadPart, PartFails
  <1>5. ASSUME NEW n \in Ids, UploadPart(n) \/ PartFails(n), c = Cid(n) PROVE StateOf(c)'
    <2> DEFINE s == states[c]
               j == Len(s.parts)
    <2>1. /\ pc[n] = "part" /\ s # NoState /\ s.id \in Ids /\ s.number \in Ids
          /\ s.number = j + 1 /\ j \in Nat /\ StateOf(c) /\ req' = req
      BY <1>5, Continues DEF UploadPart, PartFails, IInv, Holding
    <2>2. \A i \in 1..j : stored'[s.id][i] = stored[s.id][i]
      <3>1. \A i \in 1..j : i \in Ids /\ i # s.number
        BY <2>1, UploadAssumption DEF Ids
      <3>2. Store(n) => \A i \in 1..j : stored'[s.id][i] = stored[s.id][i]
        BY <1>5, <2>1, <3>1, Stores
      <3>3. Store(n) \/ stored' = stored
        BY <1>5 DEF UploadPart, PartFails
      <3> QED BY <3>2, <3>3
    <2>3. CASE PartFails(n)
      BY <1>0, <2>2, <2>3, StateKept DEF PartFails
    <2>4. CASE UploadPart(n)
      <3> DEFINE t == WithPart(n)
      <3>1. /\ states'[c] = t /\ Store(n)
        BY <1>5, <2>4 DEF UploadPart, IInv, TypeOK
      <3>2. /\ t.id = s.id /\ Len(t.parts) = j + 1 /\ t.number = j + 2
            /\ \A i \in 1..j : t.parts[i] = s.parts[i]
            /\ t.parts[j + 1] = [number |-> j + 1, chunk |-> req[n].chunk]
        BY <1>5, <2>1, Lists
      <3>3. stored'[s.id][j + 1] = req[n].chunk
        BY <1>5, <2>1, <3>1, Stores
      <3>4. /\ CidOf[req'[s.id].client] = c /\ pc'[s.id] \notin {"none", "waiting"}
        BY <1>0, <2>1 DEF StateOf, Forward, Cid
      <3>5. j + 1 <= Cardinality(Sure')
        <4>1. n \notin Sure /\ Sure \in SUBSET Ids /\ Sure' \in SUBSET Ids
          BY <2>1 DEF Sure
        <4>2. n \in Sure'
          BY <2>1, <2>4 DEF UploadPart, Answer, Sure, IInv, TypeOK
        <4>3. Sure \cup {n} \subseteq Sure'
          BY <1>0, <4>1, <4>2 DEF Forward
        <4>4. /\ Cardinality(Sure) + 1 <= Cardinality(Sure')
              /\ Cardinality(Sure) \in Nat /\ Cardinality(Sure') \in Nat
          <5>1. Cardinality(Sure \cup {n}) = Cardinality(Sure) + 1
            BY <4>1, Counting
          <5>2. Cardinality(Sure \cup {n}) <= Cardinality(Sure')
            BY <4>1, <4>3, Counting
          <5> QED BY <4>1, <5>1, <5>2, Counting
        <4>5. j <= Cardinality(Sure)
          BY <2>1 DEF StateOf
        <4> QED BY <2>1, <4>4, <4>5
      <3>6. \A i \in 1..(j + 1) :
               t.parts[i].number = i /\ stored'[s.id][i] = t.parts[i].chunk
        <4>1. \A i \in 1..j : s.parts[i].number = i /\ stored[s.id][i] = s.parts[i].chunk
          BY <2>1 DEF StateOf
        <4>2. \A i \in 1..j :
                 t.parts[i].number = i /\ stored'[s.id][i] = t.parts[i].chunk
          BY <2>2, <3>2, <4>1
        <4>3. t.parts[j + 1].number = j + 1 /\ stored'[s.id][j + 1] = t.parts[j + 1].chunk
          BY <3>2, <3>3
        <4>4. \A i \in 1..(j + 1) : i \in 1..j \/ i = j + 1
          BY <2>1
        <4> HIDE DEF t
        <4> QED BY <4>2, <4>3, <4>4
      <3> HIDE DEF t
      <3> QED BY <2>1, <3>1, <3>2, <3>4, <3>5, <3>6 DEF StateOf, Cid
    <2> QED BY <1>5, <2>3, <2>4
  <1>6. ASSUME NEW n \in Ids, CompleteUpload(n) \/ AbortCleans(n) PROVE StateOf(c)'
    <2>1. stored' = stored /\ states'[c] \in {states[c], NoState}
      BY <1>6 DEF CompleteUpload, AbortCleans, s3, IInv, TypeOK
    <2> QED BY <1>1, <1>2, <2>1
  <1>7. CASE Crash
    BY <1>2, <1>7 DEF Crash
  <1>8. ASSUME NEW n \in Ids, InitiateFails(n) \/ NextChunk(n) \/ NotFound(n)
        PROVE  StateOf(c)'
    BY <1>1, <1>8 DEF InitiateFails, NextChunk, NotFound, s3
  <1>9. ASSUME NEW n \in Ids, CompleteFails(n) \/ AbortReads(n) \/ AbortUpload(n) \/ AbortFails(n)
        PROVE  StateOf(c)'
    BY <1>1, <1>9 DEF CompleteFails, AbortReads, AbortUpload, AbortFails, s3
  <1>10. ASSUME NEW k \in Clients, SendChunk(k) \/ SeeAnswer(k) \/ TimeOut(k)
         PROVE  StateOf(c)'
    BY <1>1, <1>10 DEF SendChunk, SeeAnswer, TimeOut, s3
  <1>11. CASE UNCHANGED vars
    BY <1>1, <1>11 DEF vars
  <1> QED BY <1>3, <1>4, <1>5, <1>6, <1>7, <1>8, <1>9, <1>10, <1>11
          DEF Next, Takes, CallsS3

(* The handlers that hold the mutex keep it, and the states that they need. *)
LEMMA NextHandlers ==
  ASSUME IInv, [Next]_vars, NEW n \in Ids
  PROVE  HandlerOf(n)'
  <1>0. /\ TypeOK /\ \A m \in Ids : HandlerOf(m)
        /\ \A m \in Ids : pc[m] # "none" \/ aborts[m] # "none" => ~(m > sent)
    BY DEF IInv, HandlerOf
  <1>1. ASSUME states' = states, req' = req, UNCHANGED <<pc, mutex, sent>>,
               aborts[n] = "none" => aborts'[n] = "none" \/ ~(n > sent)
        PROVE  HandlerOf(n)'
    BY <1>0, <1>1 DEF HandlerOf, Holding, Last, Cid
  <1>2. ASSUME NEW m \in Ids, pc[m] \notin {"none"}, ~(m > sent),
               NEW p \in {"ok", "failed"}, pc' = [pc EXCEPT ![m] = p],
               UNCHANGED <<req, sent>>, mutex \in {m, None},
               \A i \in Ids \ {m} : aborts'[i] = aborts[i],
               mutex = None \/ mutex' = None
        PROVE  HandlerOf(n)'
    <2>1. \A i \in Ids : Holding(i) => i = m
      BY <1>0, <1>2 DEF HandlerOf, None, Ids
    <2>2. ~Holding(n)' /\ pc'[n] # "complete"
      BY <1>0, <1>2, <2>1 DEF Holding, TypeOK
    <2> QED BY <1>0, <1>2, <2>2 DEF HandlerOf, TypeOK
  <1>3. ASSUME NEW m \in Ids, FirstChunk(m) \/ NextChunk(m) PROVE HandlerOf(n)'
    <2>1. /\ pc[m] = "waiting" /\ mutex = None /\ mutex' = m
          /\ pc' = [pc EXCEPT ![m] = "part"] /\ req' = req
          /\ sent' = sent /\ aborts' = aborts
      BY <1>3 DEF FirstChunk, NextChunk, Locks, bounds
    <2>2. states'[Cid(m)] # NoState
      BY <1>0, <1>3, UploadAssumption
         DEF FirstChunk, NextChunk, NewState, NoState, None, Ids, TypeOK, Cid
    <2>3. ~(m > sent)
      BY <1>0, <2>1
    <2>4. \A i \in Ids : ~Holding(i)
      BY <1>0, <2>1 DEF HandlerOf, None, Ids
    <2>5. CASE n = m
      BY <1>0, <2>1, <2>2, <2>3, <2>5 DEF HandlerOf, Holding, TypeOK, Cid
    <2>6. CASE n # m
      BY <1>0, <2>1, <2>4, <2>6 DEF HandlerOf, Holding, TypeOK
    <2> QED BY <2>5, <2>6
  <1>4. ASSUME NEW m \in Ids, InitiateFails(m) \/ NotFound(m) PROVE HandlerOf(n)'
    <2>1. /\ pc[m] = "waiting" /\ mutex = None /\ pc' = [pc EXCEPT ![m] = "failed"]
          /\ UNCHANGED <<req, sent>> /\ \A i \in Ids \ {m} : aborts'[i] = aborts[i]
      BY <1>0, <1>4 DEF InitiateFails, NotFound, Locks, Answer, StartAbort, bounds, TypeOK
    <2> QED BY <1>0, <1>2, <2>1
  <1>5. ASSUME NEW m \in Ids, UploadPart(m) PROVE HandlerOf(n)'
    <2>1. /\ pc[m] = "part" /\ mutex = m /\ UNCHANGED <<req, sent, aborts>>
          /\ ~(m > sent)
      BY <1>0, <1>5 DEF UploadPart, HandlerOf, Holding, bounds
    <2>2. CASE ~Last(m)
      BY <1>0, <1>2, <1>5, <2>1, <2>2 DEF UploadPart, Answer
    <2>3. CASE Last(m)
      <3>1. pc' = [pc EXCEPT ![m] = "complete"] /\ mutex' = mutex
        BY <1>5, <2>3 DEF UploadPart
      <3>2. \A i \in Ids : Holding(i) => i = m
        BY <1>0, <2>1 DEF HandlerOf
      <3>3. states'[Cid(m)] # NoState /\ states'[Cid(m)].parts # << >>
        <4>1. /\ Cid(m) \in Cids /\ states' = [states EXCEPT ![Cid(m)] = WithPart(m)]
              /\ states[Cid(m)].id \in Ids /\ Len(states[Cid(m)].parts) \in Nat
          BY <1>5, <2>1, Continues DEF UploadPart, Holding
        <4>2. WithPart(m).id \in Ids /\ Len(WithPart(m).parts) # 0
          <5>1. /\ WithPart(m).id = states[Cid(m)].id
                /\ Len(WithPart(m).parts) = Len(states[Cid(m)].parts) + 1
            BY <2>1, Lists
          <5> QED BY <4>1, <5>1
        <4>3. states'[Cid(m)] = WithPart(m)
          BY <1>0, <4>1 DEF TypeOK
        <4>4. WithPart(m) # NoState
          BY <4>2 DEF NoState, None, Ids
        <4>5. WithPart(m).parts # << >>
          BY <4>2, EmptySeq
        <4> QED BY <4>3, <4>4, <4>5
      <3>4. CASE n = m
        BY <1>0, <2>1, <2>3, <3>1, <3>3, <3>4 DEF HandlerOf, Holding, TypeOK, Cid, Last
      <3>5. CASE n # m
        BY <1>0, <2>1, <3>1, <3>2, <3>5 DEF HandlerOf, Holding, TypeOK
      <3> QED BY <3>4, <3>5
    <2> QED BY <2>2, <2>3
  <1>6. ASSUME NEW m \in Ids, PartFails(m) \/ CompleteUpload(m) \/ CompleteFails(m)
        PROVE  HandlerOf(n)'
    <2>1. /\ Holding(m) /\ mutex' = None
          /\ \E p \in {"ok", "failed"} : pc' = [pc EXCEPT ![m] = p]
          /\ UNCHANGED <<req, sent>> /\ \A i \in Ids \ {m} : aborts'[i] = aborts[i]
      <3>1. CASE PartFails(m)
        BY <3>1 DEF PartFails, Answer, Holding, bounds
      <3>2. CASE CompleteUpload(m)
        BY <3>2 DEF CompleteUpload, Answer, Holding, bounds
      <3>3. CASE CompleteFails(m)
        BY <1>0, <3>3 DEF CompleteFails, Answer, StartAbort, Holding, bounds, TypeOK
      <3> QED BY <1>6, <3>1, <3>2, <3>3
    <2>2. mutex = m /\ ~(m > sent) /\ pc[m] # "none"
      BY <1>0, <2>1 DEF HandlerOf, Holding
    <2> QED BY <1>2, <2>1, <2>2
  <1>7. ASSUME NEW m \in Ids, AbortCleans(m) PROVE HandlerOf(n)'
    <2>1. ~Holding(n) /\ ~(m > sent)
      BY <1>0, <1>7 DEF AbortCleans, HandlerOf, None, Ids
    <2> QED BY <1>0, <1>7, <2>1
            DEF AbortCleans, AbortGoes, HandlerOf, Holding, bounds, TypeOK
  <1>8. ASSUME NEW m \in Ids, AbortReads(m) \/ AbortUpload(m) \/ AbortFails(m)
        PROVE  HandlerOf(n)'
    <2>1. /\ aborts[m] # "none" /\ states' = states /\ req' = req
          /\ UNCHANGED <<pc, mutex, sent>> /\ \A i \in Ids \ {m} : aborts'[i] = aborts[i]
      BY <1>0, <1>8 DEF AbortReads, AbortUpload, AbortFails, AbortGoes, bounds, TypeOK
    <2> QED BY <1>0, <1>1, <2>1
  <1>9. ASSUME NEW k \in Clients, SendChunk(k) PROVE HandlerOf(n)'
    <2>1. /\ sent \in Nat /\ sent' = sent + 1 /\ pc' = [pc EXCEPT ![sent + 1] = "waiting"]
          /\ req' = [req EXCEPT ![sent + 1] = [client |-> k, chunk |-> next[k]]]
          /\ UNCHANGED <<states, mutex, aborts>>
      BY <1>0, <1>9, UploadAssumption DEF SendChunk, TypeOK
    <2>2. CASE n = sent + 1
      BY <1>0, <2>1, <2>2 DEF HandlerOf, Holding, TypeOK, Ids
    <2>3. CASE n # sent + 1
      <3>1. pc'[n] = pc[n] /\ req'[n] = req[n] /\ (n > sent + 1 => n > sent)
        BY <1>0, <2>1, <2>3 DEF TypeOK, Ids
      <3> QED BY <1>0, <2>1, <3>1 DEF HandlerOf, Holding, Last, Cid
    <2> QED BY <2>2, <2>3
  <1>10. ASSUME NEW k \in Clients, SeeAnswer(k) \/ TimeOut(k) PROVE HandlerOf(n)'
    BY <1>1, <1>10 DEF SeeAnswer, TimeOut, bounds
  <1>11. CASE Crash
    BY <1>0, <1>11 DEF Crash, HandlerOf, Holding, TypeOK
  <1>12. CASE UNCHANGED vars
    BY <1>1, <1>12 DEF vars
  <1> QED BY <1>3, <1>4, <1>5, <1>6, <1>7, <1>8, <1>9, <1>10, <1>11, <1>12
          DEF Next, Takes, CallsS3

(* Whoever is answered for the last chunk finds the object, and nobody removes it. *)
LEMMA NextAnswers == IInv /\ [Next]_vars => AnsweredUploadsHaveObject'
  <1> SUFFICES ASSUME IInv, [Next]_vars, NEW n \in Ids, pc'[n] = "ok", Last(n)'
               PROVE  object'[Cid(n)'] # << >>
    BY DEF AnsweredUploadsHaveObject
  <1>0. TypeOK /\ TypeOK' /\ AnsweredUploadsHaveObject /\ Forward
    BY NextTypeOK, NextForward DEF IInv
  <1>1. ASSUME NEW m \in Ids, pc[m] = "complete", Assemble(m)
        PROVE  object'[Cid(m)] # << >>
    <2> DEFINE o == [i \in 1..Len(states[Cid(m)].parts) |-> states[Cid(m)].parts[i].chunk]
    <2>1. object' = [object EXCEPT ![Cid(m)] = o] /\ o # << >> /\ Cid(m) \in Cids
      BY <1>1, Assembles, Continues DEF Holding
    <2> HIDE DEF o
    <2> QED BY <1>0, <2>1 DEF TypeOK
  <1>2. CASE pc[n] = "ok"
    <2>1. Last(n) /\ Cid(n)' = Cid(n) /\ object[Cid(n)] # << >>
      BY <1>0, <1>2 DEF Forward, Last, Cid, AnsweredUploadsHaveObject
    <2>2. \/ object' = object
          \/ \E m \in Ids : /\ pc[m] = "complete" /\ Assemble(m)
      BY DEF Next, Takes, CallsS3, SendChunk, SeeAnswer, TimeOut, FirstChunk, InitiateFails,
             NextChunk, NotFound, UploadPart, PartFails, CompleteUpload, CompleteFails,
             AbortReads, AbortUpload, AbortFails, AbortCleans, Crash, s3, vars
    <2>3. ASSUME NEW m \in Ids, pc[m] = "complete", Assemble(m), Cid(m) # Cid(n)
          PROVE  object'[Cid(n)] = object[Cid(n)]
      BY <1>0, <2>3, UploadAssumption DEF Assemble, TypeOK, Cid
    <2> QED BY <1>1, <2>1, <2>2, <2>3
  <1>3. CASE pc[n] # "ok"
    <2>1. (UploadPart(n) /\ ~Last(n)) \/ CompleteUpload(n)
      <3>1. ASSUME NEW m \in Ids, Takes(m) \/ CallsS3(m),
                   ~(m = n /\ ((UploadPart(n) /\ ~Last(n)) \/ CompleteUpload(n)))
            PROVE  FALSE
        <4>1. \/ pc' = pc
              \/ \E p \in {"part", "complete", "failed"} : pc' = [pc EXCEPT ![m] = p]
              \/ m # n /\ pc' = [pc EXCEPT ![m] = "ok"]
          BY <3>1 DEF Takes, CallsS3, FirstChunk, InitiateFails, NextChunk, NotFound,
                UploadPart, PartFails, CompleteUpload, CompleteFails, AbortUpload, AbortFails,
                Answer
        <4> QED BY <1>0, <1>3, <4>1 DEF TypeOK
      <3>2. ASSUME NEW k \in Clients, SendChunk(k) PROVE FALSE
        BY <1>0, <1>3, <3>2 DEF SendChunk, TypeOK
      <3>3. pc' # pc
        BY <1>3
      <3>4. CASE Crash
        BY <1>0, <1>3, <3>4 DEF Crash, TypeOK
      <3> QED BY <3>1, <3>2, <3>3, <3>4
              DEF Next, SeeAnswer, TimeOut, AbortReads, AbortCleans, vars
    <2>2. CASE UploadPart(n) /\ ~Last(n)
      BY <2>2 DEF UploadPart, Last
    <2>3. CASE CompleteUpload(n)
      BY <1>1, <2>3 DEF CompleteUpload, Cid
    <2> QED BY <2>1, <2>2, <2>3
  <1> QED BY <1>2, <1>3

(* The invariant is inductive, and holds in every behaviour. *)
LEMMA AlwaysIInv == Spec => []IInv
  <1>1. IInv /\ [Next]_vars => IInv'
    BY NextTypeOK, NextStates, NextHandlers, NextAnswers DEF IInv
  <1> QED BY <1>1, InitIInv, PTL DEF Spec

(* The process and S3 agree on what has been uploaded, for any number of clients, of
   the same content too, whichever S3 calls fail, with restarts and given up chunks:
   listed parts are what S3 has, and an answered upload has its object.  *)
THEOREM StatesAndAnswersAreTrue == Spec => []UploadsInv
  <1>1. IInv => UploadsInv
    <2> SUFFICES ASSUME IInv, NEW c \in Cids, NEW i \in DOMAIN states[c].parts
                 PROVE  LET p == states[c].parts[i] IN
                        stored[states[c].id][p.number] = p.chunk
      BY DEF IInv, UploadsInv, ListedPartsAreStored
    <2>1. states[c] \in State /\ StateOf(c)
      BY DEF IInv, TypeOK
    <2>2. DOMAIN states[c].parts = 1..Len(states[c].parts)
      BY <2>1, LenProperties DEF State
    <2>3. states[c] # NoState
      BY <2>2, EmptySeq DEF NoState
    <2> QED BY <2>1, <2>2, <2>3 DEF StateOf
  <1> QED BY <1>1, AlwaysIInv, PTL
-----------------------------------------------------------------------------
(* Whole objects, for clients that wait for their answers                  *)

(* Each client has a content of its own. *)
Patient == \A k, l \in Clients : CidOf[k] = CidOf[l] => k = l

Active == {"waiting", "part", "complete"}

(* k waits for the last of its requests, if for any, and the others are over *)
Waits(k) ==
    /\ \A n \in Ids : pc[n] \in Active /\ req[n].client = k => waits[k] = n
    /\ waits[k] # None =>
          /\ req[waits[k]] = [client |-> k, chunk |-> next[k]]
          /\ pc[waits[k]] # "none"
          /\ \A n \in Ids : pc[n] # "none" /\ req[n].client = k => n <= waits[k]

(* the chunks of an upload whose last one is sent again *)
ChunkAt(i) == IF i <= Length THEN i ELSE Length

LastFailed(k) == \E m \in Ids : req[m].client = k /\ Last(m) /\ pc[m] = "failed"

(* Where a client is in its content, if an upload of it is in progress: at the chunk
   after the listed ones, or back at the first.  When all of them are listed, the last
   chunk is about to be answered or has failed before.  *)
Position(k) ==
    LET s == states[CidOf[k]]
        j == Len(s.parts)
        phase == IF waits[k] = None THEN "none" ELSE pc[waits[k]]
    IN  s # NoState =>
        /\ \A i \in 1..j : s.parts[i].chunk = ChunkAt(i)
        /\ phase \in {"none", "waiting", "failed"} => next[k] \in {1, ChunkAt(j + 1)}
        /\ phase = "part" => next[k] = ChunkAt(j + 1)
        /\ phase = "complete" => next[k] = Length /\ Length <= j
        /\ phase = "ok" => next[k] = j /\ j < Length
        /\ Length < j \/ (Length = j /\ phase # "complete") => LastFailed(k)

WholeOrRepeated(c) == Whole(c) \/ (LastRepeated(c) /\ LastSentAgain(c))

OrderInv == timeouts = 0 => /\ \A k \in Clients : Waits(k) /\ Position(k)
                            /\ \A c \in Cids : WholeOrRepeated(c)

(* What has failed once has always failed. *)
LEMMA FailuresStay ==
  ASSUME IInv, Forward
  PROVE  /\ \A k \in Clients : LastFailed(k) => LastFailed(k)'
         /\ \A c \in Cids : LastSentAgain(c) => LastSentAgain(c)'
  <1>1. ASSUME NEW n \in Ids, pc[n] # "none"
        PROVE  pc'[n] # "none" /\ req'[n] = req[n] /\ Cid(n)' = Cid(n) /\ Last(n)' = Last(n)
    BY <1>1 DEF Forward, Cid, Last
  <1>2. \A n \in Ids : pc[n] = "failed" => pc'[n] = "failed"
    BY DEF Forward
  <1>3. ASSUME NEW k \in Clients, LastFailed(k) PROVE LastFailed(k)'
    <2>1. PICK m \in Ids : req[m].client = k /\ Last(m) /\ pc[m] = "failed"
      BY <1>3 DEF LastFailed
    <2> QED BY <1>1, <1>2, <2>1 DEF LastFailed
  <1>4. ASSUME NEW c \in Cids, LastSentAgain(c) PROVE LastSentAgain(c)'
    <2>1. PICK m, n \in Ids : /\ m < n /\ Cid(m) = c /\ Last(m) /\ pc[m] = "failed"
                             /\ Cid(n) = c /\ Last(n) /\ pc[n] # "none"
      BY <1>4 DEF LastSentAgain
    <2>2. /\ Cid(m)' = c /\ Last(m)' /\ pc'[m] = "failed"
          /\ Cid(n)' = c /\ Last(n)' /\ pc'[n] # "none"
      BY <1>1, <1>2, <2>1
    <2> QED BY <2>1, <2>2 DEF LastSentAgain
  <1> QED BY <1>3, <1>4

(* The listed parts of an upload can be counted. *)
LEMMA Counted ==
  ASSUME IInv, NEW k \in Clients
  PROVE  Len(states[CidOf[k]].parts) \in Nat
  <1>1. states[CidOf[k]] \in State
    BY UploadAssumption DEF IInv, TypeOK
  <1> QED BY <1>1, LenProperties DEF State

(* A client that a step does not concern goes on waiting. *)
LEMMA WaitsKept ==
  ASSUME IInv, Forward, NEW k \in Clients, Waits(k),
         waits'[k] = waits[k], next'[k] = next[k],
         \A n \in Ids : pc'[n] \in Active /\ req'[n].client = k => pc[n] \in Active,
         \A n \in Ids : pc'[n] # "none" /\ req'[n].client = k => pc[n] # "none"
  PROVE  Waits(k)'
  <1>1. waits[k] \in Ids \cup {None}
    BY DEF IInv, TypeOK
  <1>2. waits[k] # None => /\ req'[waits[k]] = [client |-> k, chunk |-> next[k]]
                           /\ pc'[waits[k]] # "none"
    BY <1>1 DEF Waits, Forward
  <1>3. \A n \in Ids : pc'[n] # "none" /\ req'[n].client = k =>
                           pc[n] # "none" /\ req[n].client = k
    BY DEF Forward
  <1>4. Active \subseteq {"waiting", "part", "complete"}
    BY DEF Active
  <1> QED BY <1>2, <1>3, <1>4 DEF Waits

(* and its upload stays where it was, or is forgotten. *)
LEMMA PositionKept ==
  ASSUME IInv, Forward, NEW k \in Clients, Position(k),
         states'[CidOf[k]] # NoState =>
            /\ states'[CidOf[k]] = states[CidOf[k]]
            /\ waits'[k] = waits[k] /\ next'[k] = next[k]
            /\ waits[k] # None => pc'[waits[k]] = pc[waits[k]]
  PROVE  Position(k)'
  <1>1. LastFailed(k) => LastFailed(k)'
    BY FailuresStay
  <1> QED BY <1>1 DEF Position

(* What the clients do. *)
LEMMA ClientsKeepOrder ==
  ASSUME IInv, [Next]_vars, NEW k \in Clients, Waits(k), Position(k),
         NEW l \in Clients, SendChunk(l) \/ SeeAnswer(l)
  PROVE  Waits(k)' /\ Position(k)'
  <1>0. TypeOK /\ TypeOK' /\ Forward
    BY NextTypeOK, NextForward DEF IInv
  <1> DEFINE s == states[CidOf[k]]
  <1>1. CASE SendChunk(l)
    <2>1. /\ sent + 1 \in Ids /\ pc[sent + 1] = "none" /\ None \notin Ids
          /\ pc' = [pc EXCEPT ![sent + 1] = "waiting"]
          /\ req' = [req EXCEPT ![sent + 1] = [client |-> l, chunk |-> next[l]]]
          /\ waits' = [waits EXCEPT ![l] = sent + 1]
          /\ UNCHANGED <<states, next>>
          /\ \A n \in Ids : pc[n] # "none" => n <= sent + 1
      <3>1. sent + 1 \in Ids /\ sent + 1 > sent /\ None \notin Ids
        BY <1>0, <1>1, UploadAssumption DEF SendChunk, TypeOK, Ids, None
      <3>2. \A n \in Ids : pc[n] # "none" => n <= sent + 1
        <4>1. sent \in Nat /\ \A n \in Ids : n > sent => pc[n] = "none"
          BY <1>0, UploadAssumption DEF IInv, HandlerOf, TypeOK
        <4> QED BY <4>1, UploadAssumption DEF Ids
      <3> QED BY <1>1, <3>1, <3>2 DEF SendChunk, IInv, HandlerOf, s3
    <2>2. CASE k = l
      <3>1. waits[k] = None /\ waits'[k] = sent + 1 /\ next'[k] = next[k]
        BY <1>0, <1>1, <2>1, <2>2 DEF SendChunk, TypeOK
      <3>2. Waits(k)'
        <4>1. \A n \in Ids : n # sent + 1 => pc'[n] = pc[n] /\ req'[n] = req[n]
          BY <1>0, <2>1 DEF TypeOK
        <4>2. \A n \in Ids : ~(pc[n] \in Active /\ req[n].client = k)
          BY <2>1, <3>1 DEF Waits
        <4>3. /\ req'[sent + 1] = [client |-> k, chunk |-> next[k]]
              /\ pc'[sent + 1] = "waiting"
          BY <1>0, <2>1, <2>2 DEF TypeOK
        <4>4. \A n \in Ids : pc'[n] # "none" => n <= sent + 1
          BY <2>1, <4>1, UploadAssumption DEF Ids
        <4> QED BY <3>1, <4>1, <4>2, <4>3, <4>4 DEF Waits
      <3>3. Position(k)'
        <4>1. pc'[sent + 1] = "waiting" /\ sent + 1 # None
          BY <1>0, <2>1 DEF TypeOK
        <4>2. LastFailed(k) => LastFailed(k)'
          BY <1>0, FailuresStay
        <4> QED BY <2>1, <3>1, <4>1, <4>2 DEF Position
      <3> QED BY <3>2, <3>3
    <2>3. CASE k # l
      <3>1. waits'[k] = waits[k] /\ next' = next
        BY <1>0, <2>1, <2>3 DEF TypeOK
      <3>2. \A n \in Ids : req'[n].client = k => pc'[n] = pc[n]
        BY <1>0, <2>1, <2>3 DEF TypeOK
      <3>3. waits[k] # None => pc'[waits[k]] = pc[waits[k]]
        BY <1>0, <2>1 DEF TypeOK, Waits
      <3> QED BY <1>0, <2>1, <3>1, <3>2, <3>3, WaitsKept, PositionKept
    <2> QED BY <2>2, <2>3
  <1>2. CASE SeeAnswer(l)
    <2>1. /\ waits[l] # None /\ waits' = [waits EXCEPT ![l] = None]
          /\ UNCHANGED <<pc, req, states>>
          /\ \/ pc[waits[l]] = "ok" /\ next' = [next EXCEPT ![l] = next[l] + 1]
             \/ /\ pc[waits[l]] = "failed"
                /\ \E i \in RetryAt(l) : next' = [next EXCEPT ![l] = i]
      BY <1>2 DEF SeeAnswer, s3
    <2>2. CASE k = l
      <3>1. waits'[k] = None /\ pc[waits[k]] \notin Active
        BY <1>0, <2>1, <2>2 DEF TypeOK, Active
      <3>2. Waits(k)'
        BY <2>1, <3>1 DEF Waits
      <3>3. CASE pc[waits[k]] = "ok"
        <4>1. next'[k] = next[k] + 1
          BY <1>0, <2>1, <2>2, <3>3 DEF TypeOK
        <4>2. Len(states[CidOf[k]].parts) \in Nat /\ Length \in Nat
          BY Counted, UploadAssumption
        <4> QED BY <2>1, <2>2, <3>1, <3>2, <3>3, <4>1, <4>2 DEF Position, ChunkAt
      <3>4. CASE pc[waits[k]] = "failed"
        <4>1. \/ next'[k] = 1
              \/ next'[k] = next[k] /\ "same" \in Retries
          <5>1. PICK how \in Retries :
                  next' = [next EXCEPT ![k] = IF how = "same" THEN next[k] ELSE 1]
            BY <2>1, <2>2, <3>4 DEF RetryAt
          <5> QED BY <1>0, <5>1 DEF TypeOK
        <4>2. LastFailed(k) => LastFailed(k)'
          BY <1>0, FailuresStay
        <4> QED BY <2>1, <2>2, <3>1, <3>2, <3>4, <4>1, <4>2 DEF Position
      <3> QED BY <2>1, <2>2, <3>3, <3>4
    <2>3. CASE k # l
      <3>1. waits'[k] = waits[k] /\ next'[k] = next[k]
        BY <1>0, <2>1, <2>3 DEF TypeOK
      <3> QED BY <1>0, <2>1, <3>1, WaitsKept, PositionKept
    <2> QED BY <2>2, <2>3
  <1> QED BY <1>1, <1>2

(* What the handler of a chunk of the client does. *)
LEMMA OwnHandlerKeepsOrder ==
  ASSUME IInv, [Next]_vars, Patient, NEW k \in Clients, Waits(k), Position(k),
         NEW n \in Ids, req[n].client = k,
         \/ Takes(n) \/ UploadPart(n) \/ PartFails(n) \/ CompleteUpload(n) \/ CompleteFails(n)
  PROVE  Waits(k)' /\ Position(k)'
  <1> DEFINE s == states[CidOf[k]]
             j == Len(s.parts)
  <1>0. /\ TypeOK /\ TypeOK' /\ Forward /\ Cid(n) = CidOf[k]
    BY NextTypeOK, NextForward DEF IInv, Cid
  <1>a. /\ LastFailed(k) => LastFailed(k)'
        /\ j \in Nat /\ Length \in Nat \ {0}
    BY <1>0, FailuresStay, Counted, UploadAssumption
  <1>1. /\ pc[n] \in Active /\ waits[k] = n /\ n # None
        /\ req[n].chunk = next[k] /\ waits' = waits /\ next' = next /\ req' = req
        /\ \A m \in Ids \ {n} : pc'[m] = pc[m]
    <2>1. pc[n] \in Active /\ waits' = waits /\ next' = next /\ req' = req
      BY DEF Takes, FirstChunk, InitiateFails, NextChunk, NotFound, Locks, UploadPart,
             PartFails, CompleteUpload, CompleteFails, Active, peers
    <2>2. \A m \in Ids \ {n} : pc'[m] = pc[m]
      BY <1>0 DEF Takes, FirstChunk, InitiateFails, NextChunk, NotFound, UploadPart,
             PartFails, CompleteUpload, CompleteFails, Answer, TypeOK
    <2>3. waits[k] = n /\ n # None
      BY <2>1 DEF Waits, None, Ids
    <2> QED BY <2>1, <2>2, <2>3 DEF Waits
  <1>2. Waits(k)'
    <2>1. \A m \in Ids : pc'[m] \in Active /\ req'[m].client = k => m = n
      BY <1>1 DEF Waits
    <2>2. req'[n] = [client |-> k, chunk |-> next'[k]] /\ pc'[n] # "none"
      BY <1>0, <1>1 DEF Waits, Forward, Active
    <2>3. \A m \in Ids : pc'[m] # "none" /\ req'[m].client = k => m <= n
      BY <1>1 DEF Waits, Active
    <2> QED BY <1>1, <2>1, <2>2, <2>3 DEF Waits
  <1>3. CASE FirstChunk(n)
    <2>1. /\ states'[CidOf[k]].parts = << >> /\ pc'[n] = "part" /\ next[k] = 1
      BY <1>0, <1>1, <1>3, UploadAssumption DEF FirstChunk, NewState, NoState, TypeOK
    <2>2. Len(<< >>) = 0
      BY EmptySeq
    <2> QED BY <1>a, <1>1, <1>2, <2>1, <2>2 DEF Position, ChunkAt
  <1>4. CASE InitiateFails(n)
    <2>1. /\ states' = states /\ pc[n] = "waiting" /\ pc'[n] = "failed" /\ next[k] = 1
      BY <1>0, <1>1, <1>4 DEF InitiateFails, Locks, Answer, TypeOK
    <2> QED BY <1>a, <1>1, <1>2, <2>1 DEF Position
  <1>5. CASE NextChunk(n)
    <2>1. /\ states' = states /\ pc[n] = "waiting" /\ pc'[n] = "part" /\ next[k] # 1
      BY <1>0, <1>1, <1>5 DEF NextChunk, Locks, TypeOK
    <2> QED BY <1>a, <1>1, <1>2, <2>1 DEF Position
  <1>6. CASE NotFound(n)
    BY <1>0, <1>2, <1>6 DEF NotFound, Position
  <1>7. CASE PartFails(n)
    <2>1. /\ states' = states /\ pc[n] = "part" /\ pc'[n] = "failed"
      BY <1>0, <1>7 DEF PartFails, Answer, TypeOK
    <2> QED BY <1>a, <1>1, <1>2, <2>1 DEF Position
  <1>8. CASE UploadPart(n)
    <2> DEFINE t == WithPart(n)
    <2>1. /\ pc[n] = "part" /\ states'[CidOf[k]] = t
          /\ pc'[n] = IF req[n].chunk = Length THEN "complete" ELSE "ok"
      BY <1>0, <1>8, UploadAssumption DEF UploadPart, Answer, Last, TypeOK
    <2>2. s # NoState
      BY <1>0, <2>1, Continues DEF Holding
    <2>3. /\ next[k] = ChunkAt(j + 1) /\ \A i \in 1..j : s.parts[i].chunk = ChunkAt(i)
          /\ Length <= j => LastFailed(k)
      BY <1>a, <1>1, <2>1, <2>2 DEF Position
    <2>4. /\ Len(t.parts) = j + 1
          /\ \A i \in 1..j : t.parts[i] = s.parts[i]
          /\ t.parts[j + 1].chunk = ChunkAt(j + 1)
      <3>1. /\ Len(t.parts) = j + 1 /\ \A i \in 1..j : t.parts[i] = s.parts[i]
            /\ t.parts[j + 1] = [number |-> s.number, chunk |-> req[n].chunk]
        BY <1>0, <2>1, Lists
      <3> QED BY <1>1, <2>3, <3>1
    <2>5. \A i \in 1..(j + 1) : t.parts[i].chunk = ChunkAt(i)
      <3>1. \A i \in 1..(j + 1) : i \in 1..j \/ i = j + 1
        BY <1>a
      <3> HIDE DEF t
      <3> QED BY <2>3, <2>4, <3>1
    <2>6. /\ pc'[n] = "complete" => next[k] = Length /\ Length <= j + 1
          /\ pc'[n] = "ok" => next[k] = j + 1 /\ j + 1 < Length
          /\ pc'[n] \in {"complete", "ok"}
      <3>1. ASSUME NEW i \in Nat
            PROVE  IF ChunkAt(i + 1) = Length THEN Length <= i + 1
                   ELSE ChunkAt(i + 1) = i + 1 /\ i + 1 < Length
        BY <1>a DEF ChunkAt
      <3> HIDE DEF j
      <3>2. IF next[k] = Length THEN Length <= j + 1 ELSE next[k] = j + 1 /\ j + 1 < Length
        BY <1>a, <2>3, <3>1
      <3> QED BY <1>1, <2>1, <3>2
    <2>7. Length < j + 1 => LastFailed(k)'
      BY <1>a, <2>3
    <2> HIDE DEF t
    <2> QED BY <1>a, <1>1, <1>2, <2>1, <2>4, <2>5, <2>6, <2>7 DEF Position
  <1>9. CASE CompleteUpload(n)
    <2>1. states'[CidOf[k]] = NoState
      BY <1>0, <1>9, UploadAssumption DEF CompleteUpload, TypeOK
    <2> QED BY <1>2, <2>1 DEF Position
  <1>10. CASE CompleteFails(n)
    <2>1. /\ states' = states /\ pc[n] = "complete" /\ pc'[n] = "failed"
      BY <1>0, <1>10 DEF CompleteFails, Answer, TypeOK
    <2>2. LastFailed(k)'
      BY <1>1, <2>1 DEF IInv, HandlerOf, Last, LastFailed
    <2>3. s # NoState => next[k] = ChunkAt(j + 1)
      BY <1>a, <1>1, <2>1 DEF Position, ChunkAt
    <2> QED BY <1>1, <1>2, <2>1, <2>2, <2>3 DEF Position
  <1> QED BY <1>3, <1>4, <1>5, <1>6, <1>7, <1>8, <1>9, <1>10 DEF Takes

(* Every client keeps its place. *)
LEMMA NextOrder ==
  ASSUME IInv, [Next]_vars, Patient, NEW k \in Clients, Waits(k), Position(k),
         timeouts = 0, timeouts' = 0
  PROVE  Waits(k)' /\ Position(k)'
  <1>0. /\ TypeOK /\ TypeOK' /\ Forward
        /\ \A n \in Ids : req[n].client \in Clients /\ Cid(n) = CidOf[req[n].client]
        /\ \A n \in Ids : req[n].client # k => Cid(n) # CidOf[k]
    BY NextTypeOK, NextForward DEF IInv, Cid, TypeOK, Patient
  <1>1. ASSUME waits' = waits, next' = next, pc' = pc, req' = req, NEW c \in Cids,
               states' \in {states, [states EXCEPT ![c] = NoState]}
        PROVE  Waits(k)' /\ Position(k)'
    <2>1. states'[CidOf[k]] \in {NoState, states[CidOf[k]]}
      BY <1>0, <1>1, UploadAssumption DEF TypeOK
    <2> QED BY <1>0, <1>1, <2>1, WaitsKept, PositionKept
  <1>2. ASSUME NEW l \in Clients, SendChunk(l) \/ SeeAnswer(l)
        PROVE  Waits(k)' /\ Position(k)'
    BY <1>2, ClientsKeepOrder
  <1>3. ASSUME NEW l \in Clients, TimeOut(l)
        PROVE  Waits(k)' /\ Position(k)'
    BY <1>3 DEF TimeOut
  <1>4. ASSUME NEW n \in Ids,
               \/ Takes(n) \/ UploadPart(n) \/ PartFails(n) \/ CompleteUpload(n) \/ CompleteFails(n)
        PROVE  Waits(k)' /\ Position(k)'
    <2>1. CASE req[n].client = k
      BY <1>4, <2>1, OwnHandlerKeepsOrder
    <2>2. CASE req[n].client # k
      <3>1. Cid(n) # CidOf[k] /\ Cid(n) \in Cids
        BY <1>0, <2>2, UploadAssumption
      <3>2. /\ waits' = waits /\ next' = next /\ req' = req
        BY <1>4 DEF Takes, FirstChunk, InitiateFails, NextChunk, NotFound, UploadPart,
                    PartFails, CompleteUpload, CompleteFails, peers
      <3>3. \A m \in Ids \ {n} : pc'[m] = pc[m]
        BY <1>0, <1>4 DEF Takes, FirstChunk, InitiateFails, NextChunk, NotFound, UploadPart,
                    PartFails, CompleteUpload, CompleteFails, Answer, TypeOK
      <3>4. states'[CidOf[k]] = states[CidOf[k]]
        <4>1. \/ states' = states
              \/ \E s : states' = [states EXCEPT ![Cid(n)] = s]
          BY <1>4 DEF Takes, FirstChunk, InitiateFails, NextChunk, NotFound, UploadPart,
                      PartFails, CompleteUpload, CompleteFails
        <4>2. CASE states' = states
          BY <4>2
        <4>3. ASSUME NEW s, states' = [states EXCEPT ![Cid(n)] = s]
              PROVE  states'[CidOf[k]] = states[CidOf[k]]
          <5>1. states = [c \in Cids |-> states[c]] /\ CidOf[k] \in Cids
            BY <1>0, UploadAssumption DEF TypeOK
          <5> QED BY <3>1, <4>3, <5>1
        <4> QED BY <4>1, <4>2, <4>3
      <3>5. waits[k] # None => waits[k] \in Ids /\ waits[k] # n
        BY <1>0, <2>2 DEF Waits, TypeOK
      <3> QED BY <1>0, <2>2, <3>2, <3>3, <3>4, <3>5, WaitsKept, PositionKept
    <2> QED BY <2>1, <2>2
  <1>5. ASSUME NEW n \in Ids, AbortReads(n) \/ AbortUpload(n) \/ AbortFails(n) \/ AbortCleans(n)
        PROVE  Waits(k)' /\ Position(k)'
    <2>1. Cid(n) \in Cids
      BY <1>0, UploadAssumption
    <2> QED BY <1>1, <1>5, <2>1
            DEF AbortReads, AbortUpload, AbortFails, AbortCleans, peers
  <1>6. CASE Crash
    <2>1. /\ waits' = waits /\ next' = next /\ req' = req
          /\ \A n \in Ids : pc'[n] \notin Active /\ (pc'[n] # "none" => pc[n] # "none")
          /\ states'[CidOf[k]] = NoState
      BY <1>0, <1>6, UploadAssumption DEF Crash, peers, Active, TypeOK
    <2> QED BY <1>0, <2>1, WaitsKept, PositionKept
  <1>7. CASE UNCHANGED vars
    BY <1>1, <1>7, UploadAssumption DEF vars
  <1> QED BY <1>2, <1>3, <1>4, <1>5, <1>6, <1>7 DEF Next, CallsS3

(* What S3 puts together for a client that waits is whole, or ends with copies of the
   last chunk that the client has sent again.  *)
LEMMA NextWhole ==
  ASSUME IInv, [Next]_vars, \A k \in Clients : Waits(k) /\ Position(k),
         NEW c \in Cids, WholeOrRepeated(c)
  PROVE  WholeOrRepeated(c)'
  <1>0. TypeOK /\ Forward /\ (LastSentAgain(c) => LastSentAgain(c)')
    BY NextForward, FailuresStay DEF IInv
  <1>1. \/ object' = object
        \/ \E n \in Ids : pc[n] = "complete" /\ Assemble(n)
    BY DEF Next, Takes, CallsS3, SendChunk, SeeAnswer, TimeOut, FirstChunk, InitiateFails,
           NextChunk, NotFound, UploadPart, PartFails, CompleteUpload, CompleteFails,
           AbortReads, AbortUpload, AbortFails, AbortCleans, Crash, s3, vars
  <1>2. CASE object'[c] = object[c]
    BY <1>0, <1>2 DEF WholeOrRepeated, Whole, LastRepeated
  <1>3. ASSUME NEW n \in Ids, pc[n] = "complete", Assemble(n), object'[c] # object[c]
        PROVE  WholeOrRepeated(c)'
    <2> DEFINE k == req[n].client
               s == states[Cid(n)]
               j == Len(s.parts)
               o == [i \in 1..j |-> s.parts[i].chunk]
    <2>1. /\ k \in Clients /\ Cid(n) = CidOf[k] /\ Cid(n) \in Cids /\ n # None
      BY <1>0, UploadAssumption DEF TypeOK, Cid, None, Ids
    <2>2. /\ waits[k] = n /\ Last(n)
          /\ \A m \in Ids : pc[m] # "none" /\ req[m].client = k => m <= n
      <3>1. waits[k] = n
        BY <1>3, <2>1 DEF Waits, Active
      <3> QED BY <1>3, <2>1, <3>1 DEF Waits, IInv, HandlerOf
    <2>3. s # NoState /\ j \in Nat /\ Length \in Nat
      BY <1>3, Continues, UploadAssumption DEF Holding
    <2>4. /\ Length <= j /\ \A i \in 1..j : s.parts[i].chunk = ChunkAt(i)
          /\ Length < j => LastFailed(k)
      BY <1>3, <2>1, <2>2, <2>3 DEF Position
    <2>5. object'[c] = o /\ c = Cid(n)
      <3>1. object' = [object EXCEPT ![Cid(n)] = o]
        BY <1>3, Assembles
      <3> HIDE DEF o
      <3> QED BY <1>0, <1>3, <2>1, <3>1 DEF TypeOK
    <2>6. CASE Length = j
      <3>1. o = [i \in Chunks |-> i]
        BY <2>4, <2>6 DEF Chunks, ChunkAt
      <3> QED BY <2>5, <3>1 DEF WholeOrRepeated, Whole
    <2>7. CASE Length < j
      <3>1. LastRepeated(c)'
        <4>1. \A i \in 1..j : o[i] = IF i <= Length THEN i ELSE Length
          BY <2>4 DEF ChunkAt
        <4>2. DOMAIN o = 1..j /\ Chunks \subseteq 1..j
          BY <2>3, <2>7 DEF Chunks
        <4> HIDE DEF o
        <4> QED BY <2>5, <4>1, <4>2 DEF LastRepeated, Chunks
      <3>2. LastSentAgain(c)
        <4>1. PICK m \in Ids : req[m].client = k /\ Last(m) /\ pc[m] = "failed"
          BY <2>4, <2>7 DEF LastFailed
        <4>2. m < n
          BY <1>3, <2>2, <4>1, UploadAssumption DEF Ids
        <4>3. Cid(m) = c
          BY <2>1, <2>5, <4>1 DEF Cid
        <4> QED BY <1>3, <2>2, <2>5, <4>1, <4>2, <4>3 DEF LastSentAgain
      <3> QED BY <1>0, <3>1, <3>2 DEF WholeOrRepeated
    <2> QED BY <2>3, <2>4, <2>6, <2>7
  <1> QED BY <1>1, <1>2, <1>3

(* As long as every client waits for its answers and has a content of its own, an
   object has all chunks of the content in order, whatever fails, whatever a client
   sends again and whenever the process restarts; what it may have besides are copies
   of a last chunk that was refused and sent again.  *)
THEOREM CompletedObjectsAreWhole ==
  ASSUME Patient
  PROVE  Spec => []ObjectsAreWhole
  <1>1. Init => OrderInv
    <2> SUFFICES ASSUME Init PROVE OrderInv
      OBVIOUS
    <2>1. ASSUME NEW k \in Clients PROVE Waits(k) /\ Position(k)
      BY UploadAssumption DEF Init, Waits, Position, Active
    <2>2. ASSUME NEW c \in Cids PROVE WholeOrRepeated(c)
      BY DEF Init, Whole, WholeOrRepeated
    <2> QED BY <2>1, <2>2 DEF OrderInv
  <1>2. IInv /\ OrderInv /\ [Next]_vars => OrderInv'
    <2> SUFFICES ASSUME IInv, OrderInv, [Next]_vars, timeouts' = 0 PROVE OrderInv'
      BY DEF OrderInv
    <2>1. timeouts = 0
      <3>1. timeouts \in Nat /\ (timeouts' = timeouts \/ timeouts' = timeouts + 1)
        BY DEF IInv, TypeOK, Next, Takes, CallsS3, SendChunk, SeeAnswer, TimeOut, FirstChunk,
               InitiateFails, NextChunk, NotFound, UploadPart, PartFails, CompleteUpload,
               CompleteFails, AbortReads, AbortUpload, AbortFails, AbortCleans, Crash,
               bounds, vars
      <3> QED BY <3>1
    <2> QED BY <2>1, NextOrder, NextWhole DEF OrderInv
  <1>3. OrderInv => ObjectsAreWhole
    BY DEF OrderInv, ObjectsAreWhole, WholeOrRepeated
  <1> QED BY <1>1, <1>2, <1>3, AlwaysIInv, PTL DEF Spec
=============================================================================
