--------------------------- MODULE StatsJobsProofs ---------------------------
(***************************************************************************)
(* What holds of the statistics jobs for every number of changes and of    *)
(* failing queries: the files of a calculation are within its split by     *)
(* status, a reader of the statistics gets figures of one time, and the    *)
(* goroutine does not take them back.  That the figures are renewed and    *)
(* that readers are answered are liveness properties, and stay with TLC.   *)
(***************************************************************************)
EXTENDS StatsJobs, TLAPS

TheJob == <<"job", 1>>

(* There is one goroutine, and only the start of the server writes without the
   mutex.  *)
OneGoroutine ==
    /\ pc[<<"job", 2>>] = "absent"
    /\ \A p \in Writers : pc[p] \in {"rawFirst", "rawSecond"} => p = Main

(* Who writes or reads under the mutex has it.  *)
MutexHeld ==
    /\ \A p \in Writers : pc[p] \in {"first", "second"} => mutex = p
    /\ reader.at = "copy" => kind # "statistics" /\ mutex = Reader
    /\ kind = "statistics" /\ reader.at \in {"first", "second"} => mutex = Reader

(* Files are counted before the files of either status, which only get more. *)
Split(c) ==
    /\ c.query = 3 => c.files <= rows.encrypted + rows.public
    /\ c.query = 4 => c.files <= c.encrypted + rows.public

FilesCountedFirst ==
    \A p \in Writers : /\ calc[p].query \in 1..Len(Queries)
                       /\ kind = "statistics" /\ pc[p] = "query" => Split(calc[p])

(* For a reader that came when the start of the server was over, the words differ
   only while the goroutine is between them, with the mutex.  *)
SettledWords ==
    reader.settled =>
        /\ pc[Main] = "ended"
        /\ pc[TheJob] = "second" => words[1] = calc[TheJob].asOf
        /\ pc[TheJob] # "second" => words[1] = words[2]

ReaderSees ==
    kind = "statistics" /\ reader.settled /\ reader.at = "second" =>
        reader.words[1] = words[1]

(* Nothing is published of a later time than now, and a calculation that began once
   the server had started is no older than what is published.  *)
NotAhead ==
    /\ words[1] <= Version /\ words[2] <= Version
    /\ \A p \in Writers : calc[p].asOf <= Version

LateIsNewer ==
    calc[TheJob].late =>
        /\ pc[Main] = "ended"
        /\ kind = "statistics" =>
              calc[TheJob].asOf >= words[1] /\ calc[TheJob].asOf >= words[2]

IInv == /\ TypeOK /\ OneGoroutine /\ MutexHeld /\ FilesCountedFirst
        /\ FilesWithinSplit /\ SettledWords /\ ReaderSees /\ AnswersAreWhole
        /\ NotAhead /\ LateIsNewer

Times == Nat \cup {Zero}
Calc == [asOf : Times, query : 1..4, published : BOOLEAN, late : BOOLEAN,
         files : Nat, encrypted : Nat, public : Nat]

-----------------------------------------------------------------------------
(* The names of the goroutines differ. *)
LEMMA Names ==
  /\ Jobs = {TheJob, <<"job", 2>>} /\ TheJob # <<"job", 2>>
  /\ Writers = {TheJob, <<"job", 2>>, Main}
  /\ Main \notin Jobs /\ Reader \notin Writers /\ Free \notin Writers /\ Reader # Free
  <1>1. 1..2 = {1, 2}
    OBVIOUS
  <1>2. Jobs = {TheJob, <<"job", 2>>}
    BY <1>1 DEF Jobs, TheJob
  <1>3. TheJob # <<"job", 2>>
    BY DEF TheJob
  <1>4. Main # TheJob /\ Main # <<"job", 2>>
    BY DEF Main, TheJob
  <1>5. Reader # TheJob /\ Reader # <<"job", 2>> /\ Reader # Main
    BY DEF Main, TheJob, Reader
  <1>6. Free # TheJob /\ Free # <<"job", 2>> /\ Free # Main /\ Reader # Free
    BY DEF Main, TheJob, Reader, Free
  <1> QED BY <1>2, <1>3, <1>4, <1>5, <1>6 DEF Writers

(* sync.Once starts the one goroutine. *)
LEMMA StartedOnce == Started \subseteq {TheJob}
  <1> SUFFICES ASSUME NEW j \in Started PROVE j = TheJob
    OBVIOUS
  <1>1. j \in Jobs /\ j[2] <= TheJob[2]
    BY Names DEF Started
  <1>2. TheJob[2] = 1 /\ <<"job", 2>>[2] = 2
    BY DEF TheJob
  <1> QED BY <1>1, <1>2, Names

(* One of the two words is written. *)
LEMMA OneWord ==
  ASSUME NEW w \in Words, NEW t \in Times
  PROVE  /\ [w EXCEPT ![1] = t] \in Words /\ [w EXCEPT ![2] = t] \in Words
         /\ [w EXCEPT ![1] = t][1] = t /\ [w EXCEPT ![1] = t][2] = w[2]
         /\ [w EXCEPT ![2] = t][2] = t /\ [w EXCEPT ![2] = t][1] = w[1]
  BY DEF Words, Times

(* The queries of the statistics. *)
LEMMA QueryNames ==
  /\ kind = "statistics" =>
        /\ Len(Queries) = 4 /\ Queries[1] = "totals" /\ Queries[2] = "files"
        /\ Queries[3] = "encrypted" /\ Queries[4] = "public"
  /\ kind # "statistics" =>
        Len(Queries) = 2 /\ Queries[1] = "dates" /\ Queries[2] = "weeks"
  BY DEF Queries

(* There is always a next query. *)
LEMMA NextQueries ==
  ASSUME NEW n \in 1..Len(Queries)
  PROVE  NextQuery(n) \in 1..Len(Queries) /\ NextQuery(n) \in 1..4
  <1>1. CASE kind = "statistics"
    <2>1. Len(Queries) = 4
      BY <1>1, QueryNames
    <2> QED BY <2>1 DEF NextQuery
  <1>2. CASE kind # "statistics"
    <2>1. Len(Queries) = 2
      BY <1>2, QueryNames
    <2> QED BY <2>1 DEF NextQuery
  <1> QED BY <1>1, <1>2

(* The version counts the rows. *)
LEMMA Versions ==
  ASSUME TypeOK
  PROVE  /\ Version \in Nat /\ rows.users \in Nat
         /\ rows.encrypted \in Nat /\ rows.public \in Nat
  BY DEF TypeOK, Version

(* What a query finds. *)
LEMMA Finds ==
  ASSUME TypeOK, NEW q, NEW c \in Calc
  PROVE  /\ Found(q, c) \in Calc
         /\ Found(q, c).asOf = c.asOf /\ Found(q, c).query = c.query
         /\ Found(q, c).late = c.late
         /\ Found(q, c).files = IF q = "files" THEN rows.encrypted + rows.public
                                               ELSE c.files
         /\ Found(q, c).encrypted = IF q = "encrypted" THEN rows.encrypted
                                                       ELSE c.encrypted
         /\ Found(q, c).public = IF q = "public" THEN rows.public ELSE c.public
  BY Versions DEF Found, Calc

(* The empty calculation. *)
LEMMA NothingCalculated ==
  /\ NoCalc \in Calc /\ NoCalc.asOf = Zero /\ NoCalc.late = FALSE /\ NoCalc.query = 1
  /\ NoCalc.files = 0 /\ NoCalc.encrypted = 0 /\ NoCalc.public = 0
  /\ Zero \in Times /\ Zero < 0
  BY DEF NoCalc, Calc, Times, Zero

(* A calculation of a version. *)
LEMMA CalcOf ==
  ASSUME NEW v \in Nat, NEW b \in BOOLEAN
  PROVE  LET c == [NoCalc EXCEPT !.asOf = v, !.late = b]
         IN  c \in Calc /\ c.asOf = v /\ c.query = 1 /\ c.late = b
  BY NothingCalculated DEF Calc, Times

(* A calculation that begins. *)
LEMMA Beginning ==
  ASSUME TypeOK, NEW p \in Writers, Begins(p)
  PROVE  /\ calc' \in [Writers -> Calc]
         /\ calc'[p].asOf = Version /\ calc'[p].query = 1
         /\ calc'[p].late <=> pc[Main] = "ended"
         /\ \A q \in Writers \ {p} : calc'[q] = calc[q]
  <1> DEFINE late == pc[Main] = "ended"
             c == [NoCalc EXCEPT !.asOf = Version, !.late = late]
  <1>1. c \in Calc /\ c.asOf = Version /\ c.query = 1 /\ c.late = late
    <2>1. late \in BOOLEAN /\ Version \in Nat
      BY Versions
    <2> HIDE DEF late
    <2> QED BY <2>1, CalcOf
  <1>2. calc \in [Writers -> Calc] /\ calc' = [calc EXCEPT ![p] = c]
    BY DEF Begins, TypeOK, Calc, Times
  <1>3. calc' \in [Writers -> Calc] /\ calc'[p] = c
        /\ \A q \in Writers \ {p} : calc'[q] = calc[q]
    <2> HIDE DEF c
    <2> QED BY <1>1, <1>2
  <1> QED BY <1>1, <1>3

(* A query is the last, leads to the next, or ends the calculation; the statistics
   are never calculated as an empty series.  *)
LEMMA Querying ==
  ASSUME IInv, NEW p \in Writers, Query(p) \/ QueryFails(p)
  PROVE  /\ pc[p] = "query" /\ UNCHANGED <<kind, rows, words, mutex, reader>>
         /\ calc' \in [Writers -> Calc] /\ faults' \in 0..MaxFaults
         /\ \/ Ends(p)
            \/ Empty(p) /\ kind # "statistics"
            \/ /\ calc' = [calc EXCEPT ![p] =
                              [Found(Queries[calc[p].query], calc[p])
                                  EXCEPT !.query = NextQuery(calc[p].query)]]
               /\ pc' = [pc EXCEPT ![p] =
                            IF calc[p].query = Len(Queries) THEN "lock" ELSE "query"]
  <1> DEFINE query == Queries[calc[p].query]
  <1>0. /\ TypeOK /\ calc \in [Writers -> Calc] /\ calc[p] \in Calc
        /\ calc[p].query \in 1..Len(Queries)
    BY DEF IInv, TypeOK, FilesCountedFirst, Calc, Times
  <1>1. kind = "statistics" => query # "dates"
    <2> SUFFICES ASSUME kind = "statistics" PROVE query # "dates"
      OBVIOUS
    <2>1. Len(Queries) = 4
      BY QueryNames
    <2>2. calc[p].query \in {1, 2, 3, 4}
      BY <1>0, <2>1
    <2> QED BY <2>2, QueryNames
  <1>2. CASE Ends(p)
    <2>1. calc' \in [Writers -> Calc]
      BY <1>0, <1>2, NothingCalculated DEF Ends
    <2>2. pc[p] = "query" /\ UNCHANGED <<kind, rows, words, mutex, reader>>
      BY DEF Query, QueryFails
    <2>3. faults' \in 0..MaxFaults
      BY <1>0, ConstantsAssumption DEF Query, QueryFails, TypeOK
    <2> QED BY <1>2, <2>1, <2>2, <2>3
  <1>3. CASE Empty(p) /\ query = "dates"
    <2>1. [calc[p] EXCEPT !.asOf = Zero] \in Calc
      BY <1>0, NothingCalculated DEF Calc
    <2>2. calc' = [calc EXCEPT ![p] = [calc[p] EXCEPT !.asOf = Zero]]
      BY <1>0, <1>3 DEF Empty
    <2>3. calc' \in [Writers -> Calc]
      BY <1>0, <2>1, <2>2
    <2>4. pc[p] = "query" /\ UNCHANGED <<kind, rows, words, mutex, reader>>
      BY DEF Query, QueryFails
    <2>5. faults' \in 0..MaxFaults
      BY <1>0, ConstantsAssumption DEF Query, QueryFails, TypeOK
    <2> QED BY <1>1, <1>3, <2>3, <2>4, <2>5
  <1>4. CASE Query(p) /\ ~Ends(p) /\ ~(Empty(p) /\ query = "dates")
    <2> DEFINE f == Found(query, calc[p])
    <2>1. /\ calc' = [calc EXCEPT ![p] = [f EXCEPT !.query = NextQuery(f.query)]]
          /\ pc' = [pc EXCEPT ![p] =
                        IF calc[p].query = Len(Queries) THEN "lock" ELSE "query"]
          /\ pc[p] = "query" /\ UNCHANGED <<kind, rows, words, mutex, reader, faults>>
      <3>1. ~(query = "totals" /\ rows.users = 0 /\ Ends(p))
        BY <1>4
      <3>2. ~(query = "dates" /\ ~HasDates /\ Empty(p))
        BY <1>4
      <3> QED BY <1>4, <3>1, <3>2 DEF Query
    <2>2. f \in Calc /\ f.query = calc[p].query
      BY <1>0, Finds
    <2>3. NextQuery(f.query) \in 1..4
      BY <1>0, <2>2, NextQueries
    <2>4. [f EXCEPT !.query = NextQuery(f.query)] \in Calc
      BY <2>2, <2>3 DEF Calc
    <2>5. calc' \in [Writers -> Calc]
      BY <1>0, <2>1, <2>4
    <2>6. faults' \in 0..MaxFaults
      BY <1>0, <2>1 DEF TypeOK
    <2> QED BY <2>1, <2>2, <2>5, <2>6
  <1>5. QueryFails(p) => \/ Ends(p)
                         \/ Empty(p) /\ query = "dates"
    BY DEF QueryFails
  <1> QED BY <1>2, <1>3, <1>4, <1>5

(* What publishing remembers of a calculation. *)
LEMMA Results ==
  ASSUME NEW c \in Calc
  PROVE  /\ Result(c) \in Calc /\ Result(c).asOf = c.asOf /\ Result(c).late = c.late
         /\ Result(c).query = 1 /\ Result(c).files = 0
         /\ Result(c).encrypted = 0 /\ Result(c).public = 0
  BY NothingCalculated DEF Result, NoCalc, Calc

(* What is left of a calculation when it has been published. *)
LEMMA Written ==
  ASSUME TypeOK, NEW p \in Writers
  PROVE  /\ AfterWrite(p) \in Calc
         /\ AfterWrite(p) \in {NoCalc, [calc[p] EXCEPT !.published = TRUE]}
         /\ AfterPublish(p) \in {"rawFirst", "begin", "lock"}
         /\ AfterPublish(p) = "rawFirst" => p = Main
  <1>1. calc[p] \in Calc
    BY DEF TypeOK, Calc, Times
  <1>2. [calc[p] EXCEPT !.published = TRUE] \in Calc
    BY <1>1 DEF Calc
  <1> QED BY <1>1, <1>2, NothingCalculated DEF AfterWrite, AfterPublish

(* Every step keeps the types. *)
LEMMA NextTypeOK ==
  ASSUME IInv, [Next]_vars
  PROVE  TypeOK'
  <1>0. /\ TypeOK /\ calc \in [Writers -> Calc]
    BY DEF IInv, TypeOK, Calc, Times
  <1> DEFINE Phases == {"absent", "begin", "query", "lock", "first", "second",
                        "rawFirst", "rawSecond", "ended"}
  <1>1. /\ pc \in [Writers -> Phases] /\ words \in Words /\ reader.words \in Words
        /\ words[1] \in Times /\ words[2] \in Times
    BY <1>0 DEF TypeOK, Words, Times
  <1>2. CASE SignUp \/ Upload
    BY <1>0, <1>2 DEF SignUp, Upload, TypeOK
  <1>3. CASE StartCalculates
    <2>1. calc' \in [Writers -> Calc]
      BY <1>0, <1>3, Beginning, Names DEF StartCalculates
    <2>2. pc' \in [Writers -> Phases]
      BY <1>1, <1>3 DEF StartCalculates
    <2> QED BY <1>0, <1>3, <2>1, <2>2 DEF StartCalculates, TypeOK, Calc, Times
  <1>4. ASSUME NEW p \in Writers, TimerFires(p)
        PROVE  TypeOK'
    <2>1. calc' \in [Writers -> Calc]
      BY <1>0, <1>4, Beginning DEF TimerFires
    <2> QED BY <1>0, <1>4, <2>1 DEF TimerFires, TypeOK, Calc, Times
  <1>5. ASSUME NEW p \in Writers, Query(p) \/ QueryFails(p)
        PROVE  TypeOK'
    <2>1. pc' \in [Writers -> Phases]
      BY <1>1, <1>5, Querying DEF Ends, Empty
    <2> QED BY <1>0, <1>5, <2>1, Querying DEF TypeOK, Calc, Times
  <1>6. ASSUME NEW p \in Writers, Lock(p)
        PROVE  TypeOK'
    <2>1. calc' \in [Writers -> Calc]
      BY <1>0, <1>6, Results DEF Lock
    <2> QED BY <1>0, <1>6, <2>1 DEF Lock, TypeOK, Calc, Times
  <1>7. ASSUME NEW p \in Writers, WriteFirst(p)
        PROVE  TypeOK'
    <2>1. calc[p].asOf \in Times
      BY <1>0 DEF Calc
    <2>2. words' \in Words
      BY <1>1, <1>7, <2>1, OneWord DEF WriteFirst
    <2> QED BY <1>0, <1>7, <2>2 DEF WriteFirst, TypeOK
  <1>8. ASSUME NEW p \in Writers, WriteSecond(p)
        PROVE  TypeOK'
    <2>1. calc[p].asOf \in Times
      BY <1>0 DEF Calc
    <2>2. words' \in Words
      BY <1>1, <1>8, <2>1, OneWord DEF WriteSecond
    <2>3. calc' \in [Writers -> Calc]
      BY <1>0, <1>8, Written DEF WriteSecond
    <2>4. pc' \in [Writers -> Phases]
      BY <1>0, <1>1, <1>8, Written DEF WriteSecond
    <2>5. mutex' \in {Free, mutex}
      BY <1>8 DEF WriteSecond
    <2> QED BY <1>0, <1>8, <2>2, <2>3, <2>4, <2>5 DEF WriteSecond, TypeOK, Calc, Times
  <1>9. CASE Arrives
    <2>1. reader' \in [at : {"idle", "lock", "copy", "first", "second", "answered"},
                       words : Words, settled : BOOLEAN]
      <3>1. <<Zero, Zero>> \in Words
        BY DEF Words
      <3> QED BY <1>9, <3>1 DEF Arrives, NoRequest, Settled
    <2>2. pc' \in [Writers -> Phases]
      BY <1>1, <1>9 DEF Arrives
    <2> QED BY <1>0, <1>9, <2>1, <2>2 DEF Arrives, TypeOK
  <1>10. CASE ReaderLocks
    BY <1>0, <1>10 DEF ReaderLocks, TypeOK
  <1>11. CASE CopiesWeeks
    BY <1>0, <1>11 DEF CopiesWeeks, TypeOK
  <1>12. CASE ReadFirst
    <2>1. [reader.words EXCEPT ![1] = words[1]] \in Words
      BY <1>1, OneWord
    <2> QED BY <1>0, <1>12, <2>1 DEF ReadFirst, TypeOK
  <1>13. CASE ReadSecond
    <2>1. [reader.words EXCEPT ![2] = words[2]] \in Words
      BY <1>1, OneWord
    <2> QED BY <1>0, <1>13, <2>1 DEF ReadSecond, TypeOK
  <1>14. CASE UNCHANGED vars
    BY <1>0, <1>14 DEF vars, TypeOK
  <1> QED BY <1>2, <1>3, <1>4, <1>5, <1>6, <1>7, <1>8, <1>9, <1>10, <1>11, <1>12, <1>13,
             <1>14 DEF Next, Write, Read

(* One goroutine is started, and it writes with the mutex. *)
LEMMA NextOneGoroutine ==
  ASSUME IInv, [Next]_vars
  PROVE  OneGoroutine'
  <1>0. TypeOK /\ OneGoroutine
    BY DEF IInv
  <1>1. ASSUME pc' = pc PROVE OneGoroutine'
    BY <1>0, <1>1 DEF OneGoroutine
  <1>2. ASSUME NEW p \in Writers, pc[p] # "absent", NEW s, pc' = [pc EXCEPT ![p] = s],
               s \in {"rawFirst", "rawSecond"} => p = Main
        PROVE  OneGoroutine'
    BY <1>0, <1>2, Names DEF OneGoroutine, TypeOK
  <1>3. ASSUME NEW p \in Writers, TimerFires(p) \/ Lock(p) \/ WriteFirst(p)
        PROVE  OneGoroutine'
    BY <1>0, <1>2, <1>3 DEF TimerFires, Lock, WriteFirst, OneGoroutine
  <1>4. ASSUME NEW p \in Writers, WriteSecond(p)
        PROVE  OneGoroutine'
    <2>1. /\ pc[p] # "absent"
          /\ \/ pc' = [pc EXCEPT ![p] = "ended"]
             \/ pc' = [pc EXCEPT ![p] = AfterPublish(p)]
      BY <1>4 DEF WriteSecond
    <2> QED BY <1>0, <1>2, <2>1, Written
  <1>5. ASSUME NEW p \in Writers, Query(p) \/ QueryFails(p)
        PROVE  OneGoroutine'
    <2>1. /\ pc[p] # "absent"
          /\ \/ pc' = [pc EXCEPT ![p] = "ended"]
             \/ pc' = [pc EXCEPT ![p] = "lock"]
             \/ pc' = [pc EXCEPT ![p] = "query"]
      <3>1. \/ Ends(p) \/ Empty(p)
            \/ pc' = [pc EXCEPT ![p] =
                         IF calc[p].query = Len(Queries) THEN "lock" ELSE "query"]
        BY <1>5, Querying
      <3> QED BY <1>5, <3>1, Querying DEF Ends, Empty
    <2> QED BY <1>2, <2>1
  <1>6. CASE StartCalculates
    <2>1. \A p \in Writers : pc'[p] \in {"query", "begin", pc[p]}
      BY <1>6 DEF StartCalculates
    <2>2. pc'[<<"job", 2>>] = pc[<<"job", 2>>]
      BY <1>6, Names, StartedOnce DEF StartCalculates
    <2> QED BY <1>0, <2>1, <2>2 DEF OneGoroutine
  <1>7. CASE Arrives
    <2>1. \A p \in Writers : pc'[p] \in {"begin", pc[p]}
      BY <1>7 DEF Arrives
    <2>2. pc'[<<"job", 2>>] = pc[<<"job", 2>>]
      BY <1>7, Names, StartedOnce DEF Arrives
    <2> QED BY <1>0, <2>1, <2>2 DEF OneGoroutine
  <1> QED BY <1>1, <1>3, <1>4, <1>5, <1>6, <1>7
          DEF Next, Write, Read, SignUp, Upload, ReaderLocks, CopiesWeeks, ReadFirst,
              ReadSecond, vars

(* The mutex is with whoever writes or reads under it. *)
LEMMA NextMutexHeld ==
  ASSUME IInv, [Next]_vars
  PROVE  MutexHeld'
  <1>0. TypeOK /\ MutexHeld /\ OneGoroutine
    BY DEF IInv
  <1>1. ASSUME UNCHANGED <<kind, mutex, reader>>,
               \A p \in Writers : pc'[p] \in {"first", "second"} => pc[p] \in {"first", "second"}
        PROVE  MutexHeld'
    BY <1>0, <1>1 DEF MutexHeld
  <1>2. ASSUME NEW p \in Writers, Lock(p)
        PROVE  MutexHeld'
    BY <1>0, <1>2, Names DEF Lock, MutexHeld, TypeOK
  <1>3. ASSUME NEW p \in Writers, WriteFirst(p)
        PROVE  MutexHeld'
    BY <1>0, <1>1, <1>3 DEF WriteFirst, TypeOK
  <1>4. ASSUME NEW p \in Writers, WriteSecond(p)
        PROVE  MutexHeld'
    <2>1. UNCHANGED <<kind, reader>> /\ \A q \in Writers \ {p} : pc'[q] = pc[q]
      BY <1>0, <1>4 DEF WriteSecond, TypeOK
    <2>2. pc'[p] \notin {"first", "second"}
      BY <1>0, <1>4, Written DEF WriteSecond, TypeOK
    <2>3. CASE mutex' = mutex
      BY <1>1, <2>1, <2>2, <2>3
    <2>4. CASE pc[p] = "second"
      <3>1. mutex = p /\ mutex # Reader
        BY <1>0, <2>4, Names DEF MutexHeld
      <3> QED BY <1>0, <2>1, <2>2, <3>1 DEF MutexHeld
    <2> QED BY <1>4, <2>3, <2>4 DEF WriteSecond
  <1>5. ASSUME NEW p \in Writers, Query(p) \/ QueryFails(p)
        PROVE  MutexHeld'
    BY <1>0, <1>1, <1>5, Querying DEF Ends, Empty, TypeOK
  <1>6. ASSUME NEW p \in Writers, TimerFires(p)
        PROVE  MutexHeld'
    BY <1>0, <1>1, <1>6 DEF TimerFires, TypeOK
  <1>7. CASE StartCalculates
    <2>1. \A p \in Writers : pc'[p] \in {"query", "begin", pc[p]}
      BY <1>7 DEF StartCalculates
    <2> QED BY <1>1, <1>7, <2>1 DEF StartCalculates
  <1>8. CASE Arrives
    <2>1. \A p \in Writers : pc'[p] \in {"begin", pc[p]}
      BY <1>8 DEF Arrives
    <2>2. reader'.at = "lock" /\ mutex' = mutex
      BY <1>8 DEF Arrives, NoRequest
    <2> QED BY <1>0, <2>1, <2>2 DEF MutexHeld
  <1>9. CASE ReaderLocks
    <2>1. \A p \in Writers : pc[p] \notin {"first", "second"}
      BY <1>0, <1>9, Names DEF ReaderLocks, MutexHeld
    <2>2. /\ reader'.at = IF kind = "statistics" THEN "first" ELSE "copy"
          /\ mutex' = Reader /\ pc' = pc /\ kind' = kind
      BY <1>0, <1>9 DEF ReaderLocks, TypeOK
    <2> QED BY <2>1, <2>2 DEF MutexHeld
  <1>10. CASE CopiesWeeks
    <2>1. \A p \in Writers : pc[p] \notin {"first", "second"}
      BY <1>0, <1>10, Names DEF CopiesWeeks, MutexHeld
    <2>2. reader'.at = "first" /\ pc' = pc /\ kind' = kind /\ kind # "statistics"
      BY <1>0, <1>10 DEF CopiesWeeks, TypeOK, MutexHeld
    <2> QED BY <2>1, <2>2 DEF MutexHeld
  <1>11. CASE ReadFirst
    <2>1. reader'.at = "second" /\ reader.at = "first" /\ UNCHANGED <<kind, mutex, pc>>
      BY <1>0, <1>11 DEF ReadFirst, TypeOK
    <2> QED BY <1>0, <2>1 DEF MutexHeld
  <1>12. CASE ReadSecond
    <2>1. reader'.at = "answered" /\ UNCHANGED <<kind, pc>>
      BY <1>0, <1>12 DEF ReadSecond, TypeOK
    <2>2. mutex' = mutex \/ \A p \in Writers : pc[p] \notin {"first", "second"}
      BY <1>0, <1>12, Names DEF ReadSecond, MutexHeld
    <2> QED BY <1>0, <2>1, <2>2 DEF MutexHeld
  <1> QED BY <1>1, <1>2, <1>3, <1>4, <1>5, <1>6, <1>7, <1>8, <1>9, <1>10, <1>11, <1>12
          DEF Next, Write, Read, SignUp, Upload, vars

(* Rows only get more. *)
LEMMA RowsGrow ==
  ASSUME IInv, [Next]_vars
  PROVE  /\ rows'.users >= rows.users /\ rows'.encrypted >= rows.encrypted
         /\ rows'.public >= rows.public /\ Version' >= Version /\ kind' = kind
         /\ Version \in Nat /\ Version' \in Nat
  <1>0. TypeOK /\ TypeOK'
    BY NextTypeOK DEF IInv
  <1>1. CASE SignUp
    BY <1>0, <1>1 DEF SignUp, Version, TypeOK
  <1>2. CASE Upload
    BY <1>0, <1>2 DEF Upload, Version, TypeOK
  <1>3. CASE rows' = rows /\ kind' = kind
    BY <1>0, <1>3 DEF Version, TypeOK
  <1> QED BY <1>1, <1>2, <1>3, Querying
          DEF Next, Write, Read, StartCalculates, TimerFires, Lock, WriteFirst,
              WriteSecond, Arrives, ReaderLocks, CopiesWeeks, ReadFirst, ReadSecond, vars

(* What one step does to the calculation of a goroutine: it rests, is forgotten, is
   begun, comes out empty, asks the next query, is locked for, or published. *)
Rests(p) ==
    /\ calc'[p] = calc[p]
    /\ \/ pc'[p] = pc[p] \/ pc'[p] \in {"begin", "rawSecond"}
       \/ pc[p] = "first" /\ pc'[p] = "second"
Forgets(p) == calc'[p] = NoCalc
BeginsNow(p) == Begins(p) /\ pc'[p] = "query" /\ words' = words
FindsNone(p) == kind # "statistics" /\ calc'[p] = [calc[p] EXCEPT !.asOf = Zero]
Asks(p) ==
    /\ pc[p] = "query"
    /\ calc'[p] = [Found(Queries[calc[p].query], calc[p])
                      EXCEPT !.query = NextQuery(calc[p].query)]
    /\ pc'[p] = IF calc[p].query = Len(Queries) THEN "lock" ELSE "query"
Locks(p) == calc'[p] = Result(calc[p]) /\ pc'[p] = "first"
Publishes(p) ==
    /\ calc'[p] = [calc[p] EXCEPT !.published = TRUE]
    /\ \/ pc[p] = "second" /\ pc'[p] \in {"rawFirst", "lock", "begin"}
       \/ pc[p] = "rawSecond" /\ pc'[p] = "ended"

CalcStep(p) == \/ Rests(p) \/ Forgets(p) \/ BeginsNow(p) \/ FindsNone(p)
               \/ Asks(p) \/ Locks(p) \/ Publishes(p)

(* Calculations make these steps. *)
LEMMA CalcSteps ==
  ASSUME IInv, [Next]_vars, NEW p \in Writers
  PROVE  CalcStep(p)
  <1>0. TypeOK /\ calc \in [Writers -> Calc]
    BY DEF IInv, TypeOK, Calc, Times
  <1>1. CASE calc' = calc /\ pc' = pc
    BY <1>1 DEF CalcStep, Rests
  <1>2. ASSUME NEW q \in Writers, Query(q) \/ QueryFails(q)
        PROVE  CalcStep(p)
    <2>1. CASE p = q
      <3>1. CASE Ends(q)
        BY <1>0, <2>1, <3>1 DEF Ends, CalcStep, Forgets
      <3>2. CASE Empty(q) /\ kind # "statistics"
        <4>1. calc' = [calc EXCEPT ![q] = [calc[q] EXCEPT !.asOf = Zero]]
          BY <1>0, <3>2 DEF Empty
        <4> QED BY <1>0, <2>1, <3>2, <4>1 DEF CalcStep, FindsNone
      <3>3. CASE /\ calc' = [calc EXCEPT ![q] =
                                [Found(Queries[calc[q].query], calc[q])
                                    EXCEPT !.query = NextQuery(calc[q].query)]]
                 /\ pc' = [pc EXCEPT ![q] =
                              IF calc[q].query = Len(Queries) THEN "lock" ELSE "query"]
        <4>1. pc[q] = "query" /\ q \in DOMAIN pc /\ q \in DOMAIN calc
          BY <1>0, <1>2, Querying DEF TypeOK
        <4> DEFINE f == [Found(Queries[calc[q].query], calc[q])
                            EXCEPT !.query = NextQuery(calc[q].query)]
                   s == IF calc[q].query = Len(Queries) THEN "lock" ELSE "query"
        <4>2. calc' = [calc EXCEPT ![q] = f] /\ pc' = [pc EXCEPT ![q] = s]
          BY <3>3
        <4>3. calc'[q] = f /\ pc'[q] = s
          <5> HIDE DEF f, s
          <5> QED BY <4>1, <4>2
        <4> QED BY <2>1, <4>1, <4>3 DEF CalcStep, Asks
      <3> QED BY <1>2, <3>1, <3>2, <3>3, Querying
    <2>2. CASE p # q
      <3>1. calc'[p] = calc[p] /\ pc'[p] = pc[p]
        <4>1. /\ \E c : calc' = [calc EXCEPT ![q] = c]
              /\ \E s : pc' = [pc EXCEPT ![q] = s]
          BY <1>2, Querying DEF Ends, Empty
        <4> QED BY <1>0, <2>2, <4>1 DEF TypeOK
      <3> QED BY <3>1 DEF CalcStep, Rests
    <2> QED BY <2>1, <2>2
  <1>3. CASE StartCalculates
    <2>1. CASE p = Main
      <3>1. Begins(p) /\ words' = words /\ pc'[p] = "query"
        BY <1>0, <1>3, <2>1, Names, StartedOnce DEF StartCalculates
      <3> QED BY <3>1 DEF CalcStep, BeginsNow
    <2>2. CASE p # Main
      <3>1. pc'[p] \in {"begin", pc[p]} /\ calc'[p] = calc[p]
        BY <1>0, <1>3, <2>2 DEF StartCalculates, Begins
      <3> QED BY <3>1 DEF CalcStep, Rests
    <2> QED BY <2>1, <2>2
  <1>4. ASSUME NEW q \in Writers, TimerFires(q)
        PROVE  CalcStep(p)
    BY <1>0, <1>4 DEF TimerFires, Begins, TypeOK, CalcStep, BeginsNow, Rests
  <1>5. ASSUME NEW q \in Writers, Lock(q)
        PROVE  CalcStep(p)
    BY <1>0, <1>5 DEF Lock, TypeOK, CalcStep, Locks, Rests
  <1>6. ASSUME NEW q \in Writers, WriteFirst(q)
        PROVE  CalcStep(p)
    BY <1>0, <1>6 DEF WriteFirst, TypeOK, CalcStep, Rests
  <1>7. ASSUME NEW q \in Writers, WriteSecond(q)
        PROVE  CalcStep(p)
    <2>1. CASE p = q
      <3>1. /\ calc'[p] = AfterWrite(p)
            /\ \/ pc[p] = "second" /\ pc'[p] = AfterPublish(p)
               \/ pc[p] = "rawSecond" /\ pc'[p] = "ended"
        BY <1>0, <1>7, <2>1 DEF WriteSecond, TypeOK
      <3> QED BY <1>0, <3>1, Written DEF CalcStep, Forgets, Publishes
    <2>2. CASE p # q
      BY <1>0, <1>7, <2>2 DEF WriteSecond, TypeOK, CalcStep, Rests
    <2> QED BY <2>1, <2>2
  <1>8. CASE Arrives
    <2>1. pc'[p] \in {"begin", pc[p]} /\ calc'[p] = calc[p]
      BY <1>8 DEF Arrives
    <2> QED BY <2>1 DEF CalcStep, Rests
  <1>9. ASSUME SignUp \/ Upload \/ ReaderLocks \/ Read \/ UNCHANGED vars
        PROVE  calc' = calc /\ pc' = pc
    BY <1>9 DEF Read, SignUp, Upload, ReaderLocks, CopiesWeeks, ReadFirst, ReadSecond, vars
  <1> QED BY <1>1, <1>2, <1>3, <1>4, <1>5, <1>6, <1>7, <1>8, <1>9 DEF Next, Write

(* A split stays one when more files come. *)
LEMMA NextFiles ==
  ASSUME IInv, [Next]_vars
  PROVE  FilesCountedFirst' /\ FilesWithinSplit'
  <1>0. /\ TypeOK /\ TypeOK' /\ FilesCountedFirst /\ FilesWithinSplit
        /\ calc \in [Writers -> Calc] /\ calc' \in [Writers -> Calc]
    BY NextTypeOK DEF IInv, TypeOK, Calc, Times
  <1>1. kind' = kind /\ Queries' = Queries
    BY RowsGrow DEF Queries
  <1>2. /\ rows.encrypted \in Nat /\ rows.public \in Nat
        /\ rows'.encrypted \in Nat /\ rows'.public \in Nat
        /\ rows'.encrypted >= rows.encrypted /\ rows'.public >= rows.public
    BY <1>0, RowsGrow DEF TypeOK
  <1> DEFINE Kept(p) ==
               /\ calc'[p].query \in 1..Len(Queries)
               /\ kind = "statistics" /\ pc'[p] = "query" => Split(calc[p])'
               /\ kind = "statistics" /\ pc'[p] \in {"lock", "first", "second"} =>
                     calc'[p].files <= calc'[p].encrypted + calc'[p].public
  <1>3. SUFFICES ASSUME NEW p \in Writers PROVE Kept(p)
    BY <1>1 DEF FilesCountedFirst, FilesWithinSplit
  <1> DEFINE c == calc[p]
             d == calc'[p]
  <1>4. /\ c \in Calc /\ d \in Calc /\ c.query \in 1..Len(Queries) /\ 1 \in 1..Len(Queries)
        /\ kind = "statistics" /\ pc[p] = "query" => Split(c)
        /\ kind = "statistics" /\ pc[p] \in {"lock", "first", "second"} =>
              c.files <= c.encrypted + c.public
    BY <1>0, QueryNames DEF FilesCountedFirst, FilesWithinSplit
  <1>5. /\ c.files \in Nat /\ c.encrypted \in Nat /\ c.public \in Nat
        /\ d.files \in Nat /\ d.encrypted \in Nat /\ d.public \in Nat
    BY <1>4 DEF Calc
  <1>6. CASE Rests(p)
    <2>1. d = c
      BY <1>6 DEF Rests
    <2>2. pc'[p] = "query" => pc[p] = "query"
      BY <1>6 DEF Rests
    <2>3. pc'[p] \in {"lock", "first", "second"} => pc[p] \in {"lock", "first", "second"}
      BY <1>6 DEF Rests
    <2>4. Split(c) => Split(calc[p])'
      BY <1>2, <1>5, <2>1 DEF Split
    <2> QED BY <1>4, <2>1, <2>2, <2>3, <2>4
  <1>7. CASE Forgets(p)
    <2>1. d.query = 1 /\ d.files = 0 /\ d.encrypted = 0 /\ d.public = 0
      BY <1>7, NothingCalculated DEF Forgets
    <2> QED BY <1>4, <2>1 DEF Split
  <1>8. CASE BeginsNow(p)
    <2>1. d.query = 1 /\ pc'[p] = "query"
      BY <1>0, <1>8, Beginning DEF BeginsNow
    <2> QED BY <1>4, <2>1 DEF Split
  <1>9. CASE FindsNone(p)
    BY <1>4, <1>9 DEF Calc, FindsNone
  <1>10. CASE Asks(p)
    <2> DEFINE q == Queries[c.query]
    <2>0. /\ pc[p] = "query"
          /\ d = [Found(q, c) EXCEPT !.query = NextQuery(c.query)]
          /\ pc'[p] = IF c.query = Len(Queries) THEN "lock" ELSE "query"
      BY <1>10 DEF Asks
    <2>1. /\ d.query = NextQuery(c.query)
          /\ d.files = IF q = "files" THEN rows.encrypted + rows.public ELSE c.files
          /\ d.encrypted = IF q = "encrypted" THEN rows.encrypted ELSE c.encrypted
          /\ d.public = IF q = "public" THEN rows.public ELSE c.public
      BY <1>0, <1>4, <2>0, Finds DEF Calc
    <2>2. d.query \in 1..Len(Queries)
      BY <1>4, <2>1, NextQueries
    <2>3. ASSUME kind = "statistics"
          PROVE  /\ pc'[p] = "query" => Split(calc[p])'
                 /\ pc'[p] \in {"lock", "first", "second"} =>
                              d.files <= d.encrypted + d.public
      <3>1. /\ Len(Queries) = 4 /\ c.query \in {1, 2, 3, 4}
            /\ Queries[1] = "totals" /\ Queries[2] = "files"
            /\ Queries[3] = "encrypted" /\ Queries[4] = "public"
        <4>1. Len(Queries) = 4
          BY <2>3, QueryNames
        <4>2. c.query \in {1, 2, 3, 4}
          BY <1>4, <4>1
        <4> QED BY <2>3, <4>1, <4>2, QueryNames
      <3>2. Split(c)
        BY <1>4, <2>0, <2>3
      <3>3. CASE c.query = 1
        <4>1. d.query = 2 /\ pc'[p] = "query"
          BY <2>0, <2>1, <3>1, <3>3 DEF NextQuery
        <4> QED BY <4>1 DEF Split
      <3>4. CASE c.query = 2
        <4>1. d.query = 3 /\ pc'[p] = "query" /\ d.files = rows.encrypted + rows.public
          BY <2>0, <2>1, <3>1, <3>4 DEF NextQuery
        <4> QED BY <1>2, <4>1 DEF Split
      <3>5. CASE c.query = 3
        <4>1. /\ d.query = 4 /\ pc'[p] = "query" /\ d.files = c.files
              /\ d.encrypted = rows.encrypted
          BY <2>0, <2>1, <3>1, <3>5 DEF NextQuery
        <4>2. c.files <= rows.encrypted + rows.public
          BY <3>2, <3>5 DEF Split
        <4> QED BY <1>2, <1>5, <4>1, <4>2 DEF Split
      <3>6. CASE c.query = 4
        <4>1. /\ pc'[p] = "lock" /\ d.files = c.files
              /\ d.encrypted = c.encrypted /\ d.public = rows.public
          BY <2>0, <2>1, <3>1, <3>6
        <4>2. c.files <= c.encrypted + rows.public
          BY <3>2, <3>6 DEF Split
        <4> QED BY <4>1, <4>2
      <3> QED BY <3>1, <3>3, <3>4, <3>5, <3>6
    <2> QED BY <2>2, <2>3
  <1>11. CASE Locks(p)
    <2>1. /\ d.query = 1 /\ d.files = 0 /\ d.encrypted = 0 /\ d.public = 0
          /\ pc'[p] = "first"
      BY <1>4, <1>11, Results DEF Locks
    <2> QED BY <1>4, <2>1
  <1>12. CASE Publishes(p)
    <2>1. /\ d.query = c.query /\ d.files = c.files
          /\ d.encrypted = c.encrypted /\ d.public = c.public
      BY <1>4, <1>12 DEF Calc, Publishes
    <2> QED BY <1>4, <1>12, <2>1 DEF Publishes
  <1> HIDE DEF Kept
  <1> QED BY <1>6, <1>7, <1>8, <1>9, <1>10, <1>11, <1>12, CalcSteps DEF CalcStep

(* The words are written by the start of the server until it ends, and by the one
   goroutine. *)
LEMMA WordSteps ==
  ASSUME IInv, [Next]_vars
  PROVE  \/ words' = words
         \/ \E p \in {Main, TheJob} :
               /\ WriteFirst(p) \/ WriteSecond(p)
               /\ pc[p] # "ended"
  <1>1. ASSUME NEW p \in Writers, WriteFirst(p) \/ WriteSecond(p)
        PROVE  p \in {Main, TheJob} /\ pc[p] # "ended"
    <2>1. pc[p] # "absent" /\ pc[p] # "ended"
      BY <1>1 DEF WriteFirst, WriteSecond
    <2> QED BY <2>1, Names DEF IInv, OneGoroutine
  <1> QED BY <1>1, Querying
          DEF Next, Write, Read, SignUp, Upload, StartCalculates, TimerFires, Lock,
              Arrives, ReaderLocks, CopiesWeeks, ReadFirst, ReadSecond, vars

(* What a write leaves. *)
LEMMA Writes ==
  ASSUME IInv, NEW p \in Writers
  PROVE  /\ words[1] \in Times /\ words[2] \in Times /\ calc[p].asOf \in Times
         /\ WriteFirst(p) => /\ words'[1] = calc[p].asOf /\ words'[2] = words[2]
                             /\ calc' = calc
         /\ WriteSecond(p) => /\ words'[2] = calc[p].asOf /\ words'[1] = words[1]
                              /\ calc'[p] = AfterWrite(p)
  <1>1. TypeOK /\ words \in Words /\ calc \in [Writers -> Calc]
    BY DEF IInv, TypeOK, Calc, Times
  <1>2. words[1] \in Times /\ words[2] \in Times /\ calc[p].asOf \in Times
    BY <1>1 DEF Words, Times, Calc
  <1>3. WriteFirst(p) => words'[1] = calc[p].asOf /\ words'[2] = words[2] /\ calc' = calc
    <2> DEFINE w == [words EXCEPT ![1] = calc[p].asOf]
    <2>1. w[1] = calc[p].asOf /\ w[2] = words[2]
      BY <1>1, <1>2, OneWord
    <2>2. WriteFirst(p) => words' = w /\ calc' = calc
      BY DEF WriteFirst
    <2> HIDE DEF w
    <2> QED BY <2>1, <2>2
  <1>4. WriteSecond(p) => words'[2] = calc[p].asOf /\ words'[1] = words[1]
    <2> DEFINE w == [words EXCEPT ![2] = calc[p].asOf]
    <2>1. w[2] = calc[p].asOf /\ w[1] = words[1]
      BY <1>1, <1>2, OneWord
    <2>2. WriteSecond(p) => words' = w
      BY DEF WriteSecond
    <2> HIDE DEF w
    <2> QED BY <2>1, <2>2
  <1>5. WriteSecond(p) => calc'[p] = AfterWrite(p)
    BY <1>1 DEF WriteSecond
  <1> QED BY <1>2, <1>3, <1>4, <1>5

(* The start of the server ends once. *)
LEMMA MainEnds ==
  ASSUME IInv, [Next]_vars, pc[Main] = "ended"
  PROVE  pc'[Main] = "ended"
  <1>0. TypeOK /\ Main \in Writers /\ Main \notin Started
    BY Names, StartedOnce DEF IInv
  <1>1. ASSUME NEW p \in Writers, TimerFires(p) \/ Write(p) \/ Lock(p) \/ QueryFails(p)
        PROVE  pc'[Main] = "ended"
    <2>1. pc[p] # "ended"
      BY <1>1, Querying DEF TimerFires, Write, WriteFirst, WriteSecond, Lock
    <2>2. \E s : pc' = [pc EXCEPT ![p] = s]
      <3>1. CASE Query(p) \/ QueryFails(p)
        BY <3>1, Querying DEF Ends, Empty
      <3> QED BY <1>1, <3>1 DEF TimerFires, Write, WriteFirst, WriteSecond, Lock
    <2> QED BY <1>0, <2>1, <2>2 DEF TypeOK
  <1>2. ~StartCalculates
    BY DEF StartCalculates
  <1>3. Arrives => pc'[Main] = "ended"
    BY <1>0 DEF Arrives
  <1> QED BY <1>1, <1>2, <1>3
          DEF Next, Read, SignUp, Upload, ReaderLocks, CopiesWeeks, ReadFirst,
              ReadSecond, vars

(* Nothing of a later time than now is published. *)
LEMMA NextNotAhead ==
  ASSUME IInv, [Next]_vars
  PROVE  NotAhead'
  <1>0. /\ TypeOK /\ NotAhead /\ calc \in [Writers -> Calc]
        /\ Version \in Nat /\ Version' \in Nat /\ Version' >= Version
    BY RowsGrow DEF IInv, TypeOK, Calc, Times
  <1>1. ASSUME NEW p \in Writers
        PROVE  calc'[p].asOf <= Version'
    <2>1. calc[p] \in Calc /\ calc[p].asOf \in Int /\ calc[p].asOf <= Version
      BY <1>0 DEF Calc, Times, Zero, NotAhead
    <2>2. calc'[p].asOf \in {calc[p].asOf, Zero, Version}
      <3>1. Begins(p) => calc'[p].asOf = Version
        BY <1>0, Beginning
      <3>2. NoCalc.asOf = Zero
        BY NothingCalculated
      <3>3. [calc[p] EXCEPT !.asOf = Zero].asOf = Zero
            /\ [calc[p] EXCEPT !.published = TRUE].asOf = calc[p].asOf
        BY <2>1 DEF Calc
      <3>4. [Found(Queries[calc[p].query], calc[p])
                EXCEPT !.query = NextQuery(calc[p].query)].asOf = calc[p].asOf
        BY <1>0, <2>1, Finds DEF Calc
      <3>5. Result(calc[p]).asOf = calc[p].asOf
        BY <2>1, Results
      <3> QED BY <3>1, <3>2, <3>3, <3>4, <3>5, CalcSteps
          DEF CalcStep, Rests, Forgets, BeginsNow, FindsNone,
              Asks, Locks, Publishes
    <2> QED BY <1>0, <2>1, <2>2, NothingCalculated DEF Zero
  <1>2. ASSUME NEW i \in {1, 2} PROVE words'[i] <= Version'
    <2>1. words[i] \in Int /\ words[i] <= Version
      BY <1>0, <1>2, Writes, Names DEF Times, Zero, NotAhead
    <2>2. CASE words' = words
      BY <1>0, <2>1, <2>2
    <2>3. ASSUME NEW p \in {Main, TheJob}, WriteFirst(p) \/ WriteSecond(p)
          PROVE  words'[i] <= Version'
      <3>1. p \in Writers
        BY Names
      <3>2. words'[i] \in {words[i], calc[p].asOf}
        BY <2>3, <3>1, Writes
      <3>3. calc[p].asOf \in Int /\ calc[p].asOf <= Version
        BY <1>0, <3>1, Writes DEF NotAhead, Times, Zero
      <3> QED BY <1>0, <2>1, <3>2, <3>3
    <2> QED BY <2>2, <2>3, WordSteps
  <1> QED BY <1>1, <1>2 DEF NotAhead

(* The goroutine of a server that has started is ahead of what is published. *)
LEMMA NextLateIsNewer ==
  ASSUME IInv, [Next]_vars
  PROVE  LateIsNewer'
  <1>0. /\ TypeOK /\ NotAhead /\ LateIsNewer /\ calc \in [Writers -> Calc]
        /\ TheJob \in Writers /\ TheJob # Main /\ kind' = kind /\ calc[TheJob] \in Calc
    BY RowsGrow, Names DEF IInv, TypeOK, Calc, Times
  <1> SUFFICES ASSUME calc'[TheJob].late
               PROVE  /\ pc'[Main] = "ended"
                      /\ kind = "statistics" => /\ calc'[TheJob].asOf >= words'[1]
                                                /\ calc'[TheJob].asOf >= words'[2]
    BY <1>0 DEF LateIsNewer
  <1> DEFINE c == calc[TheJob]
             d == calc'[TheJob]
  <1>1. /\ d # NoCalc /\ Version \in Int /\ words[1] \in Int /\ words[2] \in Int
        /\ c.asOf \in Int
    BY <1>0, NothingCalculated, Versions, Writes DEF Times, Zero
  <1>2. CASE Begins(TheJob) /\ words' = words
    <2>1. d.asOf = Version /\ pc[Main] = "ended"
      BY <1>0, <1>2, Beginning
    <2> QED BY <1>0, <1>1, <1>2, <2>1, MainEnds DEF NotAhead
  <1>3. CASE d.late = c.late /\ (kind = "statistics" => d.asOf = c.asOf)
    <2>1. pc[Main] = "ended" /\ pc'[Main] = "ended"
      BY <1>0, <1>3, MainEnds DEF LateIsNewer
    <2>2. ASSUME NEW i \in {1, 2} PROVE words'[i] \in {words[i], c.asOf}
      <3>1. CASE words' = words
        BY <3>1
      <3>2. CASE WriteFirst(TheJob) \/ WriteSecond(TheJob)
        BY <1>0, <3>2, Writes
      <3> QED BY <2>1, <3>1, <3>2, WordSteps
    <2>3. kind = "statistics" => c.asOf >= words[1] /\ c.asOf >= words[2]
      BY <1>0, <1>3 DEF LateIsNewer
    <2>4. kind = "statistics" => c.asOf >= words'[1] /\ c.asOf >= words'[2]
      BY <1>1, <2>2, <2>3
    <2> QED BY <1>3, <2>1, <2>4
  <1>4. \/ Begins(TheJob) /\ words' = words
        \/ d.late = c.late /\ (kind = "statistics" => d.asOf = c.asOf)
    <2>1. /\ [c EXCEPT !.asOf = Zero].late = c.late
          /\ [c EXCEPT !.published = TRUE].late = c.late
          /\ [c EXCEPT !.published = TRUE].asOf = c.asOf
      BY <1>0 DEF Calc
    <2>2. LET f == [Found(Queries[c.query], c) EXCEPT !.query = NextQuery(c.query)]
          IN  f.late = c.late /\ f.asOf = c.asOf
      BY <1>0, Finds DEF Calc
    <2>3. Result(c).late = c.late /\ Result(c).asOf = c.asOf
      BY <1>0, Results
    <2> QED BY <1>0, <1>1, <2>1, <2>2, <2>3, CalcSteps
        DEF CalcStep, Rests, Forgets, BeginsNow, FindsNone,
            Asks, Locks, Publishes
  <1> QED BY <1>2, <1>3, <1>4

(* A reader that came when the start of the server was over. *)
LEMMA NextReader ==
  ASSUME IInv, [Next]_vars
  PROVE  SettledWords' /\ ReaderSees' /\ AnswersAreWhole'
  <1>0. /\ TypeOK /\ SettledWords /\ ReaderSees /\ AnswersAreWhole /\ MutexHeld
        /\ OneGoroutine /\ TheJob \in Writers /\ Main \in Writers /\ TheJob # Main
        /\ kind' = kind
    BY RowsGrow, Names DEF IInv
  <1>1. ASSUME reader' = reader, words' = words,
               reader.settled => pc'[Main] = "ended",
               \/ pc'[TheJob] = pc[TheJob] /\ calc'[TheJob] = calc[TheJob]
               \/ pc[TheJob] # "second" /\ pc'[TheJob] # "second"
        PROVE  SettledWords' /\ ReaderSees' /\ AnswersAreWhole'
    BY <1>0, <1>1 DEF SettledWords, ReaderSees, AnswersAreWhole
  <1>2. ASSUME pc' = pc, words' = words, calc' = calc, reader'.settled = reader.settled
        PROVE  SettledWords'
    BY <1>0, <1>2 DEF SettledWords
  <1>3. ASSUME NEW p \in Writers, WriteFirst(p) \/ WriteSecond(p)
        PROVE  SettledWords' /\ ReaderSees' /\ AnswersAreWhole'
    <2>1. reader' = reader /\ AnswersAreWhole'
      BY <1>0, <1>3 DEF WriteFirst, WriteSecond, AnswersAreWhole
    <2>2. CASE ~reader.settled
      BY <1>0, <2>1, <2>2 DEF SettledWords, ReaderSees
    <2>3. CASE reader.settled
      <3>1. pc[Main] = "ended" /\ pc'[Main] = "ended"
        BY <1>0, <2>3, MainEnds DEF SettledWords
      <3>2. p = TheJob /\ pc[p] \in {"first", "second"} /\ mutex = p
        <4>1. pc[p] \in {"first", "second", "rawFirst", "rawSecond"}
          BY <1>3 DEF WriteFirst, WriteSecond
        <4> QED BY <1>0, <3>1, <4>1, Names DEF OneGoroutine, MutexHeld
      <3>3. ~(kind = "statistics" /\ reader.at = "second")
        BY <1>0, <3>2, Names DEF MutexHeld
      <3>4. CASE WriteFirst(p)
        <4>1. /\ pc'[p] = "second" /\ calc' = calc /\ words'[1] = calc[p].asOf
          BY <1>0, <3>2, <3>4, Writes DEF WriteFirst, TypeOK
        <4> QED BY <1>0, <2>1, <3>1, <3>2, <3>3, <4>1 DEF SettledWords, ReaderSees
      <3>5. CASE WriteSecond(p)
        <4>1. /\ words'[2] = calc[p].asOf /\ words'[1] = words[1]
              /\ pc'[p] # "second" /\ pc[p] = "second"
          <5>1. pc[p] = "second" /\ pc'[p] = AfterPublish(p)
            BY <1>0, <3>2, <3>5 DEF WriteSecond, TypeOK
          <5> QED BY <1>0, <3>5, <5>1, Writes, Written
        <4>2. words[1] = calc[p].asOf
          BY <1>0, <2>3, <3>2, <4>1 DEF SettledWords
        <4> QED BY <1>0, <2>1, <3>1, <3>2, <3>3, <4>1, <4>2 DEF SettledWords, ReaderSees
      <3> QED BY <1>3, <3>4, <3>5
    <2> QED BY <2>2, <2>3
  <1>4. ASSUME NEW p \in Writers, Query(p) \/ QueryFails(p) \/ TimerFires(p) \/ Lock(p)
        PROVE  SettledWords' /\ ReaderSees' /\ AnswersAreWhole'
    <2>1. reader' = reader /\ words' = words /\ pc[p] \notin {"second", "ended"}
      BY <1>4, Querying DEF TimerFires, Lock
    <2>2. reader.settled => pc'[Main] = "ended"
      BY <1>0, MainEnds DEF SettledWords
    <2>3. \E s : pc' = [pc EXCEPT ![p] = s] /\ s # "second"
      <3>1. CASE Query(p) \/ QueryFails(p)
        BY <3>1, Querying DEF Ends, Empty
      <3> QED BY <1>4, <3>1 DEF TimerFires, Lock
    <2>4. \E c : calc' = [calc EXCEPT ![p] = c]
      <3>1. CASE Query(p) \/ QueryFails(p)
        BY <3>1, Querying DEF Ends, Empty
      <3> QED BY <1>4, <3>1 DEF TimerFires, Lock, Begins
    <2>5. \/ pc'[TheJob] = pc[TheJob] /\ calc'[TheJob] = calc[TheJob]
          \/ pc[TheJob] # "second" /\ pc'[TheJob] # "second"
      <3>1. CASE p = TheJob
        BY <1>0, <2>1, <2>3, <3>1 DEF TypeOK
      <3>2. CASE p # TheJob
        BY <1>0, <2>3, <2>4, <3>2 DEF TypeOK
      <3> QED BY <3>1, <3>2
    <2> QED BY <1>1, <2>1, <2>2, <2>5
  <1>5. CASE StartCalculates
    <2>1. ~reader.settled /\ reader' = reader
      BY <1>0, <1>5 DEF StartCalculates, SettledWords
    <2> QED BY <1>0, <2>1 DEF SettledWords, ReaderSees, AnswersAreWhole
  <1>6. CASE Arrives
    <2>1. reader'.at = "lock" /\ reader'.settled = Settled /\ words' = words
      BY <1>6 DEF Arrives, NoRequest
    <2>2. Settled => /\ pc'[Main] = "ended" /\ words[1] = words[2]
                     /\ pc'[TheJob] # "second"
      BY <1>0, <1>6, Names, StartedOnce DEF Settled, Arrives
    <2> QED BY <2>1, <2>2 DEF SettledWords, ReaderSees, AnswersAreWhole
  <1>7. CASE ReaderLocks \/ CopiesWeeks
    <2>1. /\ pc' = pc /\ words' = words /\ calc' = calc
          /\ reader'.settled = reader.settled /\ reader'.at \in {"first", "copy"}
      BY <1>0, <1>7 DEF ReaderLocks, CopiesWeeks, TypeOK
    <2> QED BY <1>2, <2>1 DEF ReaderSees, AnswersAreWhole
  <1>8. CASE ReadFirst
    <2> DEFINE w == [reader.words EXCEPT ![1] = words[1]]
    <2>1. w[1] = words[1]
      <3>1. words[1] \in Times /\ reader.words \in Words
        BY <1>0, Writes DEF TypeOK
      <3> QED BY <3>1, OneWord
    <2>2. /\ pc' = pc /\ words' = words /\ calc' = calc
          /\ reader'.settled = reader.settled /\ reader'.at = "second"
          /\ reader'.words = w
      BY <1>0, <1>8 DEF ReadFirst, TypeOK
    <2> HIDE DEF w
    <2> QED BY <1>2, <2>1, <2>2 DEF ReaderSees, AnswersAreWhole
  <1>9. CASE ReadSecond
    <2> DEFINE w == [reader.words EXCEPT ![2] = words[2]]
    <2>1. w[2] = words[2] /\ w[1] = reader.words[1]
      <3>1. words[2] \in Times /\ reader.words \in Words
        BY <1>0, Writes DEF TypeOK
      <3> QED BY <3>1, OneWord
    <2>2. /\ pc' = pc /\ words' = words /\ calc' = calc /\ reader.at = "second"
          /\ reader'.settled = reader.settled /\ reader'.at = "answered"
          /\ reader'.words = w
      BY <1>0, <1>9 DEF ReadSecond, TypeOK
    <2>3. ASSUME kind = "statistics", reader.settled PROVE w[1] = w[2]
      <3>1. reader.words[1] = words[1] /\ mutex = Reader
        BY <1>0, <2>2, <2>3 DEF ReaderSees, MutexHeld
      <3>2. pc[TheJob] # "second"
        BY <1>0, <3>1, Names DEF MutexHeld
      <3> QED BY <1>0, <2>1, <2>3, <3>1, <3>2 DEF SettledWords
    <2> HIDE DEF w
    <2> QED BY <1>0, <1>2, <2>2, <2>3 DEF ReaderSees, AnswersAreWhole
  <1>10. CASE SignUp \/ Upload \/ UNCHANGED vars
    <2>1. reader' = reader /\ words' = words /\ pc' = pc /\ calc' = calc
      BY <1>10 DEF SignUp, Upload, vars
    <2> QED BY <1>0, <1>1, <2>1 DEF SettledWords
  <1> QED BY <1>3, <1>4, <1>5, <1>6, <1>7, <1>8, <1>9, <1>10 DEF Next, Write, Read

(* The server starts without figures. *)
LEMMA InitIInv == Init => IInv
  <1> SUFFICES ASSUME Init PROVE IInv
    OBVIOUS
  <1>1. /\ kind \in Kinds /\ words = <<Zero, Zero>> /\ mutex = Free
        /\ pc = [p \in Writers |-> IF p = Main THEN "begin" ELSE "absent"]
        /\ calc = [p \in Writers |-> NoCalc]
        /\ reader = NoRequest /\ faults = 0
        /\ rows = [users |-> IF Inhabited THEN 1 ELSE 0, encrypted |-> 0, public |-> 0]
    BY DEF Init
  <1>2. words \in Words /\ words[1] = Zero /\ words[2] = Zero
    BY <1>1 DEF Words
  <1>3. reader.at = "idle" /\ reader.settled = FALSE /\ reader.words \in Words
    BY <1>1, <1>2 DEF NoRequest
  <1>4. rows \in [users : Nat, encrypted : Nat, public : Nat]
    BY <1>1
  <1>5. calc \in [Writers -> Calc] /\ \A p \in Writers : calc[p] = NoCalc
    BY <1>1, NothingCalculated
  <1>6. reader \in [at : {"idle", "lock", "copy", "first", "second", "answered"},
                    words : Words, settled : BOOLEAN]
    BY <1>1, <1>2 DEF NoRequest
  <1>7. TypeOK
    BY <1>1, <1>2, <1>4, <1>5, <1>6, ConstantsAssumption DEF TypeOK, Calc, Times
  <1>8. \A p \in Writers : pc[p] = IF p = Main THEN "begin" ELSE "absent"
    BY <1>1
  <1>9. OneGoroutine /\ MutexHeld
    BY <1>3, <1>8, Names DEF OneGoroutine, MutexHeld
  <1>10. FilesCountedFirst /\ FilesWithinSplit
    <2>1. 1 \in 1..Len(Queries)
      BY QueryNames
    <2> QED BY <1>5, <1>8, <2>1, NothingCalculated DEF FilesCountedFirst, FilesWithinSplit
  <1>11. SettledWords /\ ReaderSees /\ AnswersAreWhole
    BY <1>3 DEF SettledWords, ReaderSees, AnswersAreWhole
  <1>12. NotAhead
    <2>1. Version \in Nat
      BY <1>7, Versions
    <2> QED BY <1>2, <1>5, <2>1, NothingCalculated DEF NotAhead, Zero
  <1>13. LateIsNewer
    BY <1>5, Names, NothingCalculated DEF LateIsNewer
  <1> QED BY <1>7, <1>9, <1>10, <1>11, <1>12, <1>13 DEF IInv

(* The inductive invariant. *)
LEMMA AlwaysIInv == Spec => []IInv
  <1>1. IInv /\ [Next]_vars => IInv'
    BY NextTypeOK, NextOneGoroutine, NextMutexHeld, NextFiles, NextReader, NextNotAhead,
       NextLateIsNewer DEF IInv
  <1> QED BY InitIInv, <1>1, PTL DEF Spec

-----------------------------------------------------------------------------
(* A reader of the statistics gets figures of one time, although the start of the
   server writes without the mutex, and figures that fit each other, although each
   is counted at another moment (AnswersInv).  *)
THEOREM AnswersFit == Spec => []AnswersInv
  <1>1. IInv => AnswersInv
    BY DEF IInv, AnswersInv
  <1> QED BY <1>1, AlwaysIInv, PTL

(* Once the server has started, no publication of the one goroutine takes the
   statistics back (NeverGoesBack).  *)
THEOREM FiguresNeverGoBack == Spec => NeverGoesBack
  <1> DEFINE Premise == /\ kind = "statistics" /\ pc[Main] = "ended"
                        /\ \A j \in Jobs : pc[j] \in {"first", "second"} => calc[j].late
  <1>1. ASSUME IInv, [Next]_vars, Premise
        PROVE  words'[1] >= words[1] /\ words'[2] >= words[2]
    <2>1. /\ words[1] \in Int /\ words[2] \in Int /\ TheJob \in Jobs
          /\ TheJob \in Writers /\ TheJob # Main
      BY <1>1, Names, Writes DEF Times, Zero
    <2>2. CASE words' = words
      BY <2>1, <2>2
    <2>3. CASE WriteFirst(TheJob) \/ WriteSecond(TheJob)
      <3>1. pc[TheJob] \in {"first", "second"}
        BY <1>1, <2>1, <2>3 DEF WriteFirst, WriteSecond, IInv, OneGoroutine
      <3>2. calc[TheJob].asOf >= words[1] /\ calc[TheJob].asOf >= words[2]
        BY <1>1, <2>1, <3>1 DEF IInv, LateIsNewer
      <3> QED BY <1>1, <2>1, <2>3, <3>2, Writes
    <2> QED BY <1>1, <2>2, <2>3, WordSteps
  <1>2. IInv /\ [Next]_vars =>
          [Premise => words'[1] >= words[1] /\ words'[2] >= words[2]]_vars
    BY <1>1
  <1> QED BY <1>2, AlwaysIInv, PTL DEF Spec, NeverGoesBack
=============================================================================
