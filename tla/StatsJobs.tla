------------------------------ MODULE StatsJobs ------------------------------
(***************************************************************************)
(* The statistics that the server keeps in memory: of all files and users, *)
(* and the weekly series of users and of storage.                          *)
(*                                                                         *)
(* Each has a mutex, a goroutine that calculates it anew every minute, a   *)
(* handler that answers with it, and a first calculation by the start of   *)
(* the server, which after the others waits for nothing.  The three share  *)
(* no state: an instance has one of them, whichever.                       *)
(*                                                                         *)
(* A step is one query, one lock, one word written or read.  What is       *)
(* published is two words, each the version of the data that its           *)
(* calculation began with: a structure or the header of a slice.           *)
(*                                                                         *)
(* Left out: what the queries compute (UsageFigures), the minute.          *)
(***************************************************************************)
EXTENDS Integers, Sequences

CONSTANTS
    Kinds,          \* the statistics to look at
    Inhabited,      \* whether the server starts with a user
    MaxChanges,     \* bound: users that sign up and files that are uploaded
    MaxFaults       \* bound: queries that fail

ASSUME ConstantsAssumption ==
    /\ Kinds \subseteq {"users", "storage", "statistics"} /\ Kinds # {}
    /\ Inhabited \in BOOLEAN /\ MaxChanges \in Nat /\ MaxFaults \in Nat

Main == <<"main", 1>>
Reader == <<"reader", 1>>
Free == <<"free", 1>>
Jobs == {"job"} \X (1..2)
Writers == Jobs \cup {Main}

VARIABLES
    kind,
    rows,       \* the database: users, and files by encryption_status
    words,      \* what is published
    mutex,
    pc, calc,   \* of the writers
    reader,     \* a request for the statistics
    faults

vars == <<kind, rows, words, mutex, pc, calc, reader, faults>>

Zero == -1      \* the zero value: nothing calculated, or an empty series
Version == rows.users + rows.encrypted + rows.public
Words == (Nat \cup {Zero}) \X (Nat \cup {Zero})

(* mutant: all files are counted last *)
FilesLast ==
    IF kind = "statistics" THEN <<"totals", "encrypted", "public", "files">>
                           ELSE <<"dates", "weeks">>

Queries ==
    IF kind = "statistics" THEN <<"totals", "files", "encrypted", "public">>
                           ELSE <<"dates", "weeks">>

NoCalc == [asOf |-> Zero, query |-> 1, published |-> FALSE, late |-> FALSE,
           files |-> 0, encrypted |-> 0, public |-> 0]
NoRequest == [at |-> "idle", words |-> <<Zero, Zero>>, settled |-> FALSE]

TypeOK ==
    /\ kind \in Kinds
    /\ rows \in [users : Nat, encrypted : Nat, public : Nat]
    /\ words \in Words
    /\ mutex \in Writers \cup {Free, Reader}
    /\ pc \in [Writers -> {"absent", "begin", "query", "lock", "first", "second",
                           "rawFirst", "rawSecond", "ended"}]
    /\ calc \in [Writers -> [asOf : Nat \cup {Zero}, query : 1..4,
                             published : BOOLEAN, late : BOOLEAN,
                             files : Nat, encrypted : Nat, public : Nat]]
    /\ reader \in [at : {"idle", "lock", "copy", "first", "second", "answered"},
                   words : Words, settled : BOOLEAN]
    /\ faults \in 0..MaxFaults

Init ==
    /\ kind \in Kinds
    /\ rows = [users |-> IF Inhabited THEN 1 ELSE 0, encrypted |-> 0, public |-> 0]
    /\ words = <<Zero, Zero>> /\ mutex = Free
    /\ pc = [p \in Writers |-> IF p = Main THEN "begin" ELSE "absent"]
    /\ calc = [p \in Writers |-> NoCalc]
    /\ reader = NoRequest /\ faults = 0

-----------------------------------------------------------------------------
(* rows are never removed, and their status never changes *)

SignUp ==
    /\ Version < MaxChanges
    /\ rows' = [rows EXCEPT !.users = @ + 1]
    /\ UNCHANGED <<kind, words, mutex, pc, calc, reader, faults>>

Upload ==
    /\ Version < MaxChanges /\ rows.users > 0
    /\ \/ rows' = [rows EXCEPT !.encrypted = @ + 1]
       \/ rows' = [rows EXCEPT !.public = @ + 1]
    /\ UNCHANGED <<kind, words, mutex, pc, calc, reader, faults>>

-----------------------------------------------------------------------------
(* The one instance: sync.Once starts its goroutine                        *)

(* mutant: without the Once *)
StartedAgain == {j \in Jobs : pc[j] = "absent" /\ \A i \in Jobs : pc[i] = "absent" => j[2] <= i[2]}

(* the goroutine that GetXInstance starts *)
Started == {j \in Jobs : \A i \in Jobs : pc[i] = "absent" /\ j[2] <= i[2]}

-----------------------------------------------------------------------------
(* A calculation                                                           *)

(* late: when the start of the server is over *)
Begins(p) ==
    calc' = [calc EXCEPT ![p] =
                [NoCalc EXCEPT !.asOf = Version, !.late = pc[Main] = "ended"]]

StartCalculates ==
    /\ pc[Main] = "begin"
    /\ pc' = [p \in Writers |-> CASE p = Main -> "query"
                                  [] p \in Started -> "begin"
                                  [] OTHER -> pc[p]]
    /\ Begins(Main)
    /\ UNCHANGED <<kind, rows, words, mutex, reader, faults>>

(* mutant: no Reset *)
TimerFiresOnce(j) ==
    /\ j \in Jobs /\ pc[j] = "begin" /\ words = <<Zero, Zero>>
    /\ pc' = [pc EXCEPT ![j] = "query"] /\ Begins(j)
    /\ UNCHANGED <<kind, rows, words, mutex, reader, faults>>

TimerFires(j) ==
    /\ j \in Jobs /\ pc[j] = "begin"
    /\ pc' = [pc EXCEPT ![j] = "query"] /\ Begins(j)
    /\ UNCHANGED <<kind, rows, words, mutex, reader, faults>>

(* the loop over the weeks of a series without dates makes no round *)
Ends(p) == pc' = [pc EXCEPT ![p] = "ended"] /\ calc' = [calc EXCEPT ![p] = NoCalc]
Empty(p) ==
    /\ calc' = [calc EXCEPT ![p].asOf = Zero] /\ pc' = [pc EXCEPT ![p] = "lock"]

HasDates == IF kind = "users" THEN rows.users > 0
                              ELSE rows.encrypted + rows.public > 0

Found(query, c) ==
    CASE query = "files" -> [c EXCEPT !.files = rows.encrypted + rows.public]
      [] query = "encrypted" -> [c EXCEPT !.encrypted = rows.encrypted]
      [] query = "public" -> [c EXCEPT !.public = rows.public]
      [] OTHER -> c

(* mutant: without an end *)
QueryAfter(n) == n + 1

NextQuery(n) == IF n = Len(Queries) THEN 1 ELSE n + 1

Query(p) ==
    LET query == Queries[calc[p].query] IN
    /\ pc[p] = "query"
    /\ \/ query = "totals" /\ rows.users = 0 /\ Ends(p)     \* SUM of no row is NULL
       \/ query = "dates" /\ ~HasDates /\ Empty(p)
       \/ /\ query = "totals" => rows.users > 0
          /\ query = "dates" => HasDates
          /\ calc' = [calc EXCEPT ![p] =
                        [Found(query, calc[p]) EXCEPT !.query = NextQuery(@)]]
          /\ pc' = [pc EXCEPT ![p] =
                        IF calc[p].query = Len(Queries) THEN "lock" ELSE "query"]
    /\ UNCHANGED <<kind, rows, words, mutex, reader, faults>>

(* a goroutine that fails is never started again *)
QueryFails(p) ==
    /\ pc[p] = "query" /\ faults < MaxFaults /\ faults' = faults + 1
    /\ IF Queries[calc[p].query] = "dates" THEN Empty(p) ELSE Ends(p)
    /\ UNCHANGED <<kind, rows, words, mutex, reader>>

-----------------------------------------------------------------------------
(* Its result is published under the mutex, and then by the caller again: the
   goroutine takes the mutex for it, the start of the server does not.     *)

(* what publishing needs to remember of a calculation *)
Result(c) == [NoCalc EXCEPT !.asOf = c.asOf, !.published = c.published, !.late = c.late]

Lock(p) ==
    /\ pc[p] = "lock" /\ mutex = Free
    /\ mutex' = p /\ pc' = [pc EXCEPT ![p] = "first"]
    /\ calc' = [calc EXCEPT ![p] = Result(@)]
    /\ UNCHANGED <<kind, rows, words, reader, faults>>

WriteFirst(p) ==
    /\ \/ pc[p] = "first" /\ pc' = [pc EXCEPT ![p] = "second"]
       \/ pc[p] = "rawFirst" /\ pc' = [pc EXCEPT ![p] = "rawSecond"]
    /\ words' = [words EXCEPT ![1] = calc[p].asOf]
    /\ UNCHANGED <<kind, rows, mutex, calc, reader, faults>>

AfterPublish(p) ==
    CASE p = Main -> "rawFirst"
      [] calc[p].published -> "begin"
      [] OTHER -> "lock"

AfterWrite(p) ==
    IF calc[p].published THEN NoCalc
    ELSE [calc[p] EXCEPT !.published = TRUE]

(* mutant: no Unlock *)
WriteKeepsLock(p) ==
    /\ pc[p] = "second" /\ pc' = [pc EXCEPT ![p] = AfterPublish(p)]
    /\ words' = [words EXCEPT ![2] = calc[p].asOf]
    /\ calc' = [calc EXCEPT ![p] = AfterWrite(p)]
    /\ UNCHANGED <<kind, rows, mutex, reader, faults>>

WriteSecond(p) ==
    /\ \/ /\ pc[p] = "second"
          /\ mutex' = Free /\ pc' = [pc EXCEPT ![p] = AfterPublish(p)]
       \/ /\ pc[p] = "rawSecond"
          /\ pc' = [pc EXCEPT ![p] = "ended"] /\ UNCHANGED mutex
    /\ words' = [words EXCEPT ![2] = calc[p].asOf]
    /\ calc' = [calc EXCEPT ![p] = AfterWrite(p)]
    /\ UNCHANGED <<kind, rows, reader, faults>>

-----------------------------------------------------------------------------
(* GetStatistics holds the mutex until it has answered; the handlers of the weekly
   series make a copy under it, and answer with the original.              *)

(* the start of the server is over, and has left figures of one calculation *)
Settled ==
    /\ pc[Main] = "ended" /\ words[1] = words[2]
    /\ \A p \in Writers : pc[p] # "second"

Arrives ==
    /\ reader.at \in {"idle", "answered"}
    /\ reader' = [NoRequest EXCEPT !.at = "lock", !.settled = Settled]
    /\ pc' = [p \in Writers |-> IF p \in Started THEN "begin" ELSE pc[p]]
    /\ UNCHANGED <<kind, rows, words, mutex, calc, faults>>

ReaderLocks ==
    /\ reader.at = "lock" /\ mutex = Free
    /\ mutex' = Reader
    /\ reader' = [reader EXCEPT !.at = IF kind = "statistics" THEN "first" ELSE "copy"]
    /\ UNCHANGED <<kind, rows, words, pc, calc, faults>>

CopiesWeeks ==
    /\ reader.at = "copy"
    /\ mutex' = Free /\ reader' = [reader EXCEPT !.at = "first"]
    /\ UNCHANGED <<kind, rows, words, pc, calc, faults>>

(* mutant: unlocks before it answers *)
ReadFirstUnlocked ==
    /\ reader.at = "first"
    /\ mutex' = IF kind = "statistics" THEN Free ELSE mutex
    /\ reader' = [reader EXCEPT !.at = "second", !.words[1] = words[1]]
    /\ UNCHANGED <<kind, rows, words, pc, calc, faults>>

ReadFirst ==
    /\ reader.at = "first"
    /\ reader' = [reader EXCEPT !.at = "second", !.words[1] = words[1]]
    /\ UNCHANGED <<kind, rows, words, mutex, pc, calc, faults>>

ReadSecond ==
    /\ reader.at = "second"
    /\ reader' = [reader EXCEPT !.at = "answered", !.words[2] = words[2]]
    /\ mutex' = IF mutex = Reader THEN Free ELSE mutex
    /\ UNCHANGED <<kind, rows, words, pc, calc, faults>>

-----------------------------------------------------------------------------
Write(p) == Query(p) \/ WriteFirst(p) \/ WriteSecond(p)
Read == CopiesWeeks \/ ReadFirst \/ ReadSecond

Next ==
    \/ SignUp \/ Upload \/ StartCalculates
    \/ \E p \in Writers : \/ TimerFires(p) \/ Write(p) \/ Lock(p) \/ QueryFails(p)
    \/ Arrives \/ ReaderLocks \/ Read

(* Goroutines are scheduled, timers fire, and a mutex that others take over and
   over comes to everyone in the end (the starvation mode of sync.Mutex).  *)
Fairness ==
    /\ WF_vars(StartCalculates)
    /\ \A p \in Writers : WF_vars(TimerFires(p)) /\ WF_vars(Write(p)) /\ SF_vars(Lock(p))
    /\ WF_vars(Read) /\ SF_vars(ReaderLocks)

Spec == Init /\ [][Next]_vars /\ Fairness

-----------------------------------------------------------------------------
(* The files of a finished calculation are no more than its encrypted and public
   files together, although each is counted at another moment.  *)
FilesWithinSplit ==
    \A p \in Writers : kind = "statistics" /\ pc[p] \in {"lock", "first", "second"} =>
        calc[p].files <= calc[p].encrypted + calc[p].public

(* GET /statistics answers with figures of one calculation, if the start of the
   server, which writes without the mutex, had left such when it arrives.  *)
AnswersAreWhole ==
    kind = "statistics" /\ reader.at = "answered" /\ reader.settled =>
        reader.words[1] = reader.words[2]

(* A reader gets figures of one time, that fit each other.  *)
AnswersInv == TypeOK /\ FilesWithinSplit /\ AnswersAreWhole

(* The calculations that begin once the server has started never take the
   published statistics back to an older state of the data: there is one goroutine
   that publishes.  *)
NeverGoesBack ==
    [][kind = "statistics" /\ pc[Main] = "ended"
            /\ (\A j \in Jobs : pc[j] \in {"first", "second"} => calc[j].late)
        => words'[1] >= words[1] /\ words'[2] >= words[2]]_vars

(* In the end the goroutine either has failed or publishes what is in the database,
   whatever the start of the server has written over it.  *)
Fresh ==
    words = IF kind = "statistics" \/ HasDates THEN <<Version, Version>>
                                               ELSE <<Zero, Zero>>
Failed == \A j \in Jobs : pc[j] \in {"absent", "ended"}
FiguresAreRefreshed == <>[](Failed \/ Fresh)

(* Every reader gets its answer, from calculations that fail as well.  *)
ReadersAreAnswered == reader.at # "idle" ~> reader.at = "answered"

(* What readers are told goes on, is renewed and comes in the end.  *)
FiguresKeepUp == NeverGoesBack /\ FiguresAreRefreshed /\ ReadersAreAnswered

-----------------------------------------------------------------------------
(* What the following say does not hold; the README tells why.             *)

(* "Start or restart the timer" (api/file_stats.go:87): the statistics are
   calculated again, after a query that failed too *)
StatisticsAreRefreshed == []<>~Failed

(* "Return the result instead of modifying the shared data directly"
   (api/file_stats.go:446): a request for the weekly series gets one of them *)
WeeksAreWhole ==
    reader.at = "answered" /\ reader.settled => reader.words[1] = reader.words[2]

(* what is published is never older than what was *)
NeverGoesBackAtAll == [][words'[1] >= words[1]]_vars
=============================================================================
