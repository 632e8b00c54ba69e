----------------------------- MODULE UsageFigures -----------------------------
(***************************************************************************)
(* What the queries of the statistics count, while users and their files   *)
(* come and go and the days pass.                                          *)
(*                                                                         *)
(* The time is counted in ticks, some of them to a day.  The rows are what *)
(* the other handlers leave: a deleted file keeps its row, with deleted_at *)
(* set, and its files_users with the permission "deleted".  The queries    *)
(* are operators, each the SQL of one function: a day or a time, and a     *)
(* user, to a number.  The invariants ask for them at every moment.        *)
(***************************************************************************)
EXTENDS Integers, FiniteSets, FiniteSetsExt, Sequences

CONSTANTS
    Users, Files,
    SizeOf,         \* of a file
    StatusOf,       \* of a file, its encryption_status
    DayTicks,       \* the ticks of a day
    WeekDays,       \* the days of a week, in the series
    MaxTick         \* bound: the time

ASSUME ConstantsAssumption ==
    /\ SizeOf \in [Files -> Nat \ {0}]
    /\ StatusOf \in [Files -> {"public", "encrypted"}]
    /\ DayTicks \in Nat \ {0} /\ WeekDays \in Nat \ {0} /\ MaxTick \in Nat

VARIABLES
    now,
    joined,         \* users: created_at
    created, deleted,   \* files
    permission,     \* files_users
    (* history *)
    ledger,         \* the live files of each user at the end of each day
    promoted        \* the shared rows that a delete has made count

tables == <<joined, created, deleted, permission>>
vars == <<now, tables, ledger, promoted>>

Never == -1
Ticks == 0..MaxTick
Day(t) == t \div DayTicks
Days == 0..Day(MaxTick)
Today == Day(now)

TypeOK ==
    /\ now \in Ticks
    /\ joined \in [Users -> Ticks \cup {Never}]
    /\ created \in [Files -> Ticks \cup {Never}]
    /\ deleted \in [Files -> Ticks \cup {Never}]
    /\ permission \in [Files -> [Users -> {"none", "owner", "shared", "deleted"}]]
    /\ ledger \in [Days -> [Users -> SUBSET Files]]
    /\ promoted \subseteq Users \X Files

Init ==
    /\ now = 0
    /\ joined = [u \in Users |-> Never]
    /\ created = [f \in Files |-> Never] /\ deleted = [f \in Files |-> Never]
    /\ permission = [f \in Files |-> [u \in Users |-> "none"]]
    /\ ledger = [d \in Days |-> [u \in Users |-> {}]] /\ promoted = {}

-----------------------------------------------------------------------------
Stored(f) == created[f] # Never
Live(f) == Stored(f) /\ deleted[f] = Never

(* the files whose row of the user is neither missing nor only shared *)
Charged(u) == {f \in Files : permission[f][u] \in {"owner", "deleted"}}
LiveFiles(u) == {f \in Charged(u) : Live(f)}
Total(fs) == MapThenSumSet(LAMBDA f : SizeOf[f], fs)

SignUp(u) ==
    /\ joined[u] = Never /\ joined' = [joined EXCEPT ![u] = now]
    /\ UNCHANGED <<now, created, deleted, permission, ledger, promoted>>

(* mutant: stamped by a clock that is ahead *)
UploadAhead(u, f, p) ==
    /\ joined[u] # Never /\ ~Stored(f)
    /\ created' = [created EXCEPT ![f] = now + 1]
    /\ permission' = [permission EXCEPT ![f][u] = p]
    /\ UNCHANGED <<now, joined, deleted, ledger, promoted>>

(* a content that exists already is shared with whoever uploads it *)
Upload(u, f, p) ==
    /\ joined[u] # Never /\ ~Stored(f)
    /\ created' = [created EXCEPT ![f] = now]
    /\ permission' = [permission EXCEPT ![f][u] = p]
    /\ UNCHANGED <<now, joined, deleted, ledger, promoted>>

Delete(u, f) ==
    /\ Live(f) /\ permission[f][u] \in {"owner", "shared"}
    /\ deleted' = [deleted EXCEPT ![f] = now]
    /\ permission' = [permission EXCEPT ![f][u] = "deleted"]
    /\ promoted' = IF permission[f][u] = "shared" THEN promoted \cup {<<u, f>>}
                 ELSE promoted
    /\ UNCHANGED <<now, joined, created, ledger>>

(* SetOwnerPermision, by the delete of another file of the same content *)
BecomesOwner(u, f) ==
    /\ Live(f) /\ permission[f][u] = "shared"
    /\ permission' = [permission EXCEPT ![f][u] = "owner"]
    /\ promoted' = promoted \cup {<<u, f>>}
    /\ UNCHANGED <<now, joined, created, deleted, ledger>>

Tick ==
    /\ now < MaxTick /\ now' = now + 1
    /\ ledger' = IF Day(now') = Today THEN ledger
                 ELSE [ledger EXCEPT ![Today] = [u \in Users |-> LiveFiles(u)]]
    /\ UNCHANGED <<tables, promoted>>

Next ==
    \/ Tick
    \/ \E u \in Users :
        \/ SignUp(u)
        \/ \E f \in Files :
            \/ Delete(u, f) \/ BecomesOwner(u, f)
            \/ \E p \in {"owner", "shared"} : Upload(u, f, p)

Spec == Init /\ [][Next]_vars

-----------------------------------------------------------------------------
(* The queries by day: what was created until then, and was not deleted until
   the end of the day                                                      *)

Row(fs, us) == {<<f, u>> \in fs \X us : f \in Charged(u)}

CreatedBy(d) == {f \in Files : Stored(f) /\ Day(created[f]) <= d}
DeletedBefore(d) == {f \in Files : deleted[f] # Never /\ Day(deleted[f]) < d}

(* mutant: >= *)
ThereOnTheDay(d) == {f \in Files : deleted[f] = Never \/ Day(deleted[f]) >= d}

(* mutant: deleted_at IS NULL *)
NotDeleted(d) == {f \in Files : deleted[f] = Never}

There(d) == {f \in Files : deleted[f] = Never \/ Day(deleted[f]) > d}

SizeOfRows(rows) == MapThenSumSet(LAMBDA row : SizeOf[row[1]], rows)

(* mutant: without the GREATEST *)
MaybeNegative(n) == n

Greatest(n) == IF n > 0 THEN n ELSE 0

(* what was deleted before is taken off, although it is no part of the sum *)
SumOfDay(us, d) ==
    Greatest(  SizeOfRows(Row(CreatedBy(d) \cap There(d), us))
             - SizeOfRows(Row(CreatedBy(d) \cap DeletedBefore(d), us)))

CountStorageUsed(d, u) == SumOfDay({u}, d)
CountPublicStorageUsed(d) == SumOfDay(Users, d)
CountFilesUsed(d, u) == Cardinality(Row(CreatedBy(d) \cap There(d), {u}))
CountFilesUsedByStatus(d, u, s) ==
    Cardinality(Row({f \in CreatedBy(d) \cap There(d) : StatusOf[f] = s}, {u}))

-----------------------------------------------------------------------------
(* The queries by day and hour: what was created until then and was not deleted
   until then; the storage still takes off what was deleted on days before *)

CreatedUntil(t) == {f \in Files : Stored(f) /\ created[f] <= t}

(* mutant: DATE of deleted_at, as by day *)
ThereOnTheDayOf(t) == {f \in Files : deleted[f] = Never \/ Day(deleted[f]) >= Day(t)}

ThereAt(t) == {f \in Files : deleted[f] = Never \/ deleted[f] > t}

CountStorageUsedH(t, u) ==
    Greatest(  SizeOfRows(Row(CreatedUntil(t) \cap ThereAt(t), {u}))
             - SizeOfRows(Row(CreatedUntil(t) \cap DeletedBefore(Day(t)), {u})))
CountFilesUsedH(t, u) == Cardinality(Row(CreatedUntil(t) \cap ThereAt(t), {u}))
CountFilesUsedByStatusH(t, u, s) ==
    Cardinality(Row({f \in CreatedUntil(t) \cap ThereAt(t) : StatusOf[f] = s}, {u}))

-----------------------------------------------------------------------------
(* The queries of everything.  They name the table and not the type, so that
   deleted rows count; those by user say deleted_at IS NULL.               *)

CountFiles == Cardinality({f \in Files : Stored(f)})
CountFilesOf(s) == Cardinality({f \in Files : Stored(f) /\ StatusOf[f] = s})
(* mutant: without deleted_at IS NULL *)
CountFilesUserEver(u) ==
    Cardinality({f \in Files : Stored(f) /\ permission[f][u] # "none"})

CountTotalFilesUser(u) ==
    Cardinality({f \in Files : Live(f) /\ permission[f][u] # "none"})
CountUsers == Cardinality({u \in Users : joined[u] # Never})
CountTotalUsers(d) == Cardinality({u \in Users : joined[u] # Never /\ Day(joined[u]) <= d})

-----------------------------------------------------------------------------
(* The weekly series: from the first row on, one point a week while it is before
   the last row                                                            *)

Moments(at) == {at[i] : i \in DOMAIN at} \ {Never}

(* mutant: the weeks end with the last row *)
WeeksBack(at) ==
    IF Moments(at) = {} THEN {}
    ELSE {t \in Ticks : /\ t >= Min(Moments(at)) /\ t <= Max(Moments(at))
                        /\ (Max(Moments(at)) - t) % (WeekDays * DayTicks) = 0}

WeekStarts(at) ==
    IF Moments(at) = {} THEN {}
    ELSE {t \in Ticks : /\ t >= Min(Moments(at)) /\ t < Max(Moments(at))
                        /\ (t - Min(Moments(at))) % (WeekDays * DayTicks) = 0}

(* a week without a user is left out *)
WeeklyUsersStats ==
    {<<t, CountTotalUsers(Day(t))>> : t \in {w \in WeekStarts(joined) :
                                               CountTotalUsers(Day(w)) # 0}}
WeeklyStorageStats == {<<t, CountPublicStorageUsed(Day(t))>> : t \in WeekStarts(created)}

-----------------------------------------------------------------------------
(* The storage of today is never more than the live files of the user, and it is
   exactly that until the user has deleted something on an earlier day.  *)
StorageIsBounded ==
    \A u \in Users :
        LET figure == CountStorageUsed(Today, u)
            deletes == Charged(u) \cap DeletedBefore(Today)
        IN /\ figure \in 0..Total(LiveFiles(u))
           /\ deletes = {} => figure = Total(LiveFiles(u))

(* What the count of files says of a past day is what the user had at the end of
   it, whatever was uploaded and deleted since, unless a delete has made a
   shared file of the user count: that rewrites the past.  *)
HistoryIsKept ==
    \A u \in Users, d \in 0..(Today - 1) :
        (\A f \in Files : <<u, f>> \notin promoted) =>
            CountFilesUsed(d, u) = Cardinality(ledger[d][u])

(* The storage of past days settles as well, even where it is wrong: of one user,
   and in the weekly series.  *)
Past(series, day) == {point \in series : Day(point[1]) < day}
PastFiguresSettle ==
    [][promoted' = promoted =>
        /\ \A d \in 0..(Today - 1), u \in Users :
              CountStorageUsed(d, u)' = CountStorageUsed(d, u)
        /\ Past(WeeklyStorageStats, Today) \subseteq WeeklyStorageStats']_vars

(* The figures by hour reach those by day at the end of the day.  *)
EndOf(d) == (d + 1) * DayTicks - 1
HoursReachDays ==
    \A d \in {e \in Days : EndOf(e) <= now}, u \in Users :
        /\ CountStorageUsedH(EndOf(d), u) = CountStorageUsed(d, u)
        /\ CountFilesUsedH(EndOf(d), u) = CountFilesUsed(d, u)
        /\ \A s \in {"public", "encrypted"} :
              CountFilesUsedByStatusH(EndOf(d), u, s) = CountFilesUsedByStatus(d, u, s)

(* What the series of users has shown of past days stays, and more follows.  *)
UsersSeriesGrows ==
    [][Past(WeeklyUsersStats, Today) \subseteq WeeklyUsersStats']_vars

(* What a series says of the past stays said.  *)
SeriesSettle == PastFiguresSettle /\ UsersSeriesGrows

(* The queries that a page shows together agree: the files of a user in total and
   until today, as far as none is only shared with the user; all files and those of
   each status; all users and those until today.  *)
TotalsAgree ==
    /\ \A u \in Users :
          (\A f \in Files : Live(f) => permission[f][u] # "shared") =>
              CountTotalFilesUser(u) = CountFilesUsed(Today, u)
    /\ CountFiles = CountFilesOf("public") + CountFilesOf("encrypted")
    /\ CountUsers = CountTotalUsers(Today)

(* The figures of different queries fit each other and what has happened.  *)
FiguresInv ==
    /\ TypeOK
    /\ StorageIsBounded
    /\ HistoryIsKept
    /\ HoursReachDays
    /\ TotalsAgree

-----------------------------------------------------------------------------
(* What the following say does not hold; the README tells why.             *)

(* "Query storage used by user up to a specific date" (query/file.go:334) *)
StorageIsLive == \A u \in Users : CountStorageUsed(Today, u) = Total(LiveFiles(u))

(* "Query total files used by user up to a specific date" (query/file.go:368) *)
HistoryIsNeverRewritten ==
    \A u \in Users, d \in 0..(Today - 1) :
        CountFilesUsed(d, u) = Cardinality(ledger[d][u])

(* "query of the average size of all the files among the users"
   (query/file.go:161): of the files that the figure of the storage is about *)
CountedFilesAreLive == CountFiles = Cardinality({f \in Files : Live(f)})
=============================================================================
