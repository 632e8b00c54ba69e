------------------------------ MODULE Accounts ------------------------------
(***************************************************************************)
(* Signing up and in: one-time passwords, Google, GitHub and wallets, with *)
(* the referral that a sign-up may be rewarded for.                        *)
(*                                                                         *)
(* One step is one SQL statement, mail or commit.  A sign-up opens a       *)
(* transaction, but writes through it only some of its rows: gorm runs     *)
(* with SkipDefaultTransaction, so that Create of a user and of what it    *)
(* has is one autocommitted INSERT after another.  What is not yet         *)
(* committed is seen by nobody, and whoever inserts the same unique key    *)
(* waits for it.  A request is what it generates: its number is its nonce  *)
(* or the secret of its code.                                              *)
(*                                                                         *)
(* Left out: names, keys and tokens, and the rows of user_logins, which    *)
(* nothing reads.                                                          *)
(***************************************************************************)
EXTENDS Integers, Sequences, FiniteSets

CONSTANTS
    Emails, GithubIds, Addresses,   \* what a user signs up with
    Nobody,                         \* none of them
    Offered, Referrers,     \* addresses that requests sign up with, or are
                            \* referred by
    OldUsers,       \* sequence of addresses: the users 1, 2, ... at the start
    Limit,          \* 100 GB of referral storage, in rewards of 5 GB
    MaxRequests,    \* bound: requests ever made
    MaxInFlight,    \* bound: requests at a time
    MaxUploads,     \* bound: uploads, until one user has so many
    MaxFaults       \* bound: statements that fail, and crashes

Requests == 1..MaxRequests
Keys == Emails \cup GithubIds \cup Addresses
Codes == Referrers \cup {"ns", Nobody}

ASSUME ConstantsAssumption ==
    /\ Nobody \notin Keys /\ "ns" \notin Keys /\ Nobody # "ns"
    /\ Offered \subseteq Addresses /\ Referrers \subseteq Addresses
    /\ OldUsers \in Seq(Addresses)
    /\ \A n, m \in DOMAIN OldUsers : OldUsers[n] = OldUsers[m] => n = m
    /\ Limit \in Nat /\ MaxRequests \in Nat /\ MaxInFlight \in Nat
    /\ MaxUploads \in Nat /\ MaxFaults \in Nat

VARIABLES
    db,         \* the committed rows of each table
    tx,         \* and those that the transaction of a request has inserted
    nextUser, nextDetail,   \* the sequences of users.id and user_details.id
    pc, req,    \* requests
    mailed,     \* the requests whose code has reached the mailbox
    (* history and bounds *)
    disturbed,  \* two requests overlapped, or something failed
    faults

vars == <<db, tx, nextUser, nextDetail, pc, req, mailed, disturbed, faults>>

Tables == {"users", "emails", "wallets", "githubs", "details", "referrals",
           "referred_users"}
NoRows == [t \in Tables |-> {}]

(* a row of user_details; referral storage in rewards *)
Detail(d, u, referrer) ==
    [id |-> d, user |-> u, by |-> referrer, used |-> 0, bonus |-> 0]
NoDetail == Detail(0, 0, 0)

Kinds == {"none", "otp", "google", "github", "nonce", "login", "verify",
          "referrals", "detail"}
Answered == {"ok", "unsaved"}   \* "unsaved" is an "ok" whose commit failed
Ended == Answered \cup {"refused", "left", "panicked", "lost"}
Abandoned == {"left", "panicked"}       \* without commit or rollback
Steps == {"user", "email", "wallet", "github", "firstDetail", "code", "detail",
          "referral", "readDetail", "count", "saveDetail", "mark", "secret",
          "renew", "mail", "commit"}

Request(k, e, g, a, c) ==
    [kind |-> k, email |-> e, github |-> g, address |-> a, code |-> c,
     new |-> FALSE, wallet |-> FALSE, user |-> 0, referrer |-> 0,
     detail |-> 0, read |-> NoDetail, answer |-> {}]

DetailRows == [id : Nat, user : Nat, by : Nat, used : Nat, bonus : Nat]

RowsOK(rows) ==
    /\ DOMAIN rows = Tables
    /\ rows["users"] \subseteq Nat
    /\ rows["emails"] \subseteq [email : Emails, secret : Nat, user : Nat]
    /\ rows["wallets"] \subseteq [address : Addresses, nonce : Nat, user : Nat]
    /\ rows["githubs"] \subseteq [github : GithubIds, user : Nat]
    /\ rows["details"] \subseteq DetailRows
    /\ rows["referrals"] \subseteq [referrer : Nat, referred : Nat, detail : Nat]
    /\ rows["referred_users"] \subseteq Nat

TypeOK ==
    /\ db = [t \in Tables |-> db[t]] /\ RowsOK(db)
    /\ DOMAIN tx = Requests
    /\ \A r \in Requests : tx[r] = [t \in Tables |-> tx[r][t]] /\ RowsOK(tx[r])
    /\ nextUser \in Nat /\ nextDetail \in Nat
    /\ pc \in [Requests -> {"idle"} \cup Steps \cup Ended]
    /\ req \in [Requests ->
                [kind : Kinds, email : Emails \cup {Nobody},
                 github : GithubIds \cup {Nobody},
                 address : Addresses \cup {Nobody}, code : Codes,
                 new : BOOLEAN, wallet : BOOLEAN, user : Nat, referrer : Nat,
                 detail : Nat, read : DetailRows, answer : SUBSET Addresses]]
    /\ mailed \subseteq Requests
    /\ disturbed \in BOOLEAN /\ faults \in Nat

(* The first user has referred all the others; they signed up at the same time,
   so that their details may have come in any order, as here in the other one.  *)
Referred == {n \in DOMAIN OldUsers : n > 1}
OldDetailId(n) == Len(OldUsers) + 1 - n
OldDetail(n) ==
    [Detail(OldDetailId(n), n, IF n > 1 THEN 1 ELSE 0) EXCEPT
        !.bonus = CASE n > 1 -> 0
                    [] n = 1 /\ Len(OldUsers) <= Limit -> Len(OldUsers) - 1
                    [] OTHER -> Limit]

Init ==
    /\ db = [NoRows EXCEPT
                !["users"] = DOMAIN OldUsers,
                !["wallets"] = {[address |-> OldUsers[n], nonce |-> 0, user |-> n] :
                                n \in DOMAIN OldUsers},
                !["details"] = {OldDetail(n) : n \in DOMAIN OldUsers},
                !["referrals"] = {[referrer |-> 1, referred |-> n,
                                   detail |-> OldDetailId(n)] :
                                  n \in Referred}]
    /\ tx = [r \in Requests |-> NoRows]
    /\ nextUser = Len(OldUsers) + 1
    /\ nextDetail = Len(OldUsers) + 1
    /\ pc = [r \in Requests |-> "idle"]
    /\ req = [r \in Requests |-> Request("none", Nobody, Nobody, Nobody, Nobody)]
    /\ mailed = {} /\ disturbed = FALSE /\ faults = 0

-----------------------------------------------------------------------------
(* Queries, on db.Db()                                                     *)

UsersOfEmail(e) == {m.user : m \in {n \in db["emails"] : n.email = e}}
UsersOfWallet(a) == {w.user : w \in {v \in db["wallets"] : v.address = a}}
UsersOfGithub(g) == {h.user : h \in {i \in db["githubs"] : i.github = g}}

HasWallet(u) == \E w \in db["wallets"] : w.user = u
DetailsOf(u) == {d \in db["details"] : d.user = u}
ReferralsOf(u) == {f \in db["referrals"] : f.referrer = u}

(* mutant: the last one *)
IsLastDetail(d, u) ==
    d \in DetailsOf(u) /\ \A e \in DetailsOf(u) : e.id <= d.id

(* First of FindUserDetailByUserID: the smallest id *)
IsDetail(d, u) ==
    d \in DetailsOf(u) /\ \A e \in DetailsOf(u) : d.id <= e.id

InFlight == {r \in Requests : pc[r] \in Steps}

-----------------------------------------------------------------------------
(* How a request begins and goes on                                        *)

Begins(r, request, step) ==
    /\ pc[r] = "idle" /\ \A q \in Requests : pc[q] = "idle" => r <= q
    /\ Cardinality(InFlight) < MaxInFlight
    /\ pc' = [pc EXCEPT ![r] = step]
    /\ req' = [req EXCEPT ![r] = request]

(* a request that only reads, or writes with its one statement *)
Overlaps == disturbed' = (disturbed \/ InFlight # {})

(* a query that fails finds nobody *)
Finds(found, users) ==
    \/ found = users /\ Overlaps /\ faults' = faults
    \/ /\ users # {} /\ found = {} /\ faults < MaxFaults
       /\ faults' = faults + 1 /\ disturbed' = TRUE

(* the handler of a request signs a user up, or in *)
LooksUp(r, request, users, up, in) ==
    /\ \E found \in SUBSET users :
        /\ Finds(found, users)
        /\ \/ found = {} /\ Begins(r, [request EXCEPT !.new = TRUE], up)
           \/ \E u \in found :
                Begins(r, [request EXCEPT !.user = u, !.wallet = HasWallet(u)], in)
    /\ UNCHANGED <<db, tx, nextUser, nextDetail, mailed>>

Goes(r, step) == pc' = [pc EXCEPT ![r] = step]

InsertRow(t, row) == db' = [db EXCEPT ![t] = @ \cup {row}]
TxInsertRow(r, t, row) == tx' = [tx EXCEPT ![r][t] = @ \cup {row}]
Rollback(r) == tx' = [tx EXCEPT ![r] = NoRows]

(* mutant: a deferred rollback comes first *)
CommitNothing(r) == Rollback(r) /\ UNCHANGED db

(* mutant: the locks stay *)
CommitWithoutEnd(r) ==
    /\ db' = [t \in Tables |-> db[t] \cup tx[r][t]]
    /\ UNCHANGED tx

TxCommit(r) ==
    /\ db' = [t \in Tables |-> db[t] \cup tx[r][t]]
    /\ Rollback(r)

(* GitHub users are created in the transaction, all others by themselves *)
InTx(r) == req[r].kind = "github"

CreatesRow(r, t, row) ==
    IF InTx(r) THEN TxInsertRow(r, t, row) /\ UNCHANGED db
               ELSE InsertRow(t, row) /\ UNCHANGED tx

(* an error of Create: an OTP or Google sign-up leaves its transaction open *)
CreateFails(r) ==
    IF req[r].kind \in {"otp", "google"}
    THEN Goes(r, "left") /\ UNCHANGED tx
    ELSE Goes(r, "refused") /\ Rollback(r)

-----------------------------------------------------------------------------
(* The handlers, up to their first write.  Nobody as an address is one that
   is not valid.                                                           *)

StartOTP(r, e, a, c) ==
    LooksUp(r, Request("otp", e, Nobody, a, c), UsersOfEmail(e),
            IF a = Nobody THEN "left" ELSE "user", "secret")

OAuthGoogle(r, e, a, c) ==
    LooksUp(r, Request("google", e, Nobody, a, c), UsersOfEmail(e),
            IF a = Nobody THEN "left" ELSE "user", "commit")

OAuthGithub(r, g, a, c) ==
    LooksUp(r, Request("github", Nobody, g, a, c), UsersOfGithub(g),
            IF a = Nobody THEN "refused" ELSE "user", "commit")

(* RetrieveNonce(true, c) *)
RequestNonce(r, a, c) ==
    LooksUp(r, Request("nonce", Nobody, Nobody, a, c), UsersOfWallet(a),
            "user", "renew")

-----------------------------------------------------------------------------
(* Create of a user, with an email, a wallet, a GitHub account, a detail   *)

InsertUser(r) ==
    /\ pc[r] = "user"
    /\ CreatesRow(r, "users", nextUser)
    /\ nextUser' = nextUser + 1
    /\ req' = [req EXCEPT ![r].user = nextUser, ![r].wallet = TRUE]
    /\ Goes(r, IF req[r].kind \in {"otp", "google"} THEN "email" ELSE "wallet")
    /\ UNCHANGED <<nextDetail, mailed, disturbed, faults>>

InsertEmail(r) ==
    /\ pc[r] = "email"
    /\ \/ /\ UsersOfEmail(req[r].email) = {}
          /\ InsertRow("emails", [email |-> req[r].email, user |-> req[r].user,
                                  secret |-> IF req[r].kind = "otp" THEN r ELSE 0])
          /\ Goes(r, "wallet") /\ UNCHANGED tx
       \/ /\ UsersOfEmail(req[r].email) # {}
          /\ CreateFails(r) /\ UNCHANGED db
    /\ UNCHANGED <<nextUser, nextDetail, req, mailed, disturbed, faults>>

(* the transaction of q has inserted the unique key that r wants to insert *)
LocksKey(q, r) ==
    /\ q # r
    /\ \/ pc[r] = "wallet" /\ \E w \in tx[q]["wallets"] : w.address = req[r].address
       \/ pc[r] = "github" /\ \E h \in tx[q]["githubs"] : h.github = req[r].github

Waits(r) == \E q \in Requests : LocksKey(q, r)

(* BeforeCreate of Wallet sets the nonce *)
InsertWallet(r) ==
    /\ pc[r] = "wallet" /\ ~Waits(r)
    /\ \/ /\ UsersOfWallet(req[r].address) = {}
          /\ CreatesRow(r, "wallets", [address |-> req[r].address, nonce |-> r,
                                       user |-> req[r].user])
          /\ Goes(r, CASE InTx(r) -> "github"
                       [] req[r].kind = "nonce" -> "firstDetail"
                       [] OTHER -> "code")
       \/ /\ UsersOfWallet(req[r].address) # {}
          /\ CreateFails(r) /\ UNCHANGED db
    /\ UNCHANGED <<nextUser, nextDetail, req, mailed, disturbed, faults>>

InsertGithub(r) ==
    /\ pc[r] = "github" /\ ~Waits(r)
    /\ \/ /\ UsersOfGithub(req[r].github) = {}
          /\ CreatesRow(r, "githubs", [github |-> req[r].github,
                                       user |-> req[r].user])
          /\ Goes(r, "firstDetail")
       \/ /\ UsersOfGithub(req[r].github) # {}
          /\ CreateFails(r) /\ UNCHANGED db
    /\ UNCHANGED <<nextUser, nextDetail, req, mailed, disturbed, faults>>

(* Detail of the User of a GitHub or a wallet sign-up *)
InsertFirstDetail(r) ==
    /\ pc[r] = "firstDetail"
    /\ CreatesRow(r, "details", Detail(nextDetail, req[r].user, 0))
    /\ nextDetail' = nextDetail + 1
    /\ Goes(r, CASE InTx(r) -> "code"
                 [] ~InTx(r) /\ req[r].code = "ns" -> "mark"
                 [] OTHER -> "ok")
    /\ UNCHANGED <<nextUser, req, mailed, disturbed, faults>>

-----------------------------------------------------------------------------
(* Referrals                                                               *)

(* mutant: the code is stored, not the id that it stands for *)
StoreReferralCode(r) ==
    /\ pc[r] = "code" /\ req[r].code # "ns"
    /\ req' = [req EXCEPT ![r].referrer = req[r].code] /\ Goes(r, "detail")
    /\ UNCHANGED <<db, tx, nextUser, nextDetail, mailed, disturbed, faults>>

(* a code of the agency, noted in the transaction; or CheckReferralCode.  The
   GitHub handler takes the id of u for it, which is nil.  *)
CheckReferralCode(r) ==
    /\ pc[r] = "code"
    /\ \/ /\ InTx(r) /\ req[r].code = "ns"
          /\ Goes(r, "panicked") /\ UNCHANGED <<tx, req>>
       \/ /\ ~InTx(r) /\ req[r].code = "ns"
          /\ TxInsertRow(r, "referred_users", req[r].user)
          /\ Goes(r, "detail") /\ UNCHANGED req
       \/ /\ req[r].code # "ns"
          /\ \/ UsersOfWallet(req[r].code) = {} /\ UNCHANGED req
             \/ \E u \in UsersOfWallet(req[r].code) :
                    req' = [req EXCEPT ![r].referrer = u]
          /\ Goes(r, "detail") /\ UNCHANGED tx
    /\ UNCHANGED <<db, nextUser, nextDetail, mailed, disturbed, faults>>

(* the transaction is not the one that reads the detail again *)
InsertDetail(r) ==
    LET detail == Detail(nextDetail, req[r].user, req[r].referrer) IN
    /\ pc[r] = "detail"
    /\ \/ req[r].kind = "otp" /\ InsertRow("details", detail) /\ UNCHANGED tx
       \/ req[r].kind # "otp" /\ TxInsertRow(r, "details", detail) /\ UNCHANGED db
    /\ nextDetail' = nextDetail + 1
    /\ req' = [req EXCEPT ![r].detail = nextDetail]
    /\ Goes(r, CASE req[r].referrer # 0 -> "referral"
                 [] req[r].referrer = 0 /\ req[r].kind = "otp" -> "mail"
                 [] OTHER -> "commit")
    /\ UNCHANGED <<nextUser, mailed, disturbed, faults>>

(* mutant: the detail is not asked for *)
UsersExist(r) == {req[r].referrer, req[r].user} \subseteq db["users"]

(* the three rows that CreateReferral asks for *)
PartsExist(r) ==
    /\ {req[r].referrer, req[r].user} \subseteq db["users"]
    /\ \E d \in db["details"] : d.id = req[r].detail

CreateReferral(r) ==
    /\ pc[r] = "referral"
    /\ \/ /\ PartsExist(r)
          /\ InsertRow("referrals",
                       [referrer |-> req[r].referrer, referred |-> req[r].user,
                        detail |-> req[r].detail])
          /\ Goes(r, "readDetail")
       \/ ~PartsExist(r) /\ Goes(r, "left") /\ UNCHANGED db
    /\ UNCHANGED <<tx, nextUser, nextDetail, req, mailed, disturbed, faults>>

(* UpdateReferralStorage *)
ReadDetail(r) ==
    /\ pc[r] = "readDetail"
    /\ \/ DetailsOf(req[r].referrer) = {} /\ Goes(r, "left") /\ UNCHANGED req
       \/ \E d \in db["details"] :
            /\ IsDetail(d, req[r].referrer)
            /\ req' = [req EXCEPT ![r].read = d] /\ Goes(r, "count")
    /\ UNCHANGED <<db, tx, nextUser, nextDetail, mailed, disturbed, faults>>

(* mutant: the new referral is added to those that include it *)
CountReferralsAndOne(r) ==
    /\ pc[r] = "count"
    /\ req' = [req EXCEPT ![r].read.bonus =
                    Cardinality(ReferralsOf(req[r].read.user)) + 1]
    /\ Goes(r, "saveDetail")
    /\ UNCHANGED <<db, tx, nextUser, nextDetail, mailed, disturbed, faults>>

(* mutant: without a limit *)
CountAllReferrals(r) ==
    /\ pc[r] = "count"
    /\ req' = [req EXCEPT ![r].read.bonus =
                    Cardinality(ReferralsOf(req[r].read.user))]
    /\ Goes(r, "saveDetail")
    /\ UNCHANGED <<db, tx, nextUser, nextDetail, mailed, disturbed, faults>>

CountReferrals(r) ==
    /\ pc[r] = "count"
    /\ \/ /\ req[r].read.bonus = Limit
          /\ Goes(r, "mail") /\ UNCHANGED req
       \/ /\ req[r].read.bonus # Limit
          /\ req' = [req EXCEPT ![r].read.bonus =
                        Cardinality(ReferralsOf(req[r].read.user))]
          /\ Goes(r, "saveDetail")
    /\ UNCHANGED <<db, tx, nextUser, nextDetail, mailed, disturbed, faults>>

(* mutant: a new row with the storage that is known *)
SaveNewDetail(r) ==
    /\ pc[r] = "saveDetail"
    /\ db' = [db EXCEPT !["details"] =
                {IF d.id = req[r].read.id THEN [req[r].read EXCEPT !.used = 0] ELSE d :
                 d \in @}]
    /\ Goes(r, "mail")
    /\ UNCHANGED <<tx, nextUser, nextDetail, req, mailed, disturbed, faults>>

(* all columns of the row that was read *)
SaveDetail(r) ==
    /\ pc[r] = "saveDetail"
    /\ db' = [db EXCEPT !["details"] =
                {IF d.id = req[r].read.id THEN req[r].read ELSE d : d \in @}]
    /\ Goes(r, "mail")
    /\ UNCHANGED <<tx, nextUser, nextDetail, req, mailed, disturbed, faults>>

(* the agency's code of a wallet user *)
MarkReferred(r) ==
    /\ pc[r] = "mark"
    /\ InsertRow("referred_users", req[r].user) /\ Goes(r, "ok")
    /\ UNCHANGED <<tx, nextUser, nextDetail, req, mailed, disturbed, faults>>

-----------------------------------------------------------------------------
(* The ends of the handlers                                                *)

(* a new secret for a known address; a user without wallet is a nil pointer *)
SaveSecret(r) ==
    /\ pc[r] = "secret"
    /\ db' = [db EXCEPT !["emails"] =
                {[m EXCEPT !.secret = IF m.email = req[r].email THEN r ELSE @] :
                 m \in @}]
    /\ Goes(r, IF req[r].wallet THEN "mail" ELSE "panicked")
    /\ UNCHANGED <<tx, nextUser, nextDetail, req, mailed, disturbed, faults>>

(* the mail is sent and the answer awaited; without it the handler returns *)
SendMail(r) ==
    /\ pc[r] = "mail"
    /\ \/ mailed' = mailed \cup {r} /\ TxCommit(r) /\ Goes(r, "ok")
       \/ mailed' \in {mailed, mailed \cup {r}} /\ Goes(r, "left")
          /\ UNCHANGED <<db, tx>>
    /\ UNCHANGED <<nextUser, nextDetail, req, disturbed, faults>>

(* mutant: no login is noted, so no wallet is needed *)
CommitWithoutLogin(r) ==
    /\ pc[r] = "commit"
    /\ TxCommit(r) /\ Goes(r, "ok")
    /\ UNCHANGED <<nextUser, nextDetail, req, mailed, disturbed, faults>>

(* tokens, and the login of a Google user *)
Commit(r) ==
    /\ pc[r] = "commit"
    /\ \/ /\ req[r].kind = "google" /\ ~req[r].wallet
          /\ Goes(r, "panicked") /\ UNCHANGED <<db, tx>>
       \/ /\ req[r].kind = "github" \/ req[r].wallet
          /\ TxCommit(r) /\ Goes(r, "ok")
    /\ UNCHANGED <<nextUser, nextDetail, req, mailed, disturbed, faults>>

(* mutant: the new nonce is not saved *)
AnswerNonce(r) ==
    /\ pc[r] = "renew" /\ Goes(r, "ok")
    /\ UNCHANGED <<db, tx, nextUser, nextDetail, req, mailed, disturbed, faults>>

RenewNonce(r) ==
    /\ pc[r] = "renew"
    /\ db' = [db EXCEPT !["wallets"] =
                {[w EXCEPT !.nonce = IF w.address = req[r].address THEN r ELSE @] :
                 w \in @}]
    /\ Goes(r, "ok")
    /\ UNCHANGED <<tx, nextUser, nextDetail, req, mailed, disturbed, faults>>
-----------------------------------------------------------------------------
(* Handlers of one statement that matters                                  *)

(* the answered nonce of q, signed.  authMutex keeps other logins away, not
   the requests for a nonce.  *)
LoginUser(r, q) ==
    LET a == req[q].address IN
    /\ pc[q] = "ok" /\ req[q].kind = "nonce"
    /\ \E w \in db["wallets"] :
        /\ w.address = a
        /\ Begins(r, [Request("login", Nobody, Nobody, a, Nobody) EXCEPT
                        !.user = w.user],
                  IF w.nonce = q THEN "ok" ELSE "refused")
    /\ Overlaps /\ UNCHANGED <<db, tx, nextUser, nextDetail, mailed, faults>>

(* the code that was mailed for q *)
VerifyOTP(r, q) ==
    LET e == req[q].email IN
    /\ q \in mailed
    /\ \E m \in db["emails"] :
        /\ m.email = e
        /\ Begins(r, [Request("verify", e, Nobody, Nobody, Nobody) EXCEPT
                        !.user = m.user],
                  IF m.secret = q THEN "ok" ELSE "refused")
    /\ Overlaps /\ UNCHANGED <<db, tx, nextUser, nextDetail, mailed, faults>>

(* who has been given a token, if anyone *)
TokenHolders ==
    {req[r].user : r \in {q \in Requests :
        /\ pc[q] \in Answered
        /\ req[q].kind \in {"google", "github", "login", "verify"}}}

(* FindReferredUsers: referred_by is compared with the id of a detail *)
ReferredBy(u) ==
    {d \in db["details"] : \E e \in db["details"] : IsDetail(e, u) /\ d.by = e.id}

FetchReferredUsers(r, a) ==
    /\ \E u \in UsersOfWallet(a) :
        Begins(r, [Request("referrals", Nobody, Nobody, a, Nobody) EXCEPT
                    !.user = u,
                    !.answer = {w.address : w \in {v \in db["wallets"] :
                        \E d \in ReferredBy(u) : d.user = v.user}}],
               IF DetailsOf(u) = {} THEN "refused" ELSE "ok")
    /\ Overlaps /\ UNCHANGED <<db, tx, nextUser, nextDetail, mailed, faults>>

(* GetUserDetail, and LoadUser, which asks for no detail *)
GetUserDetail(r, u) ==
    /\ u \in TokenHolders
    /\ Begins(r, [Request("detail", Nobody, Nobody, Nobody, Nobody) EXCEPT
                    !.user = u],
              CASE DetailsOf(u) = {} -> "refused"
                [] DetailsOf(u) # {} /\ HasWallet(u) -> "ok"
                [] OTHER -> "panicked")
    /\ Overlaps /\ UNCHANGED <<db, tx, nextUser, nextDetail, mailed, faults>>

(* the uploads of another component charge the same row *)
Upload(u) ==
    /\ \A d \in db["details"] : d.used < MaxUploads
    /\ \E d \in DetailsOf(u) :
        /\ IsDetail(d, u)
        /\ db' = [db EXCEPT !["details"] =
                    (@ \ {d}) \cup {[d EXCEPT !.used = @ + 1]}]
    /\ Overlaps
    /\ UNCHANGED <<tx, nextUser, nextDetail, pc, req, mailed, faults>>

-----------------------------------------------------------------------------
(* Failures                                                                *)

(* the error returns that do not end the transaction *)
ReturnsWithoutEnd(r) ==
    \/ req[r].kind \in {"otp", "google"} /\ pc[r] \in {"user", "email", "wallet"}
    \/ req[r].kind = "otp" /\ pc[r] = "detail"
    \/ pc[r] \in {"referral", "readDetail", "count", "saveDetail"}

(* and those that roll it back, or have none *)
RollsBack(r) ==
    \/ /\ req[r].kind \in {"github", "nonce"}
       /\ pc[r] \in {"user", "wallet", "github", "firstDetail", "mark", "renew"}
    \/ req[r].kind # "otp" /\ pc[r] = "detail"
    \/ pc[r] = "code" /\ req[r].code = "ns" /\ ~InTx(r)
    \/ pc[r] = "commit" /\ req[r].kind = "google" /\ req[r].wallet
    \/ pc[r] \in {"secret", "mail"}

Fault == faults < MaxFaults /\ faults' = faults + 1 /\ disturbed' = TRUE

StatementFails(r) ==
    /\ Fault
    /\ \/ ReturnsWithoutEnd(r) /\ Goes(r, "left") /\ UNCHANGED tx
       \/ RollsBack(r) /\ Goes(r, "refused") /\ Rollback(r)
       \/ /\ pc[r] = "code" /\ req[r].code \in Referrers   \* is logged
          /\ Goes(r, "detail") /\ UNCHANGED tx
    /\ UNCHANGED <<db, nextUser, nextDetail, req, mailed>>

(* nobody looks at what Commit returns *)
CommitFails(r) ==
    /\ Fault
    /\ \/ /\ pc[r] = "commit" /\ (req[r].kind = "github" \/ req[r].wallet)
          /\ mailed' = mailed
       \/ pc[r] = "mail" /\ mailed' = mailed \cup {r}
    /\ Goes(r, "unsaved") /\ Rollback(r)
    /\ UNCHANGED <<db, nextUser, nextDetail, req>>

Crash ==
    /\ Fault /\ InFlight # {}
    /\ pc' = [r \in Requests |-> IF r \in InFlight THEN "lost" ELSE pc[r]]
    /\ tx' = [r \in Requests |-> NoRows]
    /\ UNCHANGED <<db, nextUser, nextDetail, req, mailed>>

-----------------------------------------------------------------------------
Arrives(r) ==
    \/ \E a \in Offered \cup {Nobody}, c \in Codes :
        /\ a = Nobody => c = Nobody
        /\ \/ \E e \in Emails : StartOTP(r, e, a, c) \/ OAuthGoogle(r, e, a, c)
           \/ \E g \in GithubIds : OAuthGithub(r, g, a, c)
    \/ \E a \in Offered, c \in {"ns", Nobody} : RequestNonce(r, a, c)
    \/ \E a \in Referrers : FetchReferredUsers(r, a)
    \/ \E q \in Requests : LoginUser(r, q) \/ VerifyOTP(r, q)
    \/ \E u \in TokenHolders : GetUserDetail(r, u)

Step(r) ==
    \/ InsertUser(r) \/ InsertEmail(r) \/ InsertWallet(r) \/ InsertGithub(r)
    \/ InsertFirstDetail(r) \/ CheckReferralCode(r) \/ InsertDetail(r)
    \/ CreateReferral(r) \/ ReadDetail(r) \/ CountReferrals(r) \/ SaveDetail(r)
    \/ MarkReferred(r) \/ SaveSecret(r) \/ SendMail(r) \/ Commit(r) \/ RenewNonce(r)

Next ==
    \/ \E r \in Requests :
        Arrives(r) \/ Step(r) \/ StatementFails(r) \/ CommitFails(r)
    \/ \E u \in DOMAIN OldUsers \cup TokenHolders : Upload(u)
    \/ Crash

(* a handler that waits for nothing goes on; nobody has to call a route *)
Fairness == \A r \in Requests : WF_vars(Step(r))

Spec == Init /\ [][Next]_vars /\ Fairness

-----------------------------------------------------------------------------
(* Referral storage is backed by referrals, although it is computed from a list
   and written into a row that may both be old by then.  *)
BonusIsBacked ==
    \A d \in db["details"] : d.bonus <= Cardinality(ReferralsOf(d.user))

(* A referral is the only one of its user and agrees with the detail it names,
   although three connections have written the user, the detail and it.  *)
ReferralsMatchDetails ==
    /\ \A f \in db["referrals"] : \E d \in db["details"] :
        d.id = f.detail /\ d.user = f.referred /\ d.by = f.referrer
    /\ \A f, g \in db["referrals"] : f.referred = g.referred => f = g

(* A GitHub user gets two details.  Whoever reads or charges one finds the first
   (FindUserDetailByUserID), so the second never has any storage.  *)
OneDetailCounts ==
    \A d, e \in db["details"] :
        d.user = e.user /\ d.id < e.id => e.used = 0 /\ e.bonus = 0

(* Nobody gets a token for a user without wallet, whose user and email rows an
   unsuccessful sign-up may have left: the handlers behind the token dereference
   the wallet.  *)
TokenHoldersHaveWallet ==
    \A u \in TokenHolders : u \in db["users"] => HasWallet(u)

(* A sign-up that was answered, and whose commit did not fail, has left
   everything: its wallet and a detail, and the referral or the agency's mark
   that it came with.  *)
SignedUp(r) ==
    LET u == req[r].user IN
    /\ u \in db["users"] /\ HasWallet(u) /\ DetailsOf(u) # {}
    /\ req[r].code = "ns" => u \in db["referred_users"]
    /\ req[r].referrer # 0 => \E f \in db["referrals"] : f.referred = u

AnsweredSignUpsAreWhole ==
    \A r \in Requests : pc[r] = "ok" /\ req[r].new => SignedUp(r)

(* While requests come one after the other and nothing fails, referral storage
   is the number of referrals, up to the limit.  *)
BonusIsExact ==
    ~disturbed /\ InFlight = {} =>
        \A d \in db["details"] :
            LET n == Cardinality(ReferralsOf(d.user)) IN
            IsDetail(d, d.user) => d.bonus = IF n < Limit THEN n ELSE Limit

(* The referral storage of a user is that of the referrals in the database, and
   each of these is the one that the detail of the referred user names.  *)
ReferralsInv == BonusIsBacked /\ ReferralsMatchDetails /\ BonusIsExact

(* Under the same condition no sign-up touches the storage_used of another user:
   the detail that UpdateReferralStorage writes back is not old.  *)
StorageUsedIsKept ==
    [][disturbed' \/ \A d \in db["details"] : \E e \in db'["details"] :
                        e.id = d.id /\ e.user = d.user /\ e.used >= d.used]_vars

(* Under the same condition the latest nonce that was answered for an address,
   or code mailed to it, is the one that is accepted.  *)
LatestIsAccepted ==
    ~disturbed =>
        \A r \in Requests :
            /\ \A w \in db["wallets"] :
                /\ pc[r] = "ok" /\ req[r].kind = "nonce" /\ req[r].address = w.address
                => w.nonce >= r
            /\ \A m \in db["emails"] :
                r \in mailed /\ req[r].email = m.email => m.secret >= r

(* Who has been let in can go on: the user has a wallet, the sign-up left all of
   its rows, one detail stands for the user, and the newest secret or nonce is
   the one that is accepted.  *)
SignUpsInv ==
    /\ TypeOK
    /\ TokenHoldersHaveWallet
    /\ AnsweredSignUpsAreWhole
    /\ OneDetailCounts
    /\ LatestIsAccepted

(* A request waits for ever only if another one has returned without ending the
   transaction in which it inserted the same wallet or GitHub account.  *)
RequestsAreAnswered ==
    \A r \in Requests :
        (pc[r] \in Steps) ~>
            \/ pc[r] \in Ended
            \/ \E q \in Requests : pc[q] \in Abandoned /\ LocksKey(q, r)

-----------------------------------------------------------------------------
(* What the following say does not hold; the README tells why.             *)

(* "if referral storage is 100 GB then return nil as storage limit reached
   already" (query/referral.go:136) *)
BonusIsLimited == \A d \in db["details"] : d.bonus <= Limit

(* "5 GB per referral" (query/referral.go:141) *)
BonusNeverFalls ==
    [][\A d \in db["details"], e \in db'["details"] :
        e.id = d.id => e.bonus >= d.bonus]_vars

(* "add user storage quantity" (api/file_upload.go:397) *)
ChargesAreKept ==
    [][\A d \in db["details"], e \in db'["details"] :
        e.id = d.id => e.used >= d.used]_vars

(* "FetchReferredUsers returns referred users for a given referral code."
   (api/referrals.go:10) *)
ListedUsersAreReferred ==
    \A r \in Requests : pc[r] = "ok" /\ req[r].kind = "referrals" =>
        \A a \in req[r].answer : \E d \in db["details"] :
            d.by = req[r].user /\ d.user \in UsersOfWallet(a)

(* "initialize user detail" (api/oauth.go:123) *)
TokenHoldersHaveDetail == \A u \in TokenHolders : DetailsOf(u) # {}

(* An answer to a sign-up means that it is done, whatever becomes of the commit
   (api/otp_auth.go:228, api/oauth.go:205).  *)
AnswersMeanSignedUp ==
    \A r \in Requests : pc[r] \in Answered /\ req[r].new => SignedUp(r)
=============================================================================
