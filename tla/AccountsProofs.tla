--------------------------- MODULE AccountsProofs ---------------------------
(* Signing up and in, for any addresses, users at the start, and requests at a
   time: who gets a token has a wallet, an answered sign-up has left all of its
   rows, referral storage is that of the referrals.  *)
EXTENDS Accounts, FiniteSetTheorems, TLAPS

-----------------------------------------------------------------------------
(* Types                                                                   *)

RequestType ==
    [kind : Kinds, email : Emails \cup {Nobody}, github : GithubIds \cup {Nobody},
     address : Addresses \cup {Nobody}, code : Codes, new : BOOLEAN,
     wallet : BOOLEAN, user : Nat, referrer : Nat, detail : Nat,
     read : DetailRows, answer : SUBSET Addresses]

(* referrals are counted *)
ReferralsAreFinite ==
    /\ IsFiniteSet(db["referrals"])
    /\ \A r \in Requests : tx[r]["referrals"] = {}

TypeInv == TypeOK /\ ReferralsAreFinite

(* The rows of a table. *)
RowType(t) ==
    CASE t = "emails" -> [email : Emails, secret : Nat, user : Nat]
      [] t = "wallets" -> [address : Addresses, nonce : Nat, user : Nat]
      [] t = "githubs" -> [github : GithubIds, user : Nat]
      [] t = "details" -> DetailRows
      [] t = "referrals" -> [referrer : Nat, referred : Nat, detail : Nat]
      [] OTHER -> Nat

(* The rows of all tables, table by table. *)
LEMMA RowsAreTyped ==
  ASSUME NEW rows, DOMAIN rows = Tables
  PROVE  RowsOK(rows) <=> \A t \in Tables : rows[t] \subseteq RowType(t)
  BY DEF RowsOK, Tables, RowType

(* The variables that are functions of requests. *)
LEMMA Types ==
  ASSUME TypeOK
  PROVE  /\ req \in [Requests -> RequestType]
         /\ pc \in [Requests -> {"idle"} \cup Steps \cup Ended]
         /\ DOMAIN db = Tables /\ \A t \in Tables : db[t] \subseteq RowType(t)
         /\ DOMAIN tx = Requests
         /\ \A r \in Requests : /\ DOMAIN tx[r] = Tables
                                /\ \A t \in Tables : tx[r][t] \subseteq RowType(t)
  <1>1. DOMAIN db = Tables /\ RowsOK(db)
    BY DEF TypeOK, RowsOK
  <1>2. DOMAIN tx = Requests /\ \A r \in Requests : DOMAIN tx[r] = Tables /\ RowsOK(tx[r])
    BY DEF TypeOK, RowsOK
  <1>3. /\ req \in [Requests -> RequestType]
        /\ pc \in [Requests -> {"idle"} \cup Steps \cup Ended]
    BY DEF TypeOK, RequestType
  <1> QED BY <1>1, <1>2, <1>3, RowsAreTyped

(* Names of tables are different. *)
LEMMA TableNames ==
  Tables = {"users", "emails", "wallets", "githubs", "details", "referrals",
            "referred_users"}
  BY DEF Tables

(* A row into a table leaves the other tables alone. *)
LEMMA RowInserted ==
  ASSUME TypeOK, NEW t \in Tables, NEW row, InsertRow(t, row)
  PROVE  /\ db'[t] = db[t] \cup {row} /\ \A s \in Tables \ {t} : db'[s] = db[s]
         /\ db' = [s \in Tables |-> db'[s]]
  <1>1. db = [s \in Tables |-> db[s]]
    BY DEF TypeOK
  <1>2. db' = [db EXCEPT ![t] = db[t] \cup {row}]
    BY DEF InsertRow
  <1> QED BY <1>1, <1>2

(* A row of a transaction: the committed rows and the other transactions are left
   alone.  *)
LEMMA TxRowInserted ==
  ASSUME TypeOK, NEW r \in Requests, NEW t \in Tables, NEW row, TxInsertRow(r, t, row)
  PROVE  /\ tx'[r][t] = tx[r][t] \cup {row}
         /\ \A s \in Tables \ {t} : tx'[r][s] = tx[r][s]
         /\ tx'[r] = [s \in Tables |-> tx'[r][s]]
         /\ \A q \in Requests \ {r} : tx'[q] = tx[q]
         /\ DOMAIN tx' = Requests
  <1>1. DOMAIN tx = Requests /\ tx[r] = [s \in Tables |-> tx[r][s]]
    BY DEF TypeOK
  <1>2. tx' = [tx EXCEPT ![r] = [tx[r] EXCEPT ![t] = tx[r][t] \cup {row}]]
    BY DEF TxInsertRow
  <1>3. tx'[r] = [tx[r] EXCEPT ![t] = tx[r][t] \cup {row}]
    BY <1>1, <1>2
  <1>4. /\ tx'[r][t] = tx[r][t] \cup {row}
        /\ \A s \in Tables \ {t} : tx'[r][s] = tx[r][s]
        /\ tx'[r] = [s \in Tables |-> tx'[r][s]]
    BY <1>1, <1>3
  <1>5. DOMAIN tx' = Requests /\ \A q \in Requests \ {r} : tx'[q] = tx[q]
    BY <1>1, <1>2
  <1> QED BY <1>4, <1>5

(* A rollback empties one transaction. *)
LEMMA RolledBack ==
  ASSUME TypeOK, NEW r \in Requests, Rollback(r)
  PROVE  /\ tx'[r] = NoRows /\ \A q \in Requests \ {r} : tx'[q] = tx[q]
         /\ DOMAIN tx' = Requests
  BY DEF TypeOK, Rollback

(* A commit adds the rows of the transaction, and empties it. *)
LEMMA Committed ==
  ASSUME TypeOK, NEW r \in Requests, TxCommit(r)
  PROVE  /\ \A t \in Tables : db'[t] = db[t] \cup tx[r][t]
         /\ db' = [s \in Tables |-> db'[s]]
         /\ tx'[r] = NoRows /\ \A q \in Requests \ {r} : tx'[q] = tx[q]
         /\ DOMAIN tx' = Requests
  BY RolledBack DEF TxCommit

(* No rows are none in any table. *)
LEMMA NothingInserted ==
  /\ NoRows = [t \in Tables |-> NoRows[t]]
  /\ \A t \in Tables : NoRows[t] = {}
  BY DEF NoRows

(* A new row of user_details. *)
LEMMA NewDetail ==
  ASSUME NEW i \in Nat, NEW u \in Nat, NEW b \in Nat
  PROVE  /\ Detail(i, u, b) \in DetailRows
         /\ Detail(i, u, b) = [id |-> i, user |-> u, by |-> b, used |-> 0, bonus |-> 0]
  BY DEF Detail, DetailRows

-----------------------------------------------------------------------------
(* What a request may do to itself                                         *)

SignUpKinds == {"otp", "google", "github", "nonce"}

(* r is the only request that moves *)
Alone(r) ==
    \A q \in Requests \ {r} : pc'[q] = pc[q] /\ req'[q] = req[q] /\ tx'[q] = tx[q]

(* what r asked for stays *)
Same(r) ==
    /\ req'[r].kind = req[r].kind /\ req'[r].email = req[r].email
    /\ req'[r].github = req[r].github /\ req'[r].address = req[r].address
    /\ req'[r].code = req[r].code /\ req'[r].new = req[r].new

(* a request arrives *)
Comes(r) ==
    /\ pc[r] = "idle" /\ \A q \in Requests : pc[q] = "idle" => r <= q
    /\ pc' \in [Requests -> {"idle"} \cup Steps \cup Ended]
    /\ req' \in [Requests -> RequestType]
    /\ \A q \in Requests \ {r} : pc'[q] = pc[q] /\ req'[q] = req[q]
    /\ UNCHANGED <<db, tx, nextUser, nextDetail, mailed>>
    /\ disturbed' \in BOOLEAN /\ faults' \in Nat
    /\ disturbed' \/ (~disturbed /\ InFlight = {})
    /\ req'[r].referrer = 0

(* to sign up *)
ComesToSignUp(r) ==
    /\ pc'[r] \in {"user", "left", "refused"}
    /\ req'[r].new /\ req'[r].user = 0 /\ ~req'[r].wallet
    /\ req'[r].kind \in SignUpKinds
    /\ req'[r].kind \in {"otp", "google"} => req'[r].email \in Emails
    /\ req'[r].kind = "github" => req'[r].github \in GithubIds
    /\ pc'[r] = "user" => req'[r].address \in Addresses

(* to sign in, or to read *)
ComesToSignIn(r) ==
    LET u == req'[r].user IN
    /\ ~req'[r].new
    /\ req'[r].wallet => HasWallet(u)
    /\ \/ pc'[r] = "secret" /\ req'[r].kind = "otp" /\ u \in UsersOfEmail(req'[r].email)
       \/ /\ pc'[r] = "commit" /\ req'[r].kind = "google"
          /\ u \in UsersOfEmail(req'[r].email)
       \/ /\ pc'[r] = "commit" /\ req'[r].kind = "github"
          /\ u \in UsersOfGithub(req'[r].github)
       \/ pc'[r] = "renew" /\ req'[r].kind = "nonce" /\ u \in UsersOfWallet(req'[r].address)

ComesToRead(r) ==
    LET u == req'[r].user IN
    /\ ~req'[r].new /\ ~req'[r].wallet
    /\ \/ pc'[r] \in {"ok", "refused"} /\ req'[r].kind = "login" /\ HasWallet(u)
       \/ /\ pc'[r] \in {"ok", "refused"} /\ req'[r].kind = "verify"
          /\ \E q \in mailed, m \in db["emails"] :
                m.user = u /\ m.email = req[q].email /\ (pc'[r] = "ok" => m.secret = q)
       \/ /\ pc'[r] \in {"ok", "refused"} /\ req'[r].kind = "referrals" /\ HasWallet(u)
       \/ /\ pc'[r] \in {"ok", "refused", "panicked"} /\ req'[r].kind = "detail"
          /\ u \in TokenHolders

(* What Begins says of pc and req, as facts on their values. *)
LEMMA Begun ==
  ASSUME TypeOK, NEW r \in Requests, NEW request \in RequestType,
         NEW step \in Steps \cup Ended, Begins(r, request, step)
  PROVE  /\ pc[r] = "idle" /\ \A q \in Requests : pc[q] = "idle" => r <= q
         /\ pc' \in [Requests -> {"idle"} \cup Steps \cup Ended] /\ pc'[r] = step
         /\ req' \in [Requests -> RequestType] /\ req'[r] = request
         /\ \A q \in Requests \ {r} : pc'[q] = pc[q] /\ req'[q] = req[q]
  BY Types DEF Begins

(* The detail of a request that has read none. *)
LEMMA NoDetailIsTyped == NoDetail \in DetailRows
  BY NewDetail DEF NoDetail

(* A request that is calm when it comes is alone. *)
LEMMA OverlapIsNoted ==
  ASSUME TypeOK, Overlaps
  PROVE  disturbed' \in BOOLEAN /\ (disturbed' \/ (~disturbed /\ InFlight = {}))
  BY DEF Overlaps, TypeOK

(* A handler that looks a user up signs somebody up, or a user in that it has
   found.  *)
LEMMA LookedUp ==
  ASSUME TypeOK, NEW r \in Requests, NEW request \in RequestType,
         NEW users \in SUBSET Nat, NEW up \in {"user", "left", "refused"},
         NEW in \in {"secret", "commit", "renew"},
         request.referrer = 0, request.user = 0,
         request.new = FALSE, request.wallet = FALSE, request.kind \in SignUpKinds,
         request.kind \in {"otp", "google"} => request.email \in Emails,
         request.kind = "github" => request.github \in GithubIds,
         up = "user" => request.address \in Addresses,
         LooksUp(r, request, users, up, in)
  PROVE  /\ Comes(r)
         /\ req'[r].kind = request.kind /\ req'[r].email = request.email
         /\ req'[r].github = request.github /\ req'[r].address = request.address
         /\ req'[r].code = request.code
         /\ \/ ComesToSignUp(r)
            \/ /\ ~req'[r].new /\ pc'[r] = in /\ req'[r].user \in users
               /\ req'[r].wallet => HasWallet(req'[r].user)
  <1>1. PICK found \in SUBSET users :
          /\ Finds(found, users)
          /\ \/ found = {} /\ Begins(r, [request EXCEPT !.new = TRUE], up)
             \/ \E u \in found :
                  Begins(r, [request EXCEPT !.user = u, !.wallet = HasWallet(u)], in)
    BY DEF LooksUp
  <1>2. UNCHANGED <<db, tx, nextUser, nextDetail, mailed>>
    BY DEF LooksUp
  <1>3. /\ disturbed' \in BOOLEAN /\ faults' \in Nat
        /\ disturbed' \/ (~disturbed /\ InFlight = {})
    <2>1. faults \in Nat /\ disturbed \in BOOLEAN
      BY DEF TypeOK
    <2>2. faults' = faults \/ faults' = faults + 1
      BY <1>1 DEF Finds
    <2>3. (disturbed' = (disturbed \/ InFlight # {})) \/ disturbed' = TRUE
      BY <1>1 DEF Finds, Overlaps
    <2>4. disturbed' \in BOOLEAN /\ (disturbed' \/ (~disturbed /\ InFlight = {}))
      BY <2>1, <2>3, Zenon
    <2> QED BY <2>1, <2>2, <2>4
  <1>4. up \in Steps \cup Ended /\ in \in Steps \cup Ended
    BY DEF Steps, Ended
  <1>5. CASE Begins(r, [request EXCEPT !.new = TRUE], up)
    <2> DEFINE q == [request EXCEPT !.new = TRUE]
    <2>1. /\ q \in RequestType /\ q.new = TRUE /\ q.referrer = 0 /\ q.user = 0
          /\ q.wallet = FALSE /\ q.kind = request.kind /\ q.email = request.email
          /\ q.github = request.github /\ q.address = request.address
          /\ q.code = request.code
      BY DEF RequestType
    <2> HIDE DEF q
    <2>2. Begins(r, q, up)
      BY <1>5 DEF q
    <2>3. /\ pc[r] = "idle" /\ \A p \in Requests : pc[p] = "idle" => r <= p
          /\ pc' \in [Requests -> {"idle"} \cup Steps \cup Ended] /\ pc'[r] = up
          /\ req' \in [Requests -> RequestType] /\ req'[r] = q
          /\ \A p \in Requests \ {r} : pc'[p] = pc[p] /\ req'[p] = req[p]
      BY <2>1, <2>2, <1>4, Begun
    <2>4. Comes(r)
      BY <2>1, <2>3, <1>2, <1>3 DEF Comes
    <2>5. ComesToSignUp(r)
      BY <2>1, <2>3 DEF ComesToSignUp
    <2> QED BY <2>1, <2>3, <2>4, <2>5
  <1>6. CASE \E u \in found :
                Begins(r, [request EXCEPT !.user = u, !.wallet = HasWallet(u)], in)
    <2>1. PICK u \in users :
            Begins(r, [request EXCEPT !.user = u, !.wallet = HasWallet(u)], in)
      BY <1>6
    <2> DEFINE q == [request EXCEPT !.user = u, !.wallet = HasWallet(u)]
    <2>0. HasWallet(u) \in BOOLEAN
      BY DEF HasWallet
    <2>2. /\ q \in RequestType /\ q.new = FALSE /\ q.referrer = 0 /\ q.user = u
          /\ q.kind = request.kind /\ q.email = request.email
          /\ q.github = request.github /\ q.address = request.address
          /\ q.code = request.code
      BY <2>0 DEF RequestType
    <2>3. q.wallet => HasWallet(u)
      BY DEF RequestType
    <2> HIDE DEF q
    <2>4. Begins(r, q, in)
      BY <2>1 DEF q
    <2>5. /\ pc[r] = "idle" /\ \A p \in Requests : pc[p] = "idle" => r <= p
          /\ pc' \in [Requests -> {"idle"} \cup Steps \cup Ended] /\ pc'[r] = in
          /\ req' \in [Requests -> RequestType] /\ req'[r] = q
          /\ \A p \in Requests \ {r} : pc'[p] = pc[p] /\ req'[p] = req[p]
      BY <2>2, <2>4, <1>4, Begun
    <2>6. Comes(r)
      BY <2>2, <2>5, <1>2, <1>3 DEF Comes
    <2> QED BY <2>2, <2>3, <2>5, <2>6
  <1> QED BY <1>1, <1>5, <1>6

(* Users that a query finds are numbers. *)
LEMMA FoundUsers ==
  ASSUME TypeOK
  PROVE  /\ \A e : UsersOfEmail(e) \in SUBSET Nat
         /\ \A a : UsersOfWallet(a) \in SUBSET Nat
         /\ \A g : UsersOfGithub(g) \in SUBSET Nat
  <1>1. /\ \A m \in db["emails"] : m.user \in Nat
        /\ \A w \in db["wallets"] : w.user \in Nat
        /\ \A h \in db["githubs"] : h.user \in Nat
    BY DEF TypeOK, RowsOK
  <1> QED BY <1>1 DEF UsersOfEmail, UsersOfWallet, UsersOfGithub

(* Every arrival is one of the three. *)
LEMMA Arrival ==
  ASSUME TypeOK, NEW r \in Requests, Arrives(r)
  PROVE  Comes(r) /\ (ComesToSignUp(r) \/ ComesToSignIn(r) \/ ComesToRead(r))
  <1> USE DEF SignUpKinds
  <1>0. /\ Offered \subseteq Addresses /\ Referrers \subseteq Addresses
        /\ {"otp", "google", "github", "nonce", "login", "verify", "referrals",
            "detail"} \subseteq Kinds
        /\ {"ok", "refused", "panicked"} \subseteq Steps \cup Ended
        /\ Nobody \in Codes
    BY ConstantsAssumption DEF Kinds, Ended, Answered, Codes
  <1>1. ASSUME NEW e \in Emails, NEW a \in Addresses \cup {Nobody}, NEW c \in Codes,
               StartOTP(r, e, a, c)
        PROVE  Comes(r) /\ (ComesToSignUp(r) \/ ComesToSignIn(r))
    <2> DEFINE request == Request("otp", e, Nobody, a, c)
    <2>1. /\ request \in RequestType /\ request.kind = "otp" /\ request.email = e
          /\ request.address = a /\ request.new = FALSE /\ request.wallet = FALSE
          /\ request.user = 0 /\ request.referrer = 0
      BY <1>0, NoDetailIsTyped DEF Request, RequestType
    <2>2. \/ a \in Addresses /\ LooksUp(r, request, UsersOfEmail(e), "user", "secret")
          \/ LooksUp(r, request, UsersOfEmail(e), "left", "secret")
      BY <1>1 DEF StartOTP
    <2>3. UsersOfEmail(e) \in SUBSET Nat
      BY FoundUsers
    <2> HIDE DEF request
    <2>4. /\ Comes(r) /\ req'[r].kind = "otp" /\ req'[r].email = e
          /\ \/ ComesToSignUp(r)
             \/ /\ ~req'[r].new /\ pc'[r] = "secret" /\ req'[r].user \in UsersOfEmail(e)
                /\ req'[r].wallet => HasWallet(req'[r].user)
      BY <2>1, <2>2, <2>3, LookedUp
    <2> QED BY <2>4 DEF ComesToSignIn
  <1>2. ASSUME NEW e \in Emails, NEW a \in Addresses \cup {Nobody}, NEW c \in Codes,
               OAuthGoogle(r, e, a, c)
        PROVE  Comes(r) /\ (ComesToSignUp(r) \/ ComesToSignIn(r))
    <2> DEFINE request == Request("google", e, Nobody, a, c)
    <2>1. /\ request \in RequestType /\ request.kind = "google" /\ request.email = e
          /\ request.address = a /\ request.new = FALSE /\ request.wallet = FALSE
          /\ request.user = 0 /\ request.referrer = 0
      BY <1>0, NoDetailIsTyped DEF Request, RequestType
    <2>2. \/ a \in Addresses /\ LooksUp(r, request, UsersOfEmail(e), "user", "commit")
          \/ LooksUp(r, request, UsersOfEmail(e), "left", "commit")
      BY <1>2 DEF OAuthGoogle
    <2>3. UsersOfEmail(e) \in SUBSET Nat
      BY FoundUsers
    <2> HIDE DEF request
    <2>4. /\ Comes(r) /\ req'[r].kind = "google" /\ req'[r].email = e
          /\ \/ ComesToSignUp(r)
             \/ /\ ~req'[r].new /\ pc'[r] = "commit" /\ req'[r].user \in UsersOfEmail(e)
                /\ req'[r].wallet => HasWallet(req'[r].user)
      BY <2>1, <2>2, <2>3, LookedUp
    <2> QED BY <2>4 DEF ComesToSignIn
  <1>3. ASSUME NEW g \in GithubIds, NEW a \in Addresses \cup {Nobody}, NEW c \in Codes,
               OAuthGithub(r, g, a, c)
        PROVE  Comes(r) /\ (ComesToSignUp(r) \/ ComesToSignIn(r))
    <2> DEFINE request == Request("github", Nobody, g, a, c)
    <2>1. /\ request \in RequestType /\ request.kind = "github" /\ request.github = g
          /\ request.address = a /\ request.new = FALSE /\ request.wallet = FALSE
          /\ request.user = 0 /\ request.referrer = 0
      BY <1>0, NoDetailIsTyped DEF Request, RequestType
    <2>2. \/ a \in Addresses /\ LooksUp(r, request, UsersOfGithub(g), "user", "commit")
          \/ LooksUp(r, request, UsersOfGithub(g), "refused", "commit")
      BY <1>3 DEF OAuthGithub
    <2>3. UsersOfGithub(g) \in SUBSET Nat
      BY FoundUsers
    <2> HIDE DEF request
    <2>4. /\ Comes(r) /\ req'[r].kind = "github" /\ req'[r].github = g
          /\ \/ ComesToSignUp(r)
             \/ /\ ~req'[r].new /\ pc'[r] = "commit" /\ req'[r].user \in UsersOfGithub(g)
                /\ req'[r].wallet => HasWallet(req'[r].user)
      BY <2>1, <2>2, <2>3, LookedUp
    <2> QED BY <2>4 DEF ComesToSignIn
  <1>4. ASSUME NEW a \in Addresses, NEW c \in Codes, RequestNonce(r, a, c)
        PROVE  Comes(r) /\ (ComesToSignUp(r) \/ ComesToSignIn(r))
    <2> DEFINE request == Request("nonce", Nobody, Nobody, a, c)
    <2>1. /\ request \in RequestType /\ request.kind = "nonce" /\ request.address = a
          /\ request.new = FALSE /\ request.wallet = FALSE
          /\ request.user = 0 /\ request.referrer = 0
      BY <1>0, NoDetailIsTyped DEF Request, RequestType
    <2>2. LooksUp(r, request, UsersOfWallet(a), "user", "renew")
      BY <1>4 DEF RequestNonce
    <2>3. UsersOfWallet(a) \in SUBSET Nat
      BY FoundUsers
    <2> HIDE DEF request
    <2>4. /\ Comes(r) /\ req'[r].kind = "nonce" /\ req'[r].address = a
          /\ \/ ComesToSignUp(r)
             \/ /\ ~req'[r].new /\ pc'[r] = "renew" /\ req'[r].user \in UsersOfWallet(a)
                /\ req'[r].wallet => HasWallet(req'[r].user)
      BY <2>1, <2>2, <2>3, LookedUp
    <2> QED BY <2>4 DEF ComesToSignIn
  <1>5. ASSUME NEW a \in Referrers, FetchReferredUsers(r, a)
        PROVE  Comes(r) /\ ComesToRead(r)
    <2>1. PICK u \in UsersOfWallet(a) :
        Begins(r, [Request("referrals", Nobody, Nobody, a, Nobody) EXCEPT
                    !.user = u,
                    !.answer = {w.address : w \in {v \in db["wallets"] :
                        \E d \in ReferredBy(u) : d.user = v.user}}],
               IF DetailsOf(u) = {} THEN "refused" ELSE "ok")
      BY <1>5 DEF FetchReferredUsers
    <2> DEFINE answer == {w.address : w \in {v \in db["wallets"] :
                            \E d \in ReferredBy(u) : d.user = v.user}}
               request == [Request("referrals", Nobody, Nobody, a, Nobody) EXCEPT
                            !.user = u, !.answer = answer]
               step == IF DetailsOf(u) = {} THEN "refused" ELSE "ok"
    <2>2. /\ answer \in SUBSET Addresses /\ u \in Nat /\ HasWallet(u) /\ a \in Addresses
          /\ Begins(r, request, step) /\ step \in {"ok", "refused"}
      <3>1. answer \in SUBSET Addresses
        BY DEF TypeOK, RowsOK
      <3>2. u \in Nat /\ a \in Addresses
        BY <1>0, FoundUsers
      <3>3. HasWallet(u)
        BY DEF HasWallet, UsersOfWallet
      <3> QED BY <2>1, <3>1, <3>2, <3>3
    <2> HIDE DEF answer
    <2>3. /\ UNCHANGED <<db, tx, nextUser, nextDetail, mailed>>
          /\ disturbed' \in BOOLEAN /\ faults' \in Nat
          /\ disturbed' \/ (~disturbed /\ InFlight = {})
      <3>1. /\ UNCHANGED <<db, tx, nextUser, nextDetail, mailed>>
            /\ faults' = faults /\ Overlaps /\ faults \in Nat
        BY <1>5 DEF FetchReferredUsers, TypeOK
      <3> QED BY <3>1, OverlapIsNoted
    <2>4. /\ Comes(r) /\ req'[r].kind = "referrals" /\ ~req'[r].new /\ ~req'[r].wallet
          /\ req'[r].user = u /\ pc'[r] = step
      <3>1. /\ request \in RequestType /\ request.kind = "referrals" /\ request.new = FALSE
            /\ request.wallet = FALSE /\ request.user = u /\ request.referrer = 0
        BY <1>0, <2>2, NoDetailIsTyped DEF Request, RequestType
      <3>2. Begins(r, request, step) /\ step \in Steps \cup Ended
        BY <1>0, <2>2
      <3> HIDE DEF request, step
      <3> QED BY <3>1, <3>2, <2>3, Begun DEF Comes
    <2> QED BY <2>2, <2>4 DEF ComesToRead
  <1>6. ASSUME NEW q \in Requests, LoginUser(r, q)
        PROVE  Comes(r) /\ ComesToRead(r)
    <2> DEFINE a == req[q].address
    <2>1. PICK w \in db["wallets"] :
            /\ w.address = a
            /\ Begins(r, [Request("login", Nobody, Nobody, a, Nobody) EXCEPT !.user = w.user],
                      IF w.nonce = q THEN "ok" ELSE "refused")
      BY <1>6 DEF LoginUser
    <2> DEFINE request == [Request("login", Nobody, Nobody, a, Nobody) EXCEPT !.user = w.user]
               step == IF w.nonce = q THEN "ok" ELSE "refused"
    <2>2. /\ Begins(r, request, step) /\ step \in {"ok", "refused"}
          /\ w.user \in Nat /\ a \in Addresses /\ HasWallet(w.user)
      BY <2>1 DEF TypeOK, RowsOK, HasWallet
    <2> HIDE DEF a
    <2>3. /\ UNCHANGED <<db, tx, nextUser, nextDetail, mailed>>
          /\ disturbed' \in BOOLEAN /\ faults' \in Nat
          /\ disturbed' \/ (~disturbed /\ InFlight = {})
      <3>1. /\ UNCHANGED <<db, tx, nextUser, nextDetail, mailed>>
            /\ faults' = faults /\ Overlaps /\ faults \in Nat
        BY <1>6 DEF LoginUser, TypeOK
      <3> QED BY <3>1, OverlapIsNoted
    <2>4. /\ Comes(r) /\ req'[r].kind = "login" /\ ~req'[r].new /\ ~req'[r].wallet
          /\ req'[r].user = w.user /\ pc'[r] = step
      <3>1. /\ request \in RequestType /\ request.kind = "login" /\ request.new = FALSE
            /\ request.wallet = FALSE /\ request.user = w.user /\ request.referrer = 0
        BY <1>0, <2>2, NoDetailIsTyped DEF Request, RequestType
      <3>2. Begins(r, request, step) /\ step \in Steps \cup Ended
        BY <1>0, <2>2
      <3> HIDE DEF request, step
      <3> QED BY <3>1, <3>2, <2>3, Begun DEF Comes
    <2> QED BY <2>2, <2>4 DEF ComesToRead
  <1>7. ASSUME NEW q \in Requests, VerifyOTP(r, q)
        PROVE  Comes(r) /\ ComesToRead(r)
    <2> DEFINE e == req[q].email
    <2>1. PICK m \in db["emails"] :
            /\ m.email = e
            /\ Begins(r, [Request("verify", e, Nobody, Nobody, Nobody) EXCEPT !.user = m.user],
                      IF m.secret = q THEN "ok" ELSE "refused")
      BY <1>7 DEF VerifyOTP
    <2> DEFINE request == [Request("verify", e, Nobody, Nobody, Nobody) EXCEPT !.user = m.user]
               step == IF m.secret = q THEN "ok" ELSE "refused"
    <2>2. /\ Begins(r, request, step) /\ step \in {"ok", "refused"}
          /\ m.user \in Nat /\ e \in Emails /\ q \in mailed
      BY <1>7, <2>1 DEF TypeOK, RowsOK, VerifyOTP
    <2>5. step = "ok" => m.secret = q
      OBVIOUS
    <2> HIDE DEF e
    <2>3. /\ UNCHANGED <<db, tx, nextUser, nextDetail, mailed>>
          /\ disturbed' \in BOOLEAN /\ faults' \in Nat
          /\ disturbed' \/ (~disturbed /\ InFlight = {})
      <3>1. /\ UNCHANGED <<db, tx, nextUser, nextDetail, mailed>>
            /\ faults' = faults /\ Overlaps /\ faults \in Nat
        BY <1>7 DEF VerifyOTP, TypeOK
      <3> QED BY <3>1, OverlapIsNoted
    <2>4. /\ Comes(r) /\ req'[r].kind = "verify" /\ ~req'[r].new /\ ~req'[r].wallet
          /\ req'[r].user = m.user /\ pc'[r] = step
      <3>1. /\ request \in RequestType /\ request.kind = "verify" /\ request.new = FALSE
            /\ request.wallet = FALSE /\ request.user = m.user /\ request.referrer = 0
        BY <1>0, <2>2, NoDetailIsTyped DEF Request, RequestType
      <3>2. Begins(r, request, step) /\ step \in Steps \cup Ended
        BY <1>0, <2>2
      <3> HIDE DEF request, step
      <3> QED BY <3>1, <3>2, <2>3, Begun DEF Comes
    <2> HIDE DEF request, step
    <2> QED BY <2>1, <2>2, <2>4, <2>5 DEF ComesToRead, e
  <1>8. ASSUME NEW u \in TokenHolders, GetUserDetail(r, u)
        PROVE  Comes(r) /\ ComesToRead(r)
    <2> DEFINE request == [Request("detail", Nobody, Nobody, Nobody, Nobody) EXCEPT
                            !.user = u]
               step == CASE DetailsOf(u) = {} -> "refused"
                         [] DetailsOf(u) # {} /\ HasWallet(u) -> "ok"
                         [] OTHER -> "panicked"
    <2>1. u \in Nat
      BY Types DEF TokenHolders, RequestType
    <2>2. Begins(r, request, step) /\ step \in {"ok", "refused", "panicked"}
      BY <1>8 DEF GetUserDetail
    <2>3. /\ UNCHANGED <<db, tx, nextUser, nextDetail, mailed>>
          /\ disturbed' \in BOOLEAN /\ faults' \in Nat
          /\ disturbed' \/ (~disturbed /\ InFlight = {})
      <3>1. /\ UNCHANGED <<db, tx, nextUser, nextDetail, mailed>>
            /\ faults' = faults /\ Overlaps /\ faults \in Nat
        BY <1>8 DEF GetUserDetail, TypeOK
      <3> QED BY <3>1, OverlapIsNoted
    <2>4. /\ Comes(r) /\ req'[r].kind = "detail" /\ ~req'[r].new /\ ~req'[r].wallet
          /\ req'[r].user = u /\ pc'[r] = step
      <3>1. /\ request \in RequestType /\ request.kind = "detail" /\ request.new = FALSE
            /\ request.wallet = FALSE /\ request.user = u /\ request.referrer = 0
        BY <1>0, <2>1, NoDetailIsTyped DEF Request, RequestType
      <3>2. Begins(r, request, step) /\ step \in Steps \cup Ended
        BY <1>0, <2>2
      <3> HIDE DEF request, step
      <3> QED BY <3>1, <3>2, <2>3, Begun DEF Comes
    <2> HIDE DEF step
    <2> QED BY <2>1, <2>2, <2>4 DEF ComesToRead
  <1> QED BY <1>0, <1>1, <1>2, <1>3, <1>4, <1>5, <1>6, <1>7, <1>8 DEF Arrives, Codes

-----------------------------------------------------------------------------
(* What the steps do, table by table                                       *)

DbAdds(t, S) == db'[t] = db[t] \cup S /\ \A s \in Tables \ {t} : db'[s] = db[s]
TxAdds(r, t, S) ==
    tx'[r][t] = tx[r][t] \cup S /\ \A s \in Tables \ {t} : tx'[r][s] = tx[r][s]
CreatesIn(r, t, row) ==
    \/ req[r].kind = "github" /\ TxAdds(r, t, {row}) /\ UNCHANGED db
    \/ req[r].kind # "github" /\ DbAdds(t, {row}) /\ UNCHANGED tx
Commits(r) == tx'[r] = NoRows /\ \A t \in Tables : db'[t] = db[t] \cup tx[r][t]

(* a request ends without having changed a row *)
Stops(r) ==
    /\ pc[r] \in Steps /\ pc'[r] \in Ended \ {"ok"}
    /\ tx'[r] \in {tx[r], NoRows}
    /\ mailed' = mailed \/ (pc[r] = "mail" /\ mailed' = mailed \cup {r})
    /\ pc'[r] = "unsaved" => \/ pc[r] = "mail"
                             \/ pc[r] = "commit" /\ (req[r].kind = "github" \/ req[r].wallet)
    /\ disturbed' \/ /\ pc[r] \notin {"count", "saveDetail"}
                     /\ pc[r] = "readDetail" => DetailsOf(req[r].referrer) = {}
    /\ UNCHANGED <<db, nextUser, nextDetail, req>>

InsertedUser(r) ==
    /\ pc[r] = "user"
    /\ pc'[r] = IF req[r].kind \in {"otp", "google"} THEN "email" ELSE "wallet"
    /\ CreatesIn(r, "users", nextUser) /\ nextUser' = nextUser + 1
    /\ req'[r].user = nextUser /\ req'[r].wallet
    /\ req'[r].referrer = req[r].referrer
    /\ UNCHANGED <<nextDetail, mailed>>

InsertedEmail(r) ==
    /\ pc[r] = "email" /\ pc'[r] = "wallet"
    /\ UsersOfEmail(req[r].email) = {}
    /\ DbAdds("emails", {[email |-> req[r].email, user |-> req[r].user,
                          secret |-> IF req[r].kind = "otp" THEN r ELSE 0]})
    /\ UNCHANGED <<tx, req, nextUser, nextDetail, mailed>>

InsertedWallet(r) ==
    /\ pc[r] = "wallet"
    /\ \/ req[r].kind = "github" /\ pc'[r] = "github"
       \/ req[r].kind = "nonce" /\ pc'[r] = "firstDetail"
       \/ req[r].kind \notin {"github", "nonce"} /\ pc'[r] = "code"
    /\ UsersOfWallet(req[r].address) = {}
    /\ CreatesIn(r, "wallets",
                 [address |-> req[r].address, nonce |-> r, user |-> req[r].user])
    /\ UNCHANGED <<req, nextUser, nextDetail, mailed>>

InsertedGithub(r) ==
    /\ pc[r] = "github" /\ pc'[r] = "firstDetail"
    /\ CreatesIn(r, "githubs", [github |-> req[r].github, user |-> req[r].user])
    /\ UNCHANGED <<req, nextUser, nextDetail, mailed>>

InsertedFirstDetail(r) ==
    /\ pc[r] = "firstDetail"
    /\ \/ req[r].kind = "github" /\ pc'[r] = "code"
       \/ req[r].kind # "github" /\ req[r].code = "ns" /\ pc'[r] = "mark"
       \/ req[r].kind # "github" /\ req[r].code # "ns" /\ pc'[r] = "ok"
    /\ CreatesIn(r, "details", Detail(nextDetail, req[r].user, 0))
    /\ nextDetail' = nextDetail + 1
    /\ UNCHANGED <<req, nextUser, mailed>>

CheckedCode(r) ==
    /\ pc[r] = "code" /\ pc'[r] = "detail"
    /\ req'[r].user = req[r].user /\ req'[r].wallet = req[r].wallet
    /\ \/ /\ req[r].code = "ns" /\ TxAdds(r, "referred_users", {req[r].user})
          /\ UNCHANGED req
       \/ /\ req[r].code # "ns" /\ UNCHANGED tx
          /\ req'[r].referrer \in UsersOfWallet(req[r].code) \cup {req[r].referrer}
    /\ UNCHANGED <<db, nextUser, nextDetail, mailed>>

InsertedDetail(r) ==
    LET detail == Detail(nextDetail, req[r].user, req[r].referrer) IN
    /\ pc[r] = "detail"
    /\ \/ req[r].referrer # 0 /\ pc'[r] = "referral"
       \/ req[r].referrer = 0 /\ req[r].kind = "otp" /\ pc'[r] = "mail"
       \/ req[r].referrer = 0 /\ req[r].kind # "otp" /\ pc'[r] = "commit"
    /\ \/ req[r].kind = "otp" /\ DbAdds("details", {detail}) /\ UNCHANGED tx
       \/ req[r].kind # "otp" /\ TxAdds(r, "details", {detail}) /\ UNCHANGED db
    /\ nextDetail' = nextDetail + 1
    /\ req'[r].user = req[r].user /\ req'[r].wallet = req[r].wallet
    /\ req'[r].referrer = req[r].referrer /\ req'[r].detail = nextDetail
    /\ UNCHANGED <<nextUser, mailed>>

CreatedReferral(r) ==
    /\ pc[r] = "referral" /\ pc'[r] = "readDetail"
    /\ PartsExist(r)
    /\ DbAdds("referrals", {[referrer |-> req[r].referrer, referred |-> req[r].user,
                             detail |-> req[r].detail]})
    /\ UNCHANGED <<tx, req, nextUser, nextDetail, mailed>>

HasReadDetail(r) ==
    /\ pc[r] = "readDetail" /\ pc'[r] = "count"
    /\ \E d \in db["details"] : IsDetail(d, req[r].referrer) /\ req'[r].read = d
    /\ req'[r].user = req[r].user /\ req'[r].wallet = req[r].wallet
    /\ req'[r].referrer = req[r].referrer
    /\ UNCHANGED <<db, tx, nextUser, nextDetail, mailed>>

CountedReferrals(r) ==
    /\ pc[r] = "count"
    /\ \/ req[r].read.bonus = Limit /\ pc'[r] = "mail" /\ UNCHANGED req
       \/ /\ req[r].read.bonus # Limit /\ pc'[r] = "saveDetail"
          /\ req'[r].read = [req[r].read EXCEPT !.bonus =
                                Cardinality(ReferralsOf(req[r].read.user))]
          /\ req'[r].user = req[r].user /\ req'[r].wallet = req[r].wallet
          /\ req'[r].referrer = req[r].referrer
    /\ UNCHANGED <<db, tx, nextUser, nextDetail, mailed>>

SavedDetail(r) ==
    /\ pc[r] = "saveDetail" /\ pc'[r] = "mail"
    /\ db'["details"] = {IF d.id = req[r].read.id THEN req[r].read ELSE d :
                         d \in db["details"]}
    /\ \A t \in Tables \ {"details"} : db'[t] = db[t]
    /\ UNCHANGED <<tx, req, nextUser, nextDetail, mailed>>

MarkedReferred(r) ==
    /\ pc[r] = "mark" /\ pc'[r] = "ok"
    /\ DbAdds("referred_users", {req[r].user})
    /\ UNCHANGED <<tx, req, nextUser, nextDetail, mailed>>

SavedSecret(r) ==
    /\ pc[r] = "secret" /\ pc'[r] = IF req[r].wallet THEN "mail" ELSE "panicked"
    /\ db'["emails"] = {[m EXCEPT !.secret = IF m.email = req[r].email THEN r ELSE @] :
                        m \in db["emails"]}
    /\ \A t \in Tables \ {"emails"} : db'[t] = db[t]
    /\ UNCHANGED <<tx, req, nextUser, nextDetail, mailed>>

SentMail(r) ==
    /\ pc[r] = "mail" /\ pc'[r] = "ok"
    /\ mailed' = mailed \cup {r} /\ Commits(r)
    /\ UNCHANGED <<req, nextUser, nextDetail>>

HasCommitted(r) ==
    /\ pc[r] = "commit" /\ pc'[r] = "ok"
    /\ req[r].kind = "github" \/ req[r].wallet
    /\ Commits(r)
    /\ UNCHANGED <<req, nextUser, nextDetail, mailed>>

RenewedNonce(r) ==
    /\ pc[r] = "renew" /\ pc'[r] = "ok"
    /\ db'["wallets"] = {[w EXCEPT !.nonce = IF w.address = req[r].address THEN r ELSE @] :
                         w \in db["wallets"]}
    /\ \A t \in Tables \ {"wallets"} : db'[t] = db[t]
    /\ UNCHANGED <<tx, req, nextUser, nextDetail, mailed>>

(* a request goes on or stops *)
GoesOn(r) ==
    /\ Alone(r) /\ Same(r)
    /\ \/ InsertedUser(r) \/ InsertedEmail(r) \/ InsertedWallet(r) \/ InsertedGithub(r)
       \/ InsertedFirstDetail(r) \/ CheckedCode(r) \/ InsertedDetail(r)
       \/ CreatedReferral(r) \/ HasReadDetail(r) \/ CountedReferrals(r) \/ SavedDetail(r)
       \/ MarkedReferred(r) \/ SavedSecret(r) \/ SentMail(r) \/ HasCommitted(r)
       \/ RenewedNonce(r) \/ Stops(r)

(* what a step leaves well-typed when its rows are *)
ValuesFit ==
    /\ db' = [t \in Tables |-> db'[t]] /\ DOMAIN tx' = Requests
    /\ \A r \in Requests : tx'[r] = [t \in Tables |-> tx'[r][t]]
    /\ pc' \in [Requests -> {"idle"} \cup Steps \cup Ended]
    /\ req' \in [Requests -> RequestType]
    /\ nextUser' \in Nat /\ nextDetail' \in Nat
    /\ mailed' \subseteq Requests
    /\ disturbed' \in BOOLEAN /\ faults' \in Nat
    /\ disturbed => disturbed'

(* an upload charges the detail of its user *)
Uploaded ==
    /\ \E d \in db["details"] :
        /\ IsDetail(d, d.user)
        /\ db'["details"] = (db["details"] \ {d}) \cup {[d EXCEPT !.used = @ + 1]}
    /\ \A t \in Tables \ {"details"} : db'[t] = db[t]
    /\ disturbed' \/ (~disturbed /\ InFlight = {})
    /\ UNCHANGED <<tx, nextUser, nextDetail, pc, req, mailed>>

(* a crash ends all requests *)
Crashed ==
    /\ disturbed'
    /\ \A r \in Requests : /\ pc[r] \in Steps => pc'[r] = "lost"
                           /\ pc[r] \notin Steps => pc'[r] = pc[r]
                           /\ tx'[r] = NoRows
    /\ UNCHANGED <<db, nextUser, nextDetail, req, mailed>>

-----------------------------------------------------------------------------
(* Each step does one of them.                                             *)

(* What Goes says of pc. *)
LEMMA Went ==
  ASSUME TypeOK, NEW r \in Requests, NEW step \in Steps \cup Ended, Goes(r, step)
  PROVE  /\ pc'[r] = step /\ \A q \in Requests \ {r} : pc'[q] = pc[q]
         /\ pc' \in [Requests -> {"idle"} \cup Steps \cup Ended]
  BY Types DEF Goes

(* What holds of a variable that a step leaves alone. *)
LEMMA Unmoved ==
  ASSUME TypeOK
  PROVE  /\ db = [t \in Tables |-> db[t]] /\ DOMAIN tx = Requests
         /\ \A r \in Requests : tx[r] = [t \in Tables |-> tx[r][t]]
         /\ req \in [Requests -> RequestType]
         /\ nextUser \in Nat /\ nextDetail \in Nat /\ mailed \subseteq Requests
         /\ disturbed \in BOOLEAN /\ faults \in Nat
  BY Types DEF TypeOK

(* Create inserts the row in the transaction or at once. *)
LEMMA RowCreated ==
  ASSUME TypeOK, NEW r \in Requests, NEW t \in Tables, NEW row, CreatesRow(r, t, row)
  PROVE  /\ CreatesIn(r, t, row)
         /\ \A q \in Requests \ {r} : tx'[q] = tx[q]
         /\ db' = [s \in Tables |-> db'[s]] /\ DOMAIN tx' = Requests
         /\ \A q \in Requests : tx'[q] = [s \in Tables |-> tx'[q][s]]
  <1>1. CASE InTx(r)
    <2>1. TxInsertRow(r, t, row) /\ db' = db
      BY <1>1 DEF CreatesRow
    <2> QED BY <1>1, <2>1, TxRowInserted, Unmoved DEF InTx, CreatesIn, TxAdds
  <1>2. CASE ~InTx(r)
    <2>1. InsertRow(t, row) /\ tx' = tx
      BY <1>2 DEF CreatesRow
    <2> QED BY <1>2, <2>1, RowInserted, Unmoved DEF InTx, CreatesIn, DbAdds
  <1> QED BY <1>1, <1>2

(* An error of Create ends the request. *)
LEMMA Failed ==
  ASSUME TypeOK, NEW r \in Requests, CreateFails(r), pc[r] \in {"email", "wallet", "github"},
         UNCHANGED <<db, nextUser, nextDetail, req, mailed, disturbed, faults>>
  PROVE  Stops(r) /\ Alone(r) /\ Same(r) /\ ValuesFit
  <1>0. /\ {"left", "refused"} \subseteq Ended \ {"ok", "unsaved"} /\ pc[r] \in Steps
        /\ {"left", "refused"} \subseteq Steps \cup Ended
    BY DEF Ended, Answered, Steps
  <1>1. CASE Goes(r, "left") /\ UNCHANGED tx
    BY <1>0, <1>1, Went, Unmoved DEF Stops, Alone, Same, ValuesFit
  <1>2. CASE Goes(r, "refused") /\ Rollback(r)
    BY <1>0, <1>2, Went, Unmoved, RolledBack, NothingInserted DEF Stops, Alone, Same, ValuesFit
  <1> QED BY <1>1, <1>2 DEF CreateFails

(* The INSERT of the user. *)
LEMMA DoesInsertUser ==
  ASSUME TypeOK, NEW r \in Requests, InsertUser(r)
  PROVE  InsertedUser(r) /\ Alone(r) /\ Same(r) /\ ValuesFit
  <1>1. /\ pc[r] = "user" /\ CreatesRow(r, "users", nextUser) /\ nextUser' = nextUser + 1
        /\ req' = [req EXCEPT ![r].user = nextUser, ![r].wallet = TRUE]
        /\ Goes(r, IF req[r].kind \in {"otp", "google"} THEN "email" ELSE "wallet")
        /\ UNCHANGED <<nextDetail, mailed, disturbed, faults>>
    BY DEF InsertUser
  <1>2. /\ pc'[r] = IF req[r].kind \in {"otp", "google"} THEN "email" ELSE "wallet"
        /\ \A q \in Requests \ {r} : pc'[q] = pc[q]
        /\ pc' \in [Requests -> {"idle"} \cup Steps \cup Ended]
    BY <1>1, Went DEF Steps
  <1>3. /\ req' \in [Requests -> RequestType] /\ \A q \in Requests \ {r} : req'[q] = req[q]
        /\ Same(r) /\ req'[r].user = nextUser /\ req'[r].wallet
        /\ req'[r].referrer = req[r].referrer
    <2>1. req[r] \in RequestType /\ nextUser \in Nat
      BY Unmoved
    <2>2. req' = [req EXCEPT ![r] = [req[r] EXCEPT !.user = nextUser, !.wallet = TRUE]]
      BY <1>1, Unmoved
    <2>3. [req[r] EXCEPT !.user = nextUser, !.wallet = TRUE] \in RequestType
      BY <2>1 DEF RequestType
    <2>4. req'[r] = [req[r] EXCEPT !.user = nextUser, !.wallet = TRUE]
      BY <2>2, Unmoved
    <2>5. Same(r) /\ req'[r].user = nextUser /\ req'[r].wallet
          /\ req'[r].referrer = req[r].referrer
      BY <2>1, <2>4 DEF RequestType, Same
    <2> QED BY <2>2, <2>3, <2>5, Unmoved
  <1>4. "users" \in Tables
    BY TableNames
  <1>5. /\ CreatesIn(r, "users", nextUser) /\ \A q \in Requests \ {r} : tx'[q] = tx[q]
        /\ db' = [s \in Tables |-> db'[s]] /\ DOMAIN tx' = Requests
        /\ \A q \in Requests : tx'[q] = [s \in Tables |-> tx'[q][s]]
    BY <1>1, <1>4, RowCreated
  <1>6. nextUser' \in Nat /\ nextDetail' \in Nat /\ mailed' \subseteq Requests
        /\ disturbed' \in BOOLEAN /\ faults' \in Nat
    BY <1>1, Unmoved
  <1> QED BY <1>1, <1>2, <1>3, <1>5, <1>6 DEF InsertedUser, Alone, ValuesFit

(* The INSERT of the email, or its unique key is taken. *)
LEMMA DoesInsertEmail ==
  ASSUME TypeOK, NEW r \in Requests, InsertEmail(r)
  PROVE  (InsertedEmail(r) \/ Stops(r)) /\ Alone(r) /\ Same(r) /\ ValuesFit
  <1>1. pc[r] = "email" /\ UNCHANGED <<nextUser, nextDetail, req, mailed, disturbed, faults>>
    BY DEF InsertEmail
  <1>2. "email" \in Steps /\ "wallet" \in Steps \cup Ended /\ "emails" \in Tables
    BY TableNames DEF Steps
  <1>3. CASE CreateFails(r) /\ UNCHANGED db
    BY <1>1, <1>2, <1>3, Failed
  <1>4. CASE ~(CreateFails(r) /\ UNCHANGED db)
    <2> DEFINE row == [email |-> req[r].email, user |-> req[r].user,
                       secret |-> IF req[r].kind = "otp" THEN r ELSE 0]
    <2>1. /\ UsersOfEmail(req[r].email) = {} /\ InsertRow("emails", row)
          /\ Goes(r, "wallet") /\ UNCHANGED tx
      BY <1>4 DEF InsertEmail
    <2>2. /\ DbAdds("emails", {row}) /\ db' = [s \in Tables |-> db'[s]]
      <3> HIDE DEF row
      <3> QED BY <1>2, <2>1, RowInserted DEF DbAdds
    <2> QED BY <1>1, <1>2, <2>1, <2>2, Went, Unmoved
            DEF InsertedEmail, Alone, Same, ValuesFit
  <1> QED BY <1>3, <1>4

(* The INSERT of the wallet, or its unique key is taken. *)
LEMMA DoesInsertWallet ==
  ASSUME TypeOK, NEW r \in Requests, InsertWallet(r)
  PROVE  (InsertedWallet(r) \/ Stops(r)) /\ Alone(r) /\ Same(r) /\ ValuesFit
  <1>1. pc[r] = "wallet" /\ UNCHANGED <<nextUser, nextDetail, req, mailed, disturbed, faults>>
    BY DEF InsertWallet
  <1>2. "wallet" \in Steps /\ {"github", "firstDetail", "code"} \subseteq Steps /\ "wallets" \in Tables
    BY TableNames DEF Steps
  <1>3. CASE CreateFails(r) /\ UNCHANGED db
    BY <1>1, <1>2, <1>3, Failed
  <1>4. CASE ~(CreateFails(r) /\ UNCHANGED db)
    <2> DEFINE row == [address |-> req[r].address, nonce |-> r, user |-> req[r].user]
               step == CASE InTx(r) -> "github"
                         [] req[r].kind = "nonce" -> "firstDetail"
                         [] OTHER -> "code"
    <2>1. /\ UsersOfWallet(req[r].address) = {} /\ CreatesRow(r, "wallets", row)
          /\ Goes(r, step)
      BY <1>4 DEF InsertWallet
    <2>2. step \in Steps
      BY <1>2
    <2>3. /\ CreatesIn(r, "wallets", row) /\ \A q \in Requests \ {r} : tx'[q] = tx[q]
          /\ db' = [s \in Tables |-> db'[s]] /\ DOMAIN tx' = Requests
          /\ \A q \in Requests : tx'[q] = [s \in Tables |-> tx'[q][s]]
      <3> HIDE DEF row
      <3> QED BY <1>2, <2>1, RowCreated
    <2>4. InsertedWallet(r)
      <3>1. pc'[r] = step
        BY <2>1, <2>2, Went
      <3> QED BY <1>1, <2>1, <2>3, <3>1 DEF InsertedWallet, InTx
    <2> HIDE DEF row, step
    <2> QED BY <1>1, <1>2, <2>1, <2>2, <2>3, <2>4, Went, Unmoved DEF Alone, Same, ValuesFit
  <1> QED BY <1>3, <1>4

(* The INSERT of the GitHub account, or its unique key is taken. *)
LEMMA DoesInsertGithub ==
  ASSUME TypeOK, NEW r \in Requests, InsertGithub(r)
  PROVE  (InsertedGithub(r) \/ Stops(r)) /\ Alone(r) /\ Same(r) /\ ValuesFit
  <1>1. pc[r] = "github" /\ UNCHANGED <<nextUser, nextDetail, req, mailed, disturbed, faults>>
    BY DEF InsertGithub
  <1>2. {"github", "firstDetail"} \subseteq Steps /\ "githubs" \in Tables
    BY TableNames DEF Steps
  <1>3. CASE CreateFails(r) /\ UNCHANGED db
    BY <1>1, <1>2, <1>3, Failed
  <1>4. CASE ~(CreateFails(r) /\ UNCHANGED db)
    <2> DEFINE row == [github |-> req[r].github, user |-> req[r].user]
    <2>1. CreatesRow(r, "githubs", row) /\ Goes(r, "firstDetail")
      BY <1>4 DEF InsertGithub
    <2>3. /\ CreatesIn(r, "githubs", row) /\ \A q \in Requests \ {r} : tx'[q] = tx[q]
          /\ db' = [s \in Tables |-> db'[s]] /\ DOMAIN tx' = Requests
          /\ \A q \in Requests : tx'[q] = [s \in Tables |-> tx'[q][s]]
      <3> HIDE DEF row
      <3> QED BY <1>2, <2>1, RowCreated
    <2>4. InsertedGithub(r)
      BY <1>1, <1>2, <2>1, <2>3, Went DEF InsertedGithub
    <2> HIDE DEF row
    <2> QED BY <1>1, <1>2, <2>1, <2>3, <2>4, Went, Unmoved DEF Alone, Same, ValuesFit
  <1> QED BY <1>3, <1>4

(* The INSERT of the detail that is created with the user. *)
LEMMA DoesInsertFirstDetail ==
  ASSUME TypeOK, NEW r \in Requests, InsertFirstDetail(r)
  PROVE  InsertedFirstDetail(r) /\ Alone(r) /\ Same(r) /\ ValuesFit
  <1> DEFINE row == Detail(nextDetail, req[r].user, 0)
             step == CASE InTx(r) -> "code"
                       [] ~InTx(r) /\ req[r].code = "ns" -> "mark"
                       [] OTHER -> "ok"
  <1>1. /\ pc[r] = "firstDetail" /\ CreatesRow(r, "details", row)
        /\ nextDetail' = nextDetail + 1 /\ Goes(r, step)
        /\ UNCHANGED <<nextUser, req, mailed, disturbed, faults>>
    BY DEF InsertFirstDetail
  <1>2. step \in Steps \cup Ended /\ "details" \in Tables
    BY TableNames DEF Steps, Ended, Answered
  <1>3. /\ CreatesIn(r, "details", row) /\ \A q \in Requests \ {r} : tx'[q] = tx[q]
        /\ db' = [s \in Tables |-> db'[s]] /\ DOMAIN tx' = Requests
        /\ \A q \in Requests : tx'[q] = [s \in Tables |-> tx'[q][s]]
    <2> HIDE DEF row
    <2> QED BY <1>1, <1>2, RowCreated
  <1>4. InsertedFirstDetail(r)
    <2>1. pc'[r] = step
      BY <1>1, <1>2, Went
    <2> QED BY <1>1, <1>3, <2>1 DEF InsertedFirstDetail, InTx
  <1> HIDE DEF row, step
  <1>5. nextDetail' \in Nat
    BY <1>1, Unmoved
  <1> QED BY <1>1, <1>2, <1>3, <1>4, <1>5, Went, Unmoved DEF Alone, Same, ValuesFit

(* The code of a sign-up: the mark of the agency, or a referrer. *)
LEMMA DoesCheckReferralCode ==
  ASSUME TypeOK, NEW r \in Requests, CheckReferralCode(r)
  PROVE  (CheckedCode(r) \/ Stops(r)) /\ Alone(r) /\ Same(r) /\ ValuesFit
  <1>1. /\ pc[r] = "code"
        /\ UNCHANGED <<db, nextUser, nextDetail, mailed, disturbed, faults>>
    BY DEF CheckReferralCode
  <1>2. /\ "code" \in Steps /\ "detail" \in Steps \cup Ended
        /\ "panicked" \in Ended \ {"ok", "unsaved"} /\ "referred_users" \in Tables
    BY TableNames DEF Steps, Ended, Answered, Abandoned
  <1>3. CASE Goes(r, "panicked") /\ UNCHANGED <<tx, req>>
    BY <1>1, <1>2, <1>3, Went, Unmoved DEF Stops, Alone, Same, ValuesFit
  <1>4. CASE /\ req[r].code = "ns" /\ TxInsertRow(r, "referred_users", req[r].user)
             /\ Goes(r, "detail") /\ UNCHANGED req
    <2>1. /\ TxAdds(r, "referred_users", {req[r].user}) /\ DOMAIN tx' = Requests
          /\ \A q \in Requests \ {r} : tx'[q] = tx[q]
          /\ \A q \in Requests : tx'[q] = [s \in Tables |-> tx'[q][s]]
      <3> DEFINE row == req[r].user
      <3>1. TxInsertRow(r, "referred_users", row)
        BY <1>4
      <3> HIDE DEF row
      <3>2. /\ TxAdds(r, "referred_users", {row}) /\ DOMAIN tx' = Requests
            /\ \A q \in Requests \ {r} : tx'[q] = tx[q]
            /\ tx'[r] = [s \in Tables |-> tx'[r][s]]
        BY <1>2, <3>1, TxRowInserted DEF TxAdds
      <3> QED BY <3>2, Unmoved DEF row
    <2> QED BY <1>1, <1>2, <1>4, <2>1, Went, Unmoved DEF CheckedCode, Alone, Same, ValuesFit
  <1>5. CASE /\ req[r].code # "ns" /\ Goes(r, "detail") /\ UNCHANGED <<tx, req>>
    BY <1>1, <1>2, <1>5, Went, Unmoved DEF CheckedCode, Alone, Same, ValuesFit
  <1>6. ASSUME req[r].code # "ns", Goes(r, "detail"), UNCHANGED tx,
               NEW u \in UsersOfWallet(req[r].code),
               req' = [req EXCEPT ![r].referrer = u]
        PROVE  CheckedCode(r) /\ Alone(r) /\ Same(r) /\ ValuesFit
    <2>1. u \in Nat
      BY FoundUsers
    <2>2. /\ req' \in [Requests -> RequestType] /\ \A q \in Requests \ {r} : req'[q] = req[q]
          /\ Same(r) /\ req'[r].user = req[r].user /\ req'[r].wallet = req[r].wallet
          /\ req'[r].referrer = u
      <3>1. req[r] \in RequestType /\ [req[r] EXCEPT !.referrer = u] \in RequestType
        BY <2>1, Unmoved DEF RequestType
      <3>2. req' = [req EXCEPT ![r] = [req[r] EXCEPT !.referrer = u]]
        BY <1>6
      <3>3. req'[r] = [req[r] EXCEPT !.referrer = u]
        BY <3>2, Unmoved
      <3>4. /\ Same(r) /\ req'[r].user = req[r].user /\ req'[r].wallet = req[r].wallet
            /\ req'[r].referrer = u
        BY <3>1, <3>3 DEF RequestType, Same
      <3> QED BY <3>1, <3>2, <3>4, Unmoved
    <2>3. Alone(r)
      BY <1>2, <1>6, <2>2, Went DEF Alone
    <2>4. ValuesFit
      BY <1>1, <1>2, <1>6, <2>2, Went, Unmoved DEF ValuesFit
    <2>5. CheckedCode(r)
      BY <1>1, <1>2, <1>6, <2>2, Went DEF CheckedCode
    <2> QED BY <2>2, <2>3, <2>4, <2>5
  <1> QED BY <1>3, <1>4, <1>5, <1>6 DEF CheckReferralCode

(* The INSERT of the detail that the handler creates. *)
LEMMA DoesInsertDetail ==
  ASSUME TypeOK, NEW r \in Requests, InsertDetail(r)
  PROVE  InsertedDetail(r) /\ Alone(r) /\ Same(r) /\ ValuesFit
  <1> DEFINE row == Detail(nextDetail, req[r].user, req[r].referrer)
             step == CASE req[r].referrer # 0 -> "referral"
                       [] req[r].referrer = 0 /\ req[r].kind = "otp" -> "mail"
                       [] OTHER -> "commit"
  <1>1. /\ pc[r] = "detail"
        /\ \/ req[r].kind = "otp" /\ InsertRow("details", row) /\ UNCHANGED tx
           \/ req[r].kind # "otp" /\ TxInsertRow(r, "details", row) /\ UNCHANGED db
        /\ nextDetail' = nextDetail + 1 /\ Goes(r, step)
        /\ req' = [req EXCEPT ![r].detail = nextDetail]
        /\ UNCHANGED <<nextUser, mailed, disturbed, faults>>
    BY DEF InsertDetail
  <1>2. step \in Steps \cup Ended /\ "details" \in Tables
    BY TableNames DEF Steps
  <1>3. /\ req' \in [Requests -> RequestType] /\ \A q \in Requests \ {r} : req'[q] = req[q]
        /\ Same(r) /\ req'[r].user = req[r].user /\ req'[r].wallet = req[r].wallet
        /\ req'[r].referrer = req[r].referrer /\ req'[r].detail = nextDetail
    BY <1>1, Unmoved DEF RequestType, Same
  <1>4. /\ \/ req[r].kind = "otp" /\ DbAdds("details", {row}) /\ UNCHANGED tx
           \/ req[r].kind # "otp" /\ TxAdds(r, "details", {row}) /\ UNCHANGED db
        /\ \A q \in Requests \ {r} : tx'[q] = tx[q]
        /\ db' = [s \in Tables |-> db'[s]] /\ DOMAIN tx' = Requests
        /\ \A q \in Requests : tx'[q] = [s \in Tables |-> tx'[q][s]]
    <2> HIDE DEF row
    <2>1. CASE req[r].kind = "otp"
      <3>1. InsertRow("details", row) /\ UNCHANGED tx
        BY <1>1, <2>1
      <3> QED BY <1>2, <2>1, <3>1, RowInserted, Unmoved DEF DbAdds
    <2>2. CASE req[r].kind # "otp"
      <3>1. TxInsertRow(r, "details", row) /\ UNCHANGED db
        BY <1>1, <2>2
      <3>2. /\ TxAdds(r, "details", {row}) /\ DOMAIN tx' = Requests
            /\ \A q \in Requests \ {r} : tx'[q] = tx[q]
            /\ tx'[r] = [s \in Tables |-> tx'[r][s]]
        BY <1>2, <3>1, TxRowInserted DEF TxAdds
      <3> QED BY <2>2, <3>1, <3>2, Unmoved
    <2> QED BY <2>1, <2>2
  <1>5. InsertedDetail(r)
    <2>1. pc'[r] = step
      BY <1>1, <1>2, Went
    <2> QED BY <1>1, <1>3, <1>4, <2>1 DEF InsertedDetail
  <1> HIDE DEF row, step
  <1>6. nextDetail' \in Nat
    BY <1>1, Unmoved
  <1> QED BY <1>1, <1>2, <1>3, <1>4, <1>5, <1>6, Went, Unmoved DEF Alone, ValuesFit

(* The INSERT of the referral, if what it refers to is committed. *)
LEMMA DoesCreateReferral ==
  ASSUME TypeOK, NEW r \in Requests, CreateReferral(r)
  PROVE  (CreatedReferral(r) \/ Stops(r)) /\ Alone(r) /\ Same(r) /\ ValuesFit
  <1>1. /\ pc[r] = "referral"
        /\ UNCHANGED <<tx, nextUser, nextDetail, req, mailed, disturbed, faults>>
    BY DEF CreateReferral
  <1>2. /\ "referral" \in Steps /\ "readDetail" \in Steps \cup Ended
        /\ "left" \in Ended \ {"ok", "unsaved"} /\ "referrals" \in Tables
    BY TableNames DEF Steps, Ended, Answered
  <1>3. CASE Goes(r, "left") /\ UNCHANGED db
    BY <1>1, <1>2, <1>3, Went, Unmoved DEF Stops, Alone, Same, ValuesFit
  <1>4. CASE ~(Goes(r, "left") /\ UNCHANGED db)
    <2> DEFINE row == [referrer |-> req[r].referrer, referred |-> req[r].user,
                       detail |-> req[r].detail]
    <2>1. PartsExist(r) /\ InsertRow("referrals", row) /\ Goes(r, "readDetail")
      BY <1>4 DEF CreateReferral
    <2>2. DbAdds("referrals", {row}) /\ db' = [s \in Tables |-> db'[s]]
      <3> HIDE DEF row
      <3> QED BY <1>2, <2>1, RowInserted DEF DbAdds
    <2>3. CreatedReferral(r)
      BY <1>1, <1>2, <2>1, <2>2, Went DEF CreatedReferral
    <2> HIDE DEF row
    <2> QED BY <1>1, <1>2, <2>1, <2>2, <2>3, Went, Unmoved DEF Alone, Same, ValuesFit
  <1> QED BY <1>3, <1>4

(* The SELECT of the detail of the referrer. *)
LEMMA DoesReadDetail ==
  ASSUME TypeOK, NEW r \in Requests, ReadDetail(r)
  PROVE  (HasReadDetail(r) \/ Stops(r)) /\ Alone(r) /\ Same(r) /\ ValuesFit
  <1>1. /\ pc[r] = "readDetail"
        /\ UNCHANGED <<db, tx, nextUser, nextDetail, mailed, disturbed, faults>>
    BY DEF ReadDetail
  <1>2. /\ "readDetail" \in Steps /\ "count" \in Steps \cup Ended
        /\ "left" \in Ended \ {"ok", "unsaved"}
    BY DEF Steps, Ended, Answered
  <1>3. CASE DetailsOf(req[r].referrer) = {} /\ Goes(r, "left") /\ UNCHANGED req
    BY <1>1, <1>2, <1>3, Went, Unmoved DEF Stops, Alone, Same, ValuesFit
  <1>4. ASSUME NEW d \in db["details"], IsDetail(d, req[r].referrer),
               req' = [req EXCEPT ![r].read = d], Goes(r, "count")
        PROVE  HasReadDetail(r) /\ Alone(r) /\ Same(r) /\ ValuesFit
    <2>1. d \in DetailRows
      BY DEF TypeOK, RowsOK
    <2>2. /\ req' \in [Requests -> RequestType] /\ \A q \in Requests \ {r} : req'[q] = req[q]
          /\ Same(r) /\ req'[r].user = req[r].user /\ req'[r].wallet = req[r].wallet
          /\ req'[r].referrer = req[r].referrer /\ req'[r].read = d
      BY <1>4, <2>1, Unmoved DEF RequestType, Same
    <2>3. HasReadDetail(r)
      BY <1>1, <1>2, <1>4, <2>2, Went DEF HasReadDetail
    <2> QED BY <1>1, <1>2, <1>4, <2>2, <2>3, Went, Unmoved DEF Alone, ValuesFit
  <1> QED BY <1>3, <1>4 DEF ReadDetail

(* The SELECT of the referrals, and the storage they are worth. *)
LEMMA DoesCountReferrals ==
  ASSUME TypeInv, NEW r \in Requests, CountReferrals(r)
  PROVE  CountedReferrals(r) /\ Alone(r) /\ Same(r) /\ ValuesFit
  <1>0. TypeOK /\ IsFiniteSet(db["referrals"])
    BY DEF TypeInv, ReferralsAreFinite
  <1>1. /\ pc[r] = "count"
        /\ UNCHANGED <<db, tx, nextUser, nextDetail, mailed, disturbed, faults>>
    BY DEF CountReferrals
  <1>2. {"mail", "saveDetail"} \subseteq Steps \cup Ended
    BY DEF Steps
  <1>3. CASE req[r].read.bonus = Limit /\ Goes(r, "mail") /\ UNCHANGED req
    BY <1>0, <1>1, <1>2, <1>3, Went, Unmoved DEF CountedReferrals, Alone, Same, ValuesFit
  <1>4. CASE ~(req[r].read.bonus = Limit /\ Goes(r, "mail") /\ UNCHANGED req)
    <2> DEFINE n == Cardinality(ReferralsOf(req[r].read.user))
    <2>1. /\ req[r].read.bonus # Limit /\ Goes(r, "saveDetail")
          /\ req' = [req EXCEPT ![r].read.bonus = n]
      BY <1>4 DEF CountReferrals
    <2>2. n \in Nat
      <3>1. IsFiniteSet(ReferralsOf(req[r].read.user))
        BY <1>0, FS_Subset DEF ReferralsOf
      <3> QED BY <3>1, FS_CardinalityType
    <2> HIDE DEF n
    <2>3. /\ req' \in [Requests -> RequestType] /\ \A q \in Requests \ {r} : req'[q] = req[q]
          /\ Same(r) /\ req'[r].user = req[r].user /\ req'[r].wallet = req[r].wallet
          /\ req'[r].referrer = req[r].referrer
          /\ req'[r].read = [req[r].read EXCEPT !.bonus = n]
      BY <1>0, <2>1, <2>2, Unmoved DEF RequestType, Same, DetailRows
    <2>4. CountedReferrals(r)
      BY <1>0, <1>1, <1>2, <2>1, <2>3, Went DEF CountedReferrals, n
    <2> QED BY <1>0, <1>1, <1>2, <2>1, <2>3, <2>4, Went, Unmoved DEF Alone, ValuesFit
  <1> QED BY <1>3, <1>4

(* The UPDATE of the detail of the referrer. *)
LEMMA DoesSaveDetail ==
  ASSUME TypeOK, NEW r \in Requests, SaveDetail(r)
  PROVE  SavedDetail(r) /\ Alone(r) /\ Same(r) /\ ValuesFit
  <1> DEFINE rows == {IF d.id = req[r].read.id THEN req[r].read ELSE d : d \in db["details"]}
  <1>1. /\ pc[r] = "saveDetail" /\ Goes(r, "mail") /\ db' = [db EXCEPT !["details"] = rows]
        /\ UNCHANGED <<tx, nextUser, nextDetail, req, mailed, disturbed, faults>>
    BY DEF SaveDetail
  <1>2. "mail" \in Steps \cup Ended /\ "details" \in Tables
    BY TableNames DEF Steps
  <1> HIDE DEF rows
  <1>3. /\ db'["details"] = rows /\ \A t \in Tables \ {"details"} : db'[t] = db[t]
        /\ db' = [t \in Tables |-> db'[t]]
    BY <1>1, <1>2, Unmoved
  <1>4. SavedDetail(r)
    BY <1>1, <1>2, <1>3, Went DEF SavedDetail, rows
  <1> QED BY <1>1, <1>2, <1>3, <1>4, Went, Unmoved DEF Alone, Same, ValuesFit

(* The INSERT of the mark of a wallet user. *)
LEMMA DoesMarkReferred ==
  ASSUME TypeOK, NEW r \in Requests, MarkReferred(r)
  PROVE  MarkedReferred(r) /\ Alone(r) /\ Same(r) /\ ValuesFit
  <1> DEFINE row == req[r].user
  <1>1. /\ pc[r] = "mark" /\ Goes(r, "ok") /\ InsertRow("referred_users", row)
        /\ UNCHANGED <<tx, nextUser, nextDetail, req, mailed, disturbed, faults>>
    BY DEF MarkReferred
  <1>2. "ok" \in Steps \cup Ended /\ "referred_users" \in Tables
    BY TableNames DEF Ended, Answered
  <1> HIDE DEF row
  <1>3. DbAdds("referred_users", {row}) /\ db' = [t \in Tables |-> db'[t]]
    BY <1>1, <1>2, RowInserted DEF DbAdds
  <1>4. MarkedReferred(r)
    BY <1>1, <1>2, <1>3, Went DEF MarkedReferred, row
  <1> QED BY <1>1, <1>2, <1>3, <1>4, Went, Unmoved DEF Alone, Same, ValuesFit

(* The UPDATE of the secret. *)
LEMMA DoesSaveSecret ==
  ASSUME TypeOK, NEW r \in Requests, SaveSecret(r)
  PROVE  SavedSecret(r) /\ Alone(r) /\ Same(r) /\ ValuesFit
  <1> DEFINE rows == {[m EXCEPT !.secret = IF m.email = req[r].email THEN r ELSE @] :
                      m \in db["emails"]}
             step == IF req[r].wallet THEN "mail" ELSE "panicked"
  <1>1. /\ pc[r] = "secret" /\ Goes(r, step) /\ db' = [db EXCEPT !["emails"] = rows]
        /\ UNCHANGED <<tx, nextUser, nextDetail, req, mailed, disturbed, faults>>
    BY DEF SaveSecret
  <1>2. step \in Steps \cup Ended /\ "emails" \in Tables
    BY TableNames DEF Steps, Ended, Abandoned
  <1> HIDE DEF rows
  <1>3. /\ db'["emails"] = rows /\ \A t \in Tables \ {"emails"} : db'[t] = db[t]
        /\ db' = [t \in Tables |-> db'[t]]
    BY <1>1, <1>2, Unmoved
  <1>4. SavedSecret(r)
    <2>1. pc'[r] = step
      BY <1>1, <1>2, Went
    <2> QED BY <1>1, <1>3, <2>1 DEF SavedSecret, rows
  <1> HIDE DEF step
  <1> QED BY <1>1, <1>2, <1>3, <1>4, Went, Unmoved DEF Alone, Same, ValuesFit

(* The mail, and the commit behind it. *)
LEMMA DoesSendMail ==
  ASSUME TypeOK, NEW r \in Requests, SendMail(r)
  PROVE  (SentMail(r) \/ Stops(r)) /\ Alone(r) /\ Same(r) /\ ValuesFit
  <1>1. pc[r] = "mail" /\ UNCHANGED <<nextUser, nextDetail, req, disturbed, faults>>
    BY DEF SendMail
  <1>2. /\ "mail" \in Steps /\ {"ok", "left"} \subseteq Steps \cup Ended
        /\ "left" \in Ended \ {"ok", "unsaved"}
    BY DEF Steps, Ended, Answered
  <1>3. CASE mailed' = mailed \cup {r} /\ TxCommit(r) /\ Goes(r, "ok")
    <2>1. SentMail(r)
      BY <1>1, <1>2, <1>3, Went, Committed DEF SentMail, Commits
    <2> QED BY <1>1, <1>2, <1>3, <2>1, Went, Committed, Unmoved, NothingInserted
            DEF Alone, Same, ValuesFit
  <1>4. CASE mailed' \in {mailed, mailed \cup {r}} /\ Goes(r, "left") /\ UNCHANGED <<db, tx>>
    BY <1>1, <1>2, <1>4, Went, Unmoved DEF Stops, Alone, Same, ValuesFit
  <1> QED BY <1>3, <1>4 DEF SendMail

(* The commit of Google and GitHub. *)
LEMMA DoesCommit ==
  ASSUME TypeOK, NEW r \in Requests, Commit(r)
  PROVE  (HasCommitted(r) \/ Stops(r)) /\ Alone(r) /\ Same(r) /\ ValuesFit
  <1>1. pc[r] = "commit" /\ UNCHANGED <<nextUser, nextDetail, req, mailed, disturbed, faults>>
    BY DEF Commit
  <1>2. /\ "commit" \in Steps /\ {"ok", "panicked"} \subseteq Steps \cup Ended
        /\ "panicked" \in Ended \ {"ok", "unsaved"}
    BY DEF Steps, Ended, Answered, Abandoned
  <1>3. CASE (req[r].kind = "github" \/ req[r].wallet) /\ TxCommit(r) /\ Goes(r, "ok")
    <2>1. HasCommitted(r)
      BY <1>1, <1>2, <1>3, Went, Committed DEF HasCommitted, Commits
    <2> QED BY <1>1, <1>2, <1>3, <2>1, Went, Committed, Unmoved, NothingInserted
            DEF Alone, Same, ValuesFit
  <1>4. CASE Goes(r, "panicked") /\ UNCHANGED <<db, tx>>
    BY <1>1, <1>2, <1>4, Went, Unmoved DEF Stops, Alone, Same, ValuesFit
  <1> QED BY <1>3, <1>4 DEF Commit

(* The UPDATE of the nonce. *)
LEMMA DoesRenewNonce ==
  ASSUME TypeOK, NEW r \in Requests, RenewNonce(r)
  PROVE  RenewedNonce(r) /\ Alone(r) /\ Same(r) /\ ValuesFit
  <1> DEFINE rows == {[w EXCEPT !.nonce = IF w.address = req[r].address THEN r ELSE @] :
                      w \in db["wallets"]}
  <1>1. /\ pc[r] = "renew" /\ Goes(r, "ok") /\ db' = [db EXCEPT !["wallets"] = rows]
        /\ UNCHANGED <<tx, nextUser, nextDetail, req, mailed, disturbed, faults>>
    BY DEF RenewNonce
  <1>2. "ok" \in Steps \cup Ended /\ "wallets" \in Tables
    BY TableNames DEF Ended, Answered
  <1> HIDE DEF rows
  <1>3. /\ db'["wallets"] = rows /\ \A t \in Tables \ {"wallets"} : db'[t] = db[t]
        /\ db' = [t \in Tables |-> db'[t]]
    BY <1>1, <1>2, Unmoved
  <1>4. RenewedNonce(r)
    BY <1>1, <1>2, <1>3, Went DEF RenewedNonce, rows
  <1> QED BY <1>1, <1>2, <1>3, <1>4, Went, Unmoved DEF Alone, Same, ValuesFit

(* A fault is one more, and disturbs. *)
LEMMA HasFault ==
  ASSUME TypeOK, Fault
  PROVE  disturbed' = TRUE /\ faults' \in Nat
  BY DEF Fault, TypeOK

(* A statement that fails. *)
LEMMA DoesStatementFail ==
  ASSUME TypeOK, NEW r \in Requests, StatementFails(r)
  PROVE  (CheckedCode(r) \/ Stops(r)) /\ Alone(r) /\ Same(r) /\ ValuesFit
  <1>1. UNCHANGED <<db, nextUser, nextDetail, req, mailed>> /\ disturbed' = TRUE /\ faults' \in Nat
    BY HasFault DEF StatementFails
  <1>2. /\ {"left", "refused", "detail"} \subseteq Steps \cup Ended
        /\ {"left", "refused"} \subseteq Ended \ {"ok", "unsaved"}
    BY DEF Steps, Ended, Answered
  <1>3. CASE ReturnsWithoutEnd(r) /\ Goes(r, "left") /\ UNCHANGED tx
    <2>1. pc[r] \in Steps
      BY <1>3 DEF ReturnsWithoutEnd, Steps
    <2> QED BY <1>1, <1>2, <1>3, <2>1, Went, Unmoved DEF Stops, Alone, Same, ValuesFit
  <1>4. CASE RollsBack(r) /\ Goes(r, "refused") /\ Rollback(r)
    <2>1. pc[r] \in Steps
      BY <1>4 DEF RollsBack, Steps
    <2> QED BY <1>1, <1>2, <1>4, <2>1, Went, Unmoved, RolledBack, NothingInserted
            DEF Stops, Alone, Same, ValuesFit
  <1>5. CASE pc[r] = "code" /\ req[r].code \in Referrers /\ Goes(r, "detail") /\ UNCHANGED tx
    <2>1. req[r].code # "ns"
      BY <1>5, ConstantsAssumption DEF Keys
    <2>2. CheckedCode(r)
      BY <1>1, <1>2, <1>5, <2>1, Went DEF CheckedCode
    <2> QED BY <1>1, <1>2, <1>5, <2>2, Went, Unmoved DEF Alone, Same, ValuesFit
  <1> QED BY <1>3, <1>4, <1>5 DEF StatementFails

(* A commit that fails. *)
LEMMA DoesCommitFail ==
  ASSUME TypeOK, NEW r \in Requests, CommitFails(r)
  PROVE  Stops(r) /\ Alone(r) /\ Same(r) /\ ValuesFit
  <1>1. /\ UNCHANGED <<db, nextUser, nextDetail, req>> /\ disturbed' = TRUE /\ faults' \in Nat
        /\ Goes(r, "unsaved") /\ Rollback(r)
    BY HasFault DEF CommitFails
  <1>2. /\ {"commit", "mail"} \subseteq Steps /\ "unsaved" \in Ended \ {"ok"}
        /\ "unsaved" \in Steps \cup Ended
    BY DEF Steps, Ended, Answered
  <1>3. \/ /\ pc[r] = "commit" /\ (req[r].kind = "github" \/ req[r].wallet)
           /\ mailed' = mailed
        \/ pc[r] = "mail" /\ mailed' = mailed \cup {r}
    BY DEF CommitFails
  <1>4. Stops(r)
    BY <1>1, <1>2, <1>3, Went, RolledBack DEF Stops
  <1> QED BY <1>1, <1>2, <1>3, <1>4, Went, Unmoved, RolledBack, NothingInserted
          DEF Alone, Same, ValuesFit

(* An upload. *)
LEMMA DoesUpload ==
  ASSUME TypeOK, NEW u, Upload(u)
  PROVE  Uploaded /\ ValuesFit
  <1>1. UNCHANGED <<tx, nextUser, nextDetail, pc, req, mailed, faults>> /\ Overlaps
    BY DEF Upload
  <1>2. PICK d \in DetailsOf(u) :
          /\ IsDetail(d, u)
          /\ db' = [db EXCEPT !["details"] = (@ \ {d}) \cup {[d EXCEPT !.used = @ + 1]}]
    BY DEF Upload
  <1>3. d \in db["details"] /\ d.user = u
    BY DEF DetailsOf
  <1>4. "details" \in Tables
    BY TableNames
  <1> DEFINE rows == (db["details"] \ {d}) \cup {[d EXCEPT !.used = @ + 1]}
  <1>5. /\ db'["details"] = rows /\ \A t \in Tables \ {"details"} : db'[t] = db[t]
        /\ db' = [t \in Tables |-> db'[t]]
    <2>1. db' = [db EXCEPT !["details"] = rows]
      BY <1>2
    <2> HIDE DEF rows
    <2> QED BY <1>4, <2>1, Unmoved
  <1>6. disturbed' \in BOOLEAN /\ (disturbed' \/ (~disturbed /\ InFlight = {}))
    BY <1>1, OverlapIsNoted
  <1>7. Uploaded
    BY <1>1, <1>2, <1>3, <1>5, <1>6 DEF Uploaded
  <1>8. pc' \in [Requests -> {"idle"} \cup Steps \cup Ended]
    BY <1>1, Types
  <1> HIDE DEF rows
  <1> QED BY <1>1, <1>5, <1>6, <1>7, <1>8, Unmoved DEF ValuesFit

(* A crash. *)
LEMMA DoesCrash ==
  ASSUME TypeOK, Crash
  PROVE  Crashed /\ ValuesFit
  <1>1. /\ pc' = [r \in Requests |-> IF r \in InFlight THEN "lost" ELSE pc[r]]
        /\ tx' = [r \in Requests |-> NoRows] /\ disturbed' = TRUE /\ faults' \in Nat
        /\ UNCHANGED <<db, nextUser, nextDetail, req, mailed>>
    BY HasFault DEF Crash
  <1>2. "lost" \in Ended
    BY DEF Ended
  <1>3. pc' \in [Requests -> {"idle"} \cup Steps \cup Ended]
    BY <1>1, <1>2, Types
  <1>4. Crashed
    BY <1>1 DEF Crashed, InFlight
  <1> QED BY <1>1, <1>3, <1>4, Unmoved, NothingInserted DEF ValuesFit

(* A step that is none of a request that arrives is one of these.  *)
LEMMA Effects ==
  ASSUME TypeInv, Next
  PROVE  /\ \/ \E r \in Requests :
                \/ Comes(r) /\ (ComesToSignUp(r) \/ ComesToSignIn(r) \/ ComesToRead(r))
                \/ GoesOn(r)
            \/ Uploaded
            \/ Crashed
         /\ ValuesFit
  <1>0. TypeOK
    BY DEF TypeInv
  <1>1. ASSUME NEW r \in Requests, Arrives(r)
        PROVE  /\ Comes(r) /\ (ComesToSignUp(r) \/ ComesToSignIn(r) \/ ComesToRead(r))
               /\ ValuesFit
    <2>1. Comes(r) /\ (ComesToSignUp(r) \/ ComesToSignIn(r) \/ ComesToRead(r))
      BY <1>0, <1>1, Arrival
    <2>2. ValuesFit
      BY <1>0, <2>1, Unmoved DEF Comes, ValuesFit
    <2> QED BY <2>1, <2>2
  <1>2. ASSUME NEW r \in Requests, Step(r)
        PROVE  GoesOn(r) /\ ValuesFit
    BY <1>0, <1>2, DoesInsertUser, DoesInsertEmail, DoesInsertWallet, DoesInsertGithub,
       DoesInsertFirstDetail, DoesCheckReferralCode, DoesInsertDetail, DoesCreateReferral,
       DoesReadDetail, DoesCountReferrals, DoesSaveDetail, DoesMarkReferred, DoesSaveSecret,
       DoesSendMail, DoesCommit, DoesRenewNonce DEF Step, GoesOn
  <1>3. ASSUME NEW r \in Requests, StatementFails(r) \/ CommitFails(r)
        PROVE  GoesOn(r) /\ ValuesFit
    BY <1>0, <1>3, DoesStatementFail, DoesCommitFail DEF GoesOn
  <1>4. ASSUME NEW u, Upload(u)
        PROVE  Uploaded /\ ValuesFit
    BY <1>0, <1>4, DoesUpload
  <1>5. CASE Crash
    BY <1>0, <1>5, DoesCrash
  <1> QED BY <1>1, <1>2, <1>3, <1>4, <1>5 DEF Next

-----------------------------------------------------------------------------
(* Where a request is, for its kind                                        *)

Rewarding == {"readDetail", "count", "saveDetail"}
BeforeDetail == {"email", "wallet", "github", "firstDetail", "code", "detail"}
SignUpSteps == {"user", "referral", "mark"} \cup BeforeDetail \cup Rewarding

KindFits(r) ==
    /\ pc[r] \in {"user", "wallet"} => req[r].kind \in SignUpKinds
    /\ pc[r] = "email" => req[r].kind \in {"otp", "google"}
    /\ pc[r] = "github" => req[r].kind = "github"
    /\ pc[r] = "firstDetail" => req[r].kind \in {"github", "nonce"}
    /\ pc[r] \in {"code", "detail", "referral"} => req[r].kind \in {"otp", "google", "github"}
    /\ pc[r] \in Rewarding \cup {"secret", "mail"} => req[r].kind = "otp"
    /\ pc[r] \in {"mark", "renew"} => req[r].kind = "nonce"
    /\ pc[r] = "commit" => req[r].kind \in {"google", "github"}

(* what a sign-up inserts under *)
KeysFit(r) ==
    pc[r] \in {"user", "email", "wallet", "github"} =>
        /\ req[r].kind \in {"otp", "google"} => req[r].email \in Emails
        /\ req[r].kind = "github" => req[r].github \in GithubIds
        /\ req[r].address \in Addresses

StepFits(r) ==
    /\ KindFits(r) /\ KeysFit(r)
    /\ pc[r] \in SignUpSteps => req[r].new
    /\ pc[r] \in {"secret", "renew", "idle"} => ~req[r].new
    /\ pc[r] \in {"idle", "user"} => req[r].user = 0
    /\ pc[r] \in {"referral"} \cup Rewarding => req[r].referrer # 0
    /\ pc[r] \in {"user", "email", "wallet", "github", "firstDetail", "code", "mark"}
         => req[r].referrer = 0
    /\ pc[r] = "commit" /\ req[r].new => req[r].referrer = 0
    /\ pc[r] = "mark" => req[r].code = "ns"
    /\ pc[r] = "mail" /\ ~req[r].new => req[r].wallet

StepInv == \A r \in Requests : StepFits(r)

-----------------------------------------------------------------------------
(* Types are kept.                                                         *)

(* Rows of a type in the database. *)
LEMMA AddedRowsAreTyped ==
  ASSUME TypeOK, NEW t \in Tables, NEW S, S \subseteq RowType(t), DbAdds(t, S)
  PROVE  \A s \in Tables : db'[s] \subseteq RowType(s)
  BY Types DEF DbAdds

(* Rows of a type in a transaction. *)
LEMMA TxAddedRowsAreTyped ==
  ASSUME TypeOK, NEW r \in Requests, NEW t \in Tables, NEW S, S \subseteq RowType(t),
         TxAdds(r, t, S), \A q \in Requests \ {r} : tx'[q] = tx[q]
  PROVE  \A q \in Requests : \A s \in Tables : tx'[q][s] \subseteq RowType(s)
  BY Types DEF TxAdds

(* What is typed in each table is typed. *)
LEMMA TypeAssembled ==
  ASSUME ValuesFit, \A t \in Tables : db'[t] \subseteq RowType(t),
         \A r \in Requests : \A t \in Tables : tx'[r][t] \subseteq RowType(t)
  PROVE  TypeOK'
  <1>1. /\ db' = [t \in Tables |-> db'[t]] /\ DOMAIN tx' = Requests
        /\ \A r \in Requests : tx'[r] = [t \in Tables |-> tx'[r][t]]
    BY DEF ValuesFit
  <1>2. RowsOK(db')
    <2>1. DOMAIN db' = Tables
      BY <1>1
    <2> QED BY <2>1, RowsAreTyped
  <1>3. ASSUME NEW r \in Requests
        PROVE  RowsOK(tx'[r])
    <2>1. DOMAIN tx'[r] = Tables
      BY <1>1
    <2> QED BY <2>1, RowsAreTyped
  <1> QED BY <1>1, <1>2, <1>3 DEF ValuesFit, TypeOK, RequestType

(* Rows of the tables. *)
LEMMA RowTypes ==
  /\ RowType("users") = Nat /\ RowType("referred_users") = Nat
  /\ RowType("emails") = [email : Emails, secret : Nat, user : Nat]
  /\ RowType("wallets") = [address : Addresses, nonce : Nat, user : Nat]
  /\ RowType("githubs") = [github : GithubIds, user : Nat]
  /\ RowType("details") = DetailRows
  /\ RowType("referrals") = [referrer : Nat, referred : Nat, detail : Nat]
  BY DEF RowType

(* Rows of a type in either. *)
LEMMA CreatedRowsAreTyped ==
  ASSUME TypeOK, NEW r \in Requests, NEW t \in Tables, NEW row \in RowType(t),
         CreatesIn(r, t, row), \A q \in Requests \ {r} : tx'[q] = tx[q]
  PROVE  /\ \A s \in Tables : db'[s] \subseteq RowType(s)
         /\ \A q \in Requests : \A s \in Tables : tx'[q][s] \subseteq RowType(s)
  <1>1. CASE req[r].kind = "github" /\ TxAdds(r, t, {row}) /\ UNCHANGED db
    BY <1>1, Types, TxAddedRowsAreTyped
  <1>2. CASE req[r].kind # "github" /\ DbAdds(t, {row}) /\ UNCHANGED tx
    BY <1>2, Types, AddedRowsAreTyped
  <1> QED BY <1>1, <1>2 DEF CreatesIn

(* The rows that a step leaves. *)
LEMMA StepTypes ==
  ASSUME TypeOK, StepInv, NEW r \in Requests, GoesOn(r)
  PROVE  /\ \A s \in Tables : db'[s] \subseteq RowType(s)
         /\ \A q \in Requests : \A s \in Tables : tx'[q][s] \subseteq RowType(s)
  <1>0. /\ req[r] \in RequestType /\ r \in Nat /\ nextUser \in Nat /\ nextDetail \in Nat
        /\ \A q \in Requests \ {r} : tx'[q] = tx[q]
        /\ {"users", "emails", "wallets", "githubs", "details", "referrals",
            "referred_users"} \subseteq Tables
        /\ \A t \in Tables : NoRows[t] \subseteq RowType(t)
    BY Unmoved, TableNames, NothingInserted DEF Requests, GoesOn, Alone
  <1>1. /\ \A t \in Tables : db[t] \subseteq RowType(t)
        /\ \A q \in Requests : \A t \in Tables : tx[q][t] \subseteq RowType(t)
    BY Types
  <1>2. /\ req[r].user \in Nat /\ req[r].referrer \in Nat /\ req[r].detail \in Nat
        /\ req[r].read \in DetailRows
    BY <1>0 DEF RequestType
  <1>3. KeysFit(r) /\ KindFits(r)
    BY DEF StepInv, StepFits
  <1>4. CASE InsertedUser(r)
    <2>1. CreatesIn(r, "users", nextUser)
      BY <1>4 DEF InsertedUser
    <2>2. nextUser \in RowType("users")
      BY <1>0, RowTypes
    <2> QED BY <1>0, <2>1, <2>2, CreatedRowsAreTyped
  <1>5. CASE InsertedEmail(r)
    <2> DEFINE row == [email |-> req[r].email, user |-> req[r].user,
                       secret |-> IF req[r].kind = "otp" THEN r ELSE 0]
    <2>1. req[r].email \in Emails
      BY <1>3, <1>5 DEF InsertedEmail, KeysFit, KindFits
    <2>2. row \in RowType("emails") /\ DbAdds("emails", {row}) /\ UNCHANGED tx
      BY <1>0, <1>2, <1>5, <2>1, RowTypes DEF InsertedEmail
    <2> HIDE DEF row
    <2> QED BY <1>0, <1>1, <2>2, AddedRowsAreTyped
  <1>6. CASE InsertedWallet(r)
    <2> DEFINE row == [address |-> req[r].address, nonce |-> r, user |-> req[r].user]
    <2>1. row \in RowType("wallets") /\ CreatesIn(r, "wallets", row)
      BY <1>0, <1>2, <1>3, <1>6, RowTypes DEF InsertedWallet, KeysFit
    <2> HIDE DEF row
    <2> QED BY <1>0, <2>1, CreatedRowsAreTyped
  <1>7. CASE InsertedGithub(r)
    <2> DEFINE row == [github |-> req[r].github, user |-> req[r].user]
    <2>1. row \in RowType("githubs") /\ CreatesIn(r, "githubs", row)
      BY <1>0, <1>2, <1>3, <1>7, RowTypes DEF InsertedGithub, KeysFit, KindFits
    <2> HIDE DEF row
    <2> QED BY <1>0, <2>1, CreatedRowsAreTyped
  <1>8. CASE InsertedFirstDetail(r)
    <2> DEFINE row == Detail(nextDetail, req[r].user, 0)
    <2>1. row \in RowType("details") /\ CreatesIn(r, "details", row)
      BY <1>0, <1>2, <1>8, RowTypes, NewDetail DEF InsertedFirstDetail
    <2> HIDE DEF row
    <2> QED BY <1>0, <2>1, CreatedRowsAreTyped
  <1>9. CASE CheckedCode(r)
    <2>1. CASE TxAdds(r, "referred_users", {req[r].user}) /\ UNCHANGED db
      <3>1. {req[r].user} \subseteq RowType("referred_users")
        BY <1>2, RowTypes
      <3> QED BY <1>0, <1>1, <2>1, <3>1, TxAddedRowsAreTyped
    <2>2. CASE UNCHANGED <<db, tx>>
      BY <1>1, <2>2
    <2> QED BY <1>9, <2>1, <2>2 DEF CheckedCode
  <1>10. CASE InsertedDetail(r)
    <2> DEFINE row == Detail(nextDetail, req[r].user, req[r].referrer)
    <2>1. /\ row \in RowType("details")
          /\ \/ DbAdds("details", {row}) /\ UNCHANGED tx
             \/ TxAdds(r, "details", {row}) /\ UNCHANGED db
      BY <1>0, <1>2, <1>10, RowTypes, NewDetail DEF InsertedDetail
    <2> HIDE DEF row
    <2>2. CASE DbAdds("details", {row}) /\ UNCHANGED tx
      BY <1>0, <1>1, <2>1, <2>2, AddedRowsAreTyped
    <2>3. CASE TxAdds(r, "details", {row}) /\ UNCHANGED db
      <3>1. {row} \subseteq RowType("details")
        BY <2>1
      <3> QED BY <1>0, <1>1, <2>3, <3>1, TxAddedRowsAreTyped
    <2> QED BY <2>1, <2>2, <2>3
  <1>11. CASE CreatedReferral(r)
    <2> DEFINE row == [referrer |-> req[r].referrer, referred |-> req[r].user,
                       detail |-> req[r].detail]
    <2>1. row \in RowType("referrals") /\ DbAdds("referrals", {row}) /\ UNCHANGED tx
      BY <1>0, <1>2, <1>11, RowTypes DEF CreatedReferral
    <2> HIDE DEF row
    <2> QED BY <1>0, <1>1, <2>1, AddedRowsAreTyped
  <1>12. CASE SavedDetail(r)
    <2>1. db'["details"] \subseteq RowType("details")
      <3>1. \A d \in db["details"] : d \in DetailRows
        BY <1>0, <1>1, RowTypes
      <3> QED BY <1>2, <1>12, <3>1, RowTypes DEF SavedDetail
    <2> QED BY <1>1, <1>12, <2>1 DEF SavedDetail
  <1>13. CASE MarkedReferred(r)
    <2>1. {req[r].user} \subseteq RowType("referred_users")
      BY <1>2, RowTypes
    <2> QED BY <1>0, <1>1, <1>13, <2>1, AddedRowsAreTyped DEF MarkedReferred
  <1>14. CASE SavedSecret(r)
    <2>1. db'["emails"] \subseteq RowType("emails")
      <3>1. \A m \in db["emails"] : m \in [email : Emails, secret : Nat, user : Nat]
        BY <1>0, <1>1, RowTypes
      <3>2. \A m \in [email : Emails, secret : Nat, user : Nat] :
              [m EXCEPT !.secret = IF m.email = req[r].email THEN r ELSE @]
                \in [email : Emails, secret : Nat, user : Nat]
        BY <1>0
      <3> SUFFICES ASSUME NEW n \in db'["emails"] PROVE n \in RowType("emails")
        OBVIOUS
      <3>3. PICK m \in db["emails"] :
              n = [m EXCEPT !.secret = IF m.email = req[r].email THEN r ELSE @]
        BY <1>14 DEF SavedSecret
      <3> QED BY <3>1, <3>2, <3>3, RowTypes
    <2> QED BY <1>1, <1>14, <2>1 DEF SavedSecret
  <1>15. CASE RenewedNonce(r)
    <2>1. db'["wallets"] \subseteq RowType("wallets")
      <3>1. \A w \in db["wallets"] : w \in [address : Addresses, nonce : Nat, user : Nat]
        BY <1>0, <1>1, RowTypes
      <3>2. \A w \in [address : Addresses, nonce : Nat, user : Nat] :
              [w EXCEPT !.nonce = IF w.address = req[r].address THEN r ELSE @]
                \in [address : Addresses, nonce : Nat, user : Nat]
        BY <1>0
      <3> SUFFICES ASSUME NEW n \in db'["wallets"] PROVE n \in RowType("wallets")
        OBVIOUS
      <3>3. PICK w \in db["wallets"] :
              n = [w EXCEPT !.nonce = IF w.address = req[r].address THEN r ELSE @]
        BY <1>15 DEF RenewedNonce
      <3> QED BY <3>1, <3>2, <3>3, RowTypes
    <2> QED BY <1>1, <1>15, <2>1 DEF RenewedNonce
  <1>16. CASE SentMail(r) \/ HasCommitted(r)
    <2>1. tx'[r] = NoRows /\ \A t \in Tables : db'[t] = db[t] \cup tx[r][t]
      BY <1>16 DEF SentMail, HasCommitted, Commits
    <2> QED BY <1>0, <1>1, <2>1
  <1>17. CASE HasReadDetail(r) \/ CountedReferrals(r)
    BY <1>1, <1>17 DEF HasReadDetail, CountedReferrals
  <1>18. CASE Stops(r)
    <2>1. UNCHANGED db /\ tx'[r] \in {tx[r], NoRows}
      BY <1>18 DEF Stops
    <2> QED BY <1>0, <1>1, <2>1
  <1> QED BY <1>4, <1>5, <1>6, <1>7, <1>8, <1>9, <1>10, <1>11, <1>12, <1>13, <1>14, <1>15,
             <1>16, <1>17, <1>18 DEF GoesOn

(* Referrals are inserted one at a time, and never in a transaction. *)
LEMMA ReferralsStayFinite ==
  ASSUME TypeInv, NEW r \in Requests, GoesOn(r)
  PROVE  ReferralsAreFinite'
  <1>0. /\ {"users", "emails", "wallets", "githubs", "details", "referrals",
            "referred_users"} \subseteq Tables
        /\ IsFiniteSet(db["referrals"]) /\ \A q \in Requests : tx[q]["referrals"] = {}
        /\ NoRows["referrals"] = {}
        /\ \A q \in Requests \ {r} : tx'[q] = tx[q]
    BY TableNames, NothingInserted DEF TypeInv, ReferralsAreFinite, GoesOn, Alone
  <1>1. CASE CreatedReferral(r)
    <2>1. UNCHANGED tx /\ \E row : db'["referrals"] = db["referrals"] \cup {row}
      BY <1>1 DEF CreatedReferral, DbAdds
    <2>2. IsFiniteSet(db'["referrals"])
      BY <1>0, <2>1, FS_AddElement
    <2> QED BY <1>0, <2>1, <2>2 DEF ReferralsAreFinite
  <1>2. CASE ~CreatedReferral(r)
    <2>1. db'["referrals"] = db["referrals"] /\ tx'[r]["referrals"] = {}
      <3>1. CASE InsertedUser(r)
        BY <1>0, <3>1 DEF InsertedUser, CreatesIn, DbAdds, TxAdds
      <3>2. CASE InsertedEmail(r) \/ MarkedReferred(r)
        BY <1>0, <3>2 DEF InsertedEmail, MarkedReferred, DbAdds
      <3>3. CASE InsertedWallet(r)
        BY <1>0, <3>3 DEF InsertedWallet, CreatesIn, DbAdds, TxAdds
      <3>4. CASE InsertedGithub(r)
        BY <1>0, <3>4 DEF InsertedGithub, CreatesIn, DbAdds, TxAdds
      <3>5. CASE InsertedFirstDetail(r)
        BY <1>0, <3>5 DEF InsertedFirstDetail, CreatesIn, DbAdds, TxAdds
      <3>6. CASE CheckedCode(r)
        BY <1>0, <3>6 DEF CheckedCode, TxAdds
      <3>7. CASE InsertedDetail(r)
        BY <1>0, <3>7 DEF InsertedDetail, DbAdds, TxAdds
      <3>8. CASE SavedDetail(r)
        BY <1>0, <3>8 DEF SavedDetail
      <3>9. CASE SavedSecret(r)
        BY <1>0, <3>9 DEF SavedSecret
      <3>10. CASE RenewedNonce(r)
        BY <1>0, <3>10 DEF RenewedNonce
      <3>11. CASE SentMail(r) \/ HasCommitted(r)
        BY <1>0, <3>11 DEF SentMail, HasCommitted, Commits
      <3>12. CASE HasReadDetail(r) \/ CountedReferrals(r)
        BY <1>0, <3>12 DEF HasReadDetail, CountedReferrals
      <3>13. CASE Stops(r)
        BY <1>0, <3>13 DEF Stops
      <3> QED BY <1>2, <3>1, <3>2, <3>3, <3>4, <3>5, <3>6, <3>7, <3>8, <3>9, <3>10, <3>11,
                 <3>12, <3>13 DEF GoesOn
    <2> QED BY <1>0, <2>1 DEF ReferralsAreFinite
  <1> QED BY <1>1, <1>2

(* Every step keeps the types. *)
LEMMA TypeStays ==
  ASSUME TypeInv, StepInv, Next
  PROVE  TypeInv'
  <1>0. TypeOK /\ ReferralsAreFinite /\ ValuesFit
    BY Effects DEF TypeInv
  <1>1. /\ \A t \in Tables : db[t] \subseteq RowType(t)
        /\ \A q \in Requests : \A t \in Tables : tx[q][t] \subseteq RowType(t)
        /\ \A t \in Tables : NoRows[t] = {}
        /\ "details" \in Tables /\ "referrals" \in Tables \ {"details"}
    BY <1>0, Types, NothingInserted, TableNames
  <1>2. CASE \E r \in Requests : Comes(r)
    <2>1. UNCHANGED <<db, tx>>
      BY <1>2 DEF Comes
    <2> QED BY <1>0, <1>1, <2>1, TypeAssembled DEF TypeInv, ReferralsAreFinite
  <1>3. CASE \E r \in Requests : GoesOn(r)
    BY <1>0, <1>3, StepTypes, ReferralsStayFinite, TypeAssembled DEF TypeInv
  <1>4. CASE Uploaded
    <2>1. UNCHANGED tx /\ \A t \in Tables \ {"details"} : db'[t] = db[t]
      BY <1>4 DEF Uploaded
    <2>2. db'["details"] \subseteq RowType("details")
      <3>1. \A d \in db["details"] : d \in DetailRows
        BY <1>1, RowTypes
      <3>2. \A d \in DetailRows : [d EXCEPT !.used = @ + 1] \in DetailRows
        BY DEF DetailRows
      <3> QED BY <1>4, <3>1, <3>2, RowTypes DEF Uploaded
    <2> QED BY <1>0, <1>1, <2>1, <2>2, TypeAssembled DEF TypeInv, ReferralsAreFinite
  <1>5. CASE Crashed
    <2>1. UNCHANGED db /\ \A r \in Requests : tx'[r] = NoRows
      BY <1>5 DEF Crashed
    <2> QED BY <1>0, <1>1, <2>1, TypeAssembled DEF TypeInv, ReferralsAreFinite
  <1> QED BY <1>2, <1>3, <1>4, <1>5, Effects

-----------------------------------------------------------------------------
(* Users, details and transactions belong to one request.                  *)

(* a number that a user may have *)
Known(u) == 0 < u /\ u < nextUser

IdsInv ==
    /\ 0 < nextUser
    /\ \A u \in db["users"] : Known(u)
    /\ \A m \in db["emails"] : Known(m.user)
    /\ \A w \in db["wallets"] : Known(w.user)
    /\ \A h \in db["githubs"] : Known(h.user)
    /\ \A d \in db["details"] : Known(d.user) /\ d.id < nextDetail
    /\ \A f \in db["referrals"] : Known(f.referrer) /\ Known(f.referred)
    /\ \A r \in Requests : /\ req[r].user < nextUser /\ req[r].referrer < nextUser
                           /\ pc[r] \in Steps \ {"user"} => req[r].user # 0

(* no two requests have signed the same user up *)
OwnersDiffer ==
    \A q, r \in Requests :
        /\ req[q].new /\ req[r].new
        /\ req[q].user # 0 /\ req[q].user = req[r].user
        => q = r

TxFits(r) ==
    /\ pc[r] \in {"idle", "user"} \/ ~req[r].new => tx[r] = NoRows
    /\ tx[r]["emails"] = {}
    /\ \A u \in tx[r]["users"] : u = req[r].user
    /\ \A u \in tx[r]["referred_users"] : u = req[r].user
    /\ \A w \in tx[r]["wallets"] : w.user = req[r].user /\ w.nonce = r
    /\ \A h \in tx[r]["githubs"] : h.user = req[r].user
    /\ \A d \in tx[r]["details"] :
        d.user = req[r].user /\ d.used = 0 /\ d.bonus = 0 /\ d.id < nextDetail
    /\ ~InTx(r) =>
        tx[r]["users"] = {} /\ tx[r]["wallets"] = {} /\ tx[r]["githubs"] = {}
    /\ req[r].kind \notin {"google", "github"} => tx[r]["details"] = {}

TxInv == \A r \in Requests : TxFits(r)

(* ids of details, also of those that are not committed *)
DetailIds ==
    /\ \A d, e \in db["details"] : d.id = e.id => d = e
    /\ \A r \in Requests : \A d \in tx[r]["details"] :
        /\ \A e \in db["details"] : d.id # e.id
        /\ \A q \in Requests : \A e \in tx[q]["details"] : d.id = e.id => q = r /\ d = e

-----------------------------------------------------------------------------
(* Frequent facts                                                          *)

(* Values of requests and rows. *)
LEMMA Values ==
  ASSUME TypeOK
  PROVE  /\ nextUser \in Nat /\ nextDetail \in Nat
         /\ \A r \in Requests : /\ r \in Nat /\ req[r].user \in Nat /\ req[r].referrer \in Nat
                                /\ req[r].detail \in Nat /\ req[r].read \in DetailRows
                                /\ req[r].new \in BOOLEAN /\ req[r].wallet \in BOOLEAN
         /\ \A u \in db["users"] : u \in Nat
         /\ \A m \in db["emails"] : m \in [email : Emails, secret : Nat, user : Nat]
         /\ \A w \in db["wallets"] : w \in [address : Addresses, nonce : Nat, user : Nat]
         /\ \A h \in db["githubs"] : h \in [github : GithubIds, user : Nat]
         /\ \A d \in db["details"] : d \in DetailRows
         /\ \A f \in db["referrals"] : f \in [referrer : Nat, referred : Nat, detail : Nat]
         /\ \A r \in Requests :
              /\ \A w \in tx[r]["wallets"] :
                    w \in [address : Addresses, nonce : Nat, user : Nat]
              /\ \A h \in tx[r]["githubs"] : h \in [github : GithubIds, user : Nat]
              /\ \A d \in tx[r]["details"] : d \in DetailRows
  <1>1. \A r \in Requests : r \in Nat /\ req[r] \in RequestType
    BY Unmoved DEF Requests
  <1>2. \A r \in Requests : RowsOK(tx[r])
    BY DEF TypeOK
  <1>3. RowsOK(db)
    BY DEF TypeOK
  <1> QED BY <1>1, <1>2, <1>3, Unmoved DEF RequestType, RowsOK

(* The names of the tables, and the rows of an empty transaction. *)
LEMMA Names ==
  /\ {"users", "emails", "wallets", "githubs", "details", "referrals",
      "referred_users"} \subseteq Tables
  /\ \A t \in Tables : NoRows[t] = {}
  BY TableNames, NothingInserted

(* A user that a query finds is a user's number. *)
LEMMA FoundAreKnown ==
  ASSUME IdsInv
  PROVE  /\ \A e : \A u \in UsersOfEmail(e) : Known(u)
         /\ \A a : \A u \in UsersOfWallet(a) : Known(u) /\ HasWallet(u)
         /\ \A g : \A u \in UsersOfGithub(g) : Known(u)
         /\ \A u : HasWallet(u) => Known(u)
  BY DEF IdsInv, UsersOfEmail, UsersOfWallet, UsersOfGithub, HasWallet

(* A new secret or nonce leaves the rows otherwise as they are. *)
LEMMA SecretsRewritten ==
  ASSUME TypeOK, NEW r \in Requests, SavedSecret(r)
  PROVE  /\ \A n \in db'["emails"] : \E m \in db["emails"] :
              /\ n.email = m.email /\ n.user = m.user
              /\ n.secret = IF m.email = req[r].email THEN r ELSE m.secret
         /\ \A m \in db["emails"] : \E n \in db'["emails"] :
              /\ n.email = m.email /\ n.user = m.user
              /\ n.secret = IF m.email = req[r].email THEN r ELSE m.secret
  <1> DEFINE new(m) == [m EXCEPT !.secret = IF m.email = req[r].email THEN r ELSE @]
  <1>1. \A m \in db["emails"] :
          /\ new(m).email = m.email /\ new(m).user = m.user
          /\ new(m).secret = IF m.email = req[r].email THEN r ELSE m.secret
    BY Values
  <1>2. db'["emails"] = {new(m) : m \in db["emails"]}
    BY DEF SavedSecret
  <1> HIDE DEF new
  <1> QED BY <1>1, <1>2

(* A new nonce leaves the rows otherwise as they are. *)
LEMMA NoncesRewritten ==
  ASSUME TypeOK, NEW r \in Requests, RenewedNonce(r)
  PROVE  /\ \A n \in db'["wallets"] : \E m \in db["wallets"] :
              /\ n.address = m.address /\ n.user = m.user
              /\ n.nonce = IF m.address = req[r].address THEN r ELSE m.nonce
         /\ \A m \in db["wallets"] : \E n \in db'["wallets"] :
              /\ n.address = m.address /\ n.user = m.user
              /\ n.nonce = IF m.address = req[r].address THEN r ELSE m.nonce
  <1> DEFINE new(m) == [m EXCEPT !.nonce = IF m.address = req[r].address THEN r ELSE @]
  <1>1. \A m \in db["wallets"] :
          /\ new(m).address = m.address /\ new(m).user = m.user
          /\ new(m).nonce = IF m.address = req[r].address THEN r ELSE m.nonce
    BY Values
  <1>2. db'["wallets"] = {new(m) : m \in db["wallets"]}
    BY DEF RenewedNonce
  <1> HIDE DEF new
  <1> QED BY <1>1, <1>2

-----------------------------------------------------------------------------
(* StepInv is kept.                                                        *)

(* A request that goes on is where its kind may be. *)
LEMMA StepStays ==
  ASSUME TypeOK, NEW r \in Requests, StepFits(r), GoesOn(r),
         CreatedReferral(r) => req[r].kind = "otp"
  PROVE  StepFits(r)'
  <1> USE DEF Same, StepFits, KindFits, KeysFit, SignUpSteps, BeforeDetail, Rewarding,
              SignUpKinds
  <1>0. Same(r) /\ req[r].user \in Nat /\ req[r].referrer \in Nat
    BY Values DEF GoesOn
  <1>1. CASE InsertedUser(r)
    BY <1>0, <1>1 DEF InsertedUser
  <1>2. CASE InsertedEmail(r)
    BY <1>0, <1>2 DEF InsertedEmail
  <1>3. CASE InsertedWallet(r)
    BY <1>0, <1>3 DEF InsertedWallet, InTx
  <1>4. CASE InsertedGithub(r)
    BY <1>0, <1>4 DEF InsertedGithub
  <1>5. CASE InsertedFirstDetail(r)
    BY <1>0, <1>5 DEF InsertedFirstDetail
  <1>6. CASE CheckedCode(r)
    BY <1>0, <1>6 DEF CheckedCode
  <1>7. CASE InsertedDetail(r)
    BY <1>0, <1>7 DEF InsertedDetail
  <1>8. CASE CreatedReferral(r)
    BY <1>0, <1>8 DEF CreatedReferral
  <1>9. CASE HasReadDetail(r)
    BY <1>0, <1>9 DEF HasReadDetail
  <1>10. CASE CountedReferrals(r)
    BY <1>0, <1>10 DEF CountedReferrals
  <1>11. CASE SavedDetail(r)
    BY <1>0, <1>11 DEF SavedDetail
  <1>12. CASE MarkedReferred(r)
    BY <1>0, <1>12 DEF MarkedReferred
  <1>13. CASE SavedSecret(r)
    BY <1>0, <1>13 DEF SavedSecret
  <1>14. CASE SentMail(r) \/ HasCommitted(r) \/ RenewedNonce(r)
    BY <1>0, <1>14 DEF SentMail, HasCommitted, RenewedNonce
  <1>15. CASE Stops(r)
    BY <1>0, <1>15 DEF Stops, Ended, Answered
  <1> QED BY <1>1, <1>2, <1>3, <1>4, <1>5, <1>6, <1>7, <1>8, <1>9, <1>10, <1>11, <1>12,
             <1>13, <1>14, <1>15 DEF GoesOn

(* So is one that comes. *)
LEMMA ArrivalFits ==
  ASSUME TypeOK, NEW r \in Requests, Comes(r),
         ComesToSignUp(r) \/ ComesToSignIn(r) \/ ComesToRead(r)
  PROVE  StepFits(r)'
  <1> USE DEF StepFits, KindFits, KeysFit, SignUpSteps, BeforeDetail, Rewarding,
              SignUpKinds, Comes
  <1>1. CASE ComesToSignUp(r)
    BY <1>1 DEF ComesToSignUp
  <1>2. CASE ComesToSignIn(r)
    BY <1>2 DEF ComesToSignIn
  <1>3. CASE ComesToRead(r)
    <2>1. ~req'[r].new /\ pc'[r] \in {"ok", "refused", "panicked"}
      BY <1>3 DEF ComesToRead
    <2> QED BY <2>1
  <1> QED BY <1>1, <1>2, <1>3

(* What stays when the request does not move, or is lost.  *)
LEMMA StepInvStays ==
  ASSUME TypeInv, StepInv, Next,
         \A r \in Requests : CreatedReferral(r) => req[r].kind = "otp"
  PROVE  StepInv'
  <1>0. TypeOK
    BY DEF TypeInv
  <1>1. ASSUME NEW r \in Requests, pc'[r] = pc[r], req'[r] = req[r]
        PROVE  StepFits(r)'
    BY <1>1 DEF StepInv, StepFits, KindFits, KeysFit
  <1>2. ASSUME NEW r \in Requests, Comes(r),
               ComesToSignUp(r) \/ ComesToSignIn(r) \/ ComesToRead(r)
        PROVE  StepInv'
    <2>1. StepFits(r)'
      BY <1>0, <1>2, ArrivalFits
    <2> QED BY <1>1, <1>2, <2>1 DEF Comes, StepInv
  <1>3. ASSUME NEW r \in Requests, GoesOn(r)
        PROVE  StepInv'
    <2>1. StepFits(r)'
      BY <1>0, <1>3, StepStays DEF StepInv
    <2> QED BY <1>1, <1>3, <2>1 DEF GoesOn, Alone, StepInv
  <1>4. CASE Uploaded
    BY <1>1, <1>4 DEF Uploaded, StepInv
  <1>5. CASE Crashed
    <2>1. ASSUME NEW r \in Requests, pc'[r] = "lost", req'[r] = req[r]
          PROVE  StepFits(r)'
      BY <2>1 DEF StepFits, KindFits, KeysFit, SignUpSteps, BeforeDetail, Rewarding
    <2> QED BY <1>1, <1>5, <2>1 DEF Crashed, StepInv
  <1> QED BY <1>2, <1>3, <1>4, <1>5, Effects

-----------------------------------------------------------------------------
(* IdsInv, OwnersDiffer and TxInv are kept.                                *)

(* Who comes is known, or new. *)
LEMMA ArrivalIsKnown ==
  ASSUME TypeOK, IdsInv, NEW r \in Requests, Comes(r),
         ComesToSignUp(r) \/ ComesToSignIn(r) \/ ComesToRead(r)
  PROVE  /\ req'[r].user < nextUser
         /\ pc'[r] \in Steps \ {"user"} => ~req'[r].new /\ req'[r].user # 0
  <1>0. /\ \A q \in Requests : req[q].user < nextUser
        /\ \A m \in db["emails"] : Known(m.user)
        /\ 0 < nextUser /\ nextUser \in Nat
        /\ req' \in [Requests -> RequestType]
    BY Values DEF IdsInv, Comes
  <1>1. CASE ComesToSignUp(r)
    BY <1>0, <1>1 DEF ComesToSignUp, Steps
  <1>2. CASE ComesToSignIn(r)
    BY <1>2, FoundAreKnown DEF ComesToSignIn, Known
  <1>3. CASE ComesToRead(r)
    <2>1. pc'[r] \notin Steps
      BY <1>3 DEF ComesToRead, Steps
    <2>2. \A u \in TokenHolders : u < nextUser
      BY <1>0 DEF TokenHolders
    <2>3. req'[r].user < nextUser
      BY <1>0, <1>3, <2>2, FoundAreKnown DEF ComesToRead, Known
    <2> QED BY <2>1, <2>3
  <1> QED BY <1>1, <1>2, <1>3

(* the rows of the tables, without the requests *)
RowsKnown ==
    /\ \A u \in db["users"] : Known(u)
    /\ \A m \in db["emails"] : Known(m.user)
    /\ \A w \in db["wallets"] : Known(w.user)
    /\ \A h \in db["githubs"] : Known(h.user)
    /\ \A d \in db["details"] : Known(d.user) /\ d.id < nextDetail
    /\ \A f \in db["referrals"] : Known(f.referrer) /\ Known(f.referred)

(* Rows are of known users after a step. *)
LEMMA RowsStayKnown ==
  ASSUME TypeInv, StepInv, IdsInv, TxInv, NEW r \in Requests, GoesOn(r),
         pc[r] = "saveDetail" => req[r].read.id < nextDetail /\ Known(req[r].read.user)
  PROVE  RowsKnown'
  <1> USE DEF Known, RowsKnown
  <1>0. /\ nextUser \in Nat /\ nextDetail \in Nat /\ req[r].user \in Nat /\ req[r].referrer \in Nat
        /\ req[r].user < nextUser /\ req[r].referrer < nextUser /\ 0 < nextUser
        /\ pc[r] \in Steps \ {"user"} => 0 < req[r].user
    BY Values DEF IdsInv, TypeInv
  <1>1. RowsKnown
    BY DEF IdsInv
  <1>2. CASE InsertedUser(r)
    <2>1. /\ nextUser' = nextUser + 1 /\ nextDetail' = nextDetail
          /\ db'["users"] \subseteq db["users"] \cup {nextUser}
          /\ \A t \in Tables \ {"users"} : db'[t] = db[t]
      BY <1>2, Names DEF InsertedUser, CreatesIn, DbAdds
    <2>2. /\ \A u \in db["users"] : u \in Nat
          /\ \A m \in db["emails"] : m.user \in Nat
          /\ \A w \in db["wallets"] : w.user \in Nat
          /\ \A h \in db["githubs"] : h.user \in Nat
          /\ \A d \in db["details"] : d.user \in Nat
          /\ \A f \in db["referrals"] : f.referrer \in Nat /\ f.referred \in Nat
      BY Values DEF TypeInv, DetailRows
    <2> QED BY <1>0, <1>1, <2>1, <2>2, Names
  <1>3. CASE InsertedEmail(r)
    <2>1. pc[r] \in Steps \ {"user"}
      BY <1>3 DEF InsertedEmail, Steps
    <2> QED BY <1>0, <1>1, <1>3, <2>1, Names DEF InsertedEmail, DbAdds
  <1>4. CASE InsertedWallet(r)
    <2>1. pc[r] \in Steps \ {"user"}
      BY <1>4 DEF InsertedWallet, Steps
    <2>2. /\ db'["wallets"] \subseteq db["wallets"] \cup
                {[address |-> req[r].address, nonce |-> r, user |-> req[r].user]}
          /\ \A t \in Tables \ {"wallets"} : db'[t] = db[t]
          /\ UNCHANGED <<nextUser, nextDetail>>
      BY <1>4, Names DEF InsertedWallet, CreatesIn, DbAdds
    <2> QED BY <1>0, <1>1, <2>1, <2>2, Names
  <1>5. CASE InsertedGithub(r)
    <2>1. pc[r] \in Steps \ {"user"}
      BY <1>5 DEF InsertedGithub, Steps
    <2>2. /\ db'["githubs"] \subseteq db["githubs"] \cup
                {[github |-> req[r].github, user |-> req[r].user]}
          /\ \A t \in Tables \ {"githubs"} : db'[t] = db[t]
          /\ UNCHANGED <<nextUser, nextDetail>>
      BY <1>5, Names DEF InsertedGithub, CreatesIn, DbAdds
    <2> QED BY <1>0, <1>1, <2>1, <2>2, Names
  <1>6. ASSUME NEW b \in Nat, pc[r] \in {"firstDetail", "detail"}, nextDetail' = nextDetail + 1,
               nextUser' = nextUser,
               db'["details"] \subseteq db["details"] \cup {Detail(nextDetail, req[r].user, b)},
               \A t \in Tables \ {"details"} : db'[t] = db[t]
        PROVE  RowsKnown'
    <2>1. pc[r] \in Steps \ {"user"}
      BY <1>6 DEF Steps
    <2>2. LET d == Detail(nextDetail, req[r].user, b) IN d.id = nextDetail /\ d.user = req[r].user
      BY <1>0, NewDetail
    <2>3. \A d \in db["details"] : d.id \in Nat
      BY Values DEF TypeInv, DetailRows
    <2> QED BY <1>0, <1>1, <1>6, <2>1, <2>2, <2>3, Names
  <1>7. CASE InsertedFirstDetail(r)
    BY <1>6, <1>7, Names DEF InsertedFirstDetail, CreatesIn, DbAdds
  <1>8. CASE InsertedDetail(r)
    BY <1>0, <1>6, <1>8, Names DEF InsertedDetail, DbAdds
  <1>9. CASE CreatedReferral(r)
    <2>1. pc[r] \in Steps \ {"user"} /\ req[r].referrer # 0
      BY <1>9 DEF CreatedReferral, Steps, StepInv, StepFits
    <2> QED BY <1>0, <1>1, <1>9, <2>1, Names DEF CreatedReferral, DbAdds
  <1>10. CASE SavedDetail(r)
    BY <1>0, <1>1, <1>10, Names DEF SavedDetail
  <1>11. CASE MarkedReferred(r)
    BY <1>0, <1>1, <1>11, Names DEF MarkedReferred, DbAdds
  <1>12. CASE SavedSecret(r)
    <2>1. \A n \in db'["emails"] : \E m \in db["emails"] : n.user = m.user
      BY <1>12, SecretsRewritten DEF TypeInv
    <2> QED BY <1>0, <1>1, <1>12, <2>1, Names DEF SavedSecret
  <1>13. CASE RenewedNonce(r)
    <2>1. \A n \in db'["wallets"] : \E w \in db["wallets"] : n.user = w.user
      BY <1>13, NoncesRewritten DEF TypeInv
    <2> QED BY <1>0, <1>1, <1>13, <2>1, Names DEF RenewedNonce
  <1>14. CASE SentMail(r) \/ HasCommitted(r)
    <2>1. pc[r] \in Steps \ {"user"} /\ UNCHANGED <<nextUser, nextDetail>>
      BY <1>14 DEF SentMail, HasCommitted, Steps
    <2>2. \A t \in Tables : db'[t] = db[t] \cup tx[r][t]
      BY <1>14 DEF SentMail, HasCommitted, Commits
    <2>3. TxFits(r) /\ tx[r]["referrals"] = {}
      BY DEF TxInv, TypeInv, ReferralsAreFinite
    <2> QED BY <1>0, <1>1, <2>1, <2>2, <2>3, Names DEF TxFits
  <1>15. CASE CheckedCode(r) \/ HasReadDetail(r) \/ CountedReferrals(r) \/ Stops(r)
    BY <1>1, <1>15 DEF CheckedCode, HasReadDetail, CountedReferrals, Stops
  <1> QED BY <1>2, <1>3, <1>4, <1>5, <1>7, <1>8, <1>9, <1>10, <1>11, <1>12, <1>13, <1>14,
             <1>15 DEF GoesOn

(* users and referrers of the requests *)
LEMMA RequestsStayKnown ==
  ASSUME TypeInv, StepInv, IdsInv, NEW r \in Requests, GoesOn(r)
  PROVE  /\ nextUser' \in Nat /\ nextUser <= nextUser'
         /\ req'[r].user < nextUser' /\ req'[r].referrer < nextUser'
         /\ pc'[r] \in Steps \ {"user"} => req'[r].user # 0
         /\ pc[r] # "user" => req'[r].user = req[r].user
  <1>0. /\ nextUser \in Nat /\ req[r].user \in Nat /\ req[r].referrer \in Nat
        /\ req[r].user < nextUser /\ req[r].referrer < nextUser /\ 0 < nextUser
        /\ pc[r] \in Steps \ {"user"} => 0 < req[r].user
    BY Values DEF IdsInv, TypeInv
  <1>1. CASE InsertedUser(r)
    BY <1>0, <1>1 DEF InsertedUser
  <1>2. CASE CheckedCode(r)
    <2>1. pc[r] \in Steps \ {"user"}
      BY <1>2 DEF CheckedCode, Steps
    <2> QED BY <1>0, <1>2, <2>1, FoundAreKnown DEF CheckedCode, Known
  <1>3. CASE InsertedDetail(r) \/ HasReadDetail(r) \/ CountedReferrals(r)
    <2>1. pc[r] \in Steps \ {"user"}
      BY <1>3 DEF InsertedDetail, HasReadDetail, CountedReferrals, Steps
    <2> QED BY <1>0, <1>3, <2>1 DEF InsertedDetail, HasReadDetail, CountedReferrals
  <1>4. CASE ~(\/ InsertedUser(r) \/ CheckedCode(r) \/ InsertedDetail(r) \/ HasReadDetail(r)
               \/ CountedReferrals(r))
    <2>1. /\ UNCHANGED <<req, nextUser>>
          /\ pc[r] \in Steps \ {"user"} \/ pc'[r] \notin Steps
      BY <1>4 DEF GoesOn, InsertedEmail, InsertedWallet, InsertedGithub, InsertedFirstDetail,
         CreatedReferral, SavedDetail, MarkedReferred, SavedSecret, SentMail, HasCommitted,
         RenewedNonce, Stops, Steps, Ended, Answered
    <2> QED BY <1>0, <2>1
  <1> QED BY <1>1, <1>2, <1>3, <1>4

(* Ids of details are taken in order. *)
LEMMA NextDetailGrows ==
  ASSUME TypeOK, NEW r \in Requests, GoesOn(r)
  PROVE  nextDetail \in Nat /\ nextDetail' \in Nat /\ nextDetail <= nextDetail'
  <1>1. nextDetail' = nextDetail \/ nextDetail' = nextDetail + 1
    BY DEF GoesOn, InsertedUser, InsertedEmail, InsertedWallet, InsertedGithub,
       InsertedFirstDetail, CheckedCode, InsertedDetail, CreatedReferral, HasReadDetail,
       CountedReferrals, SavedDetail, MarkedReferred, SavedSecret, SentMail, HasCommitted,
       RenewedNonce, Stops
  <1> QED BY <1>1, Values

(* Every step keeps users and ids within what the sequences have given. *)
LEMMA IdsInvStays ==
  ASSUME TypeInv, StepInv, IdsInv, TxInv, Next,
         \A r \in Requests : pc[r] = "saveDetail" =>
            req[r].read.id < nextDetail /\ Known(req[r].read.user)
  PROVE  IdsInv'
  <1>0. TypeOK /\ RowsKnown /\ 0 < nextUser /\ nextUser \in Nat
    BY Values DEF TypeInv, IdsInv, RowsKnown
  <1>1. \A q \in Requests :
          /\ req[q].user < nextUser /\ req[q].referrer < nextUser
          /\ req[q].user \in Nat /\ req[q].referrer \in Nat
          /\ pc[q] \in Steps \ {"user"} => req[q].user # 0
    BY Values DEF TypeInv, IdsInv
  <1>2. ASSUME NEW r \in Requests, Comes(r),
               ComesToSignUp(r) \/ ComesToSignIn(r) \/ ComesToRead(r)
        PROVE  IdsInv'
    <2>1. UNCHANGED <<db, nextUser, nextDetail>> /\ req'[r].referrer = 0
      BY <1>2 DEF Comes
    <2>2. /\ req'[r].user < nextUser
          /\ pc'[r] \in Steps \ {"user"} => req'[r].user # 0
      BY <1>0, <1>2, ArrivalIsKnown
    <2>3. RowsKnown'
      BY <1>0, <2>1 DEF RowsKnown, Known
    <2> QED BY <1>0, <1>1, <1>2, <2>1, <2>2, <2>3 DEF Comes, IdsInv, RowsKnown
  <1>3. ASSUME NEW r \in Requests, GoesOn(r)
        PROVE  IdsInv'
    <2>1. RowsKnown'
      BY <1>3, RowsStayKnown
    <2>2. /\ nextUser' \in Nat /\ nextUser <= nextUser'
          /\ req'[r].user < nextUser' /\ req'[r].referrer < nextUser'
          /\ pc'[r] \in Steps \ {"user"} => req'[r].user # 0
      BY <1>3, RequestsStayKnown
    <2>3. \A q \in Requests \ {r} : req'[q] = req[q] /\ pc'[q] = pc[q]
      BY <1>3 DEF GoesOn, Alone
    <2>4. \A q \in Requests :
            /\ req'[q].user < nextUser' /\ req'[q].referrer < nextUser'
            /\ pc'[q] \in Steps \ {"user"} => req'[q].user # 0
      BY <1>0, <1>1, <2>2, <2>3
    <2> QED BY <1>0, <2>1, <2>2, <2>4 DEF IdsInv, RowsKnown
  <1>4. CASE Uploaded
    <2>1. /\ UNCHANGED <<nextUser, nextDetail, pc, req>>
          /\ \A t \in Tables \ {"details"} : db'[t] = db[t]
      BY <1>4 DEF Uploaded
    <2>2. \A d \in db'["details"] : \E e \in db["details"] : d.user = e.user /\ d.id = e.id
      <3>1. \A e \in db["details"] :
              LET d == [e EXCEPT !.used = @ + 1] IN d.user = e.user /\ d.id = e.id
        BY <1>0, Values DEF DetailRows
      <3> QED BY <1>4, <3>1 DEF Uploaded
    <2> QED BY <1>0, <1>1, <2>1, <2>2, Names DEF IdsInv, RowsKnown, Known
  <1>5. CASE Crashed
    <2>1. UNCHANGED <<db, nextUser, nextDetail, req>>
      BY <1>5 DEF Crashed
    <2>2. \A q \in Requests : pc'[q] \in Steps => pc'[q] = pc[q]
      BY <1>5 DEF Crashed, Steps
    <2> QED BY <1>0, <1>1, <2>1, <2>2 DEF IdsInv, RowsKnown, Known
  <1> QED BY <1>2, <1>3, <1>4, <1>5, Effects

(* A user is signed up by one request. *)
LEMMA OwnersStayDifferent ==
  ASSUME TypeInv, StepInv, IdsInv, OwnersDiffer, Next
  PROVE  OwnersDiffer'
  <1>0. TypeOK
    BY DEF TypeInv
  <1>1. \A q \in Requests : req[q].user < nextUser /\ req[q].user \in Nat
    BY Values DEF TypeInv, IdsInv
  <1>2. ASSUME NEW r \in Requests, Comes(r),
               ComesToSignUp(r) \/ ComesToSignIn(r) \/ ComesToRead(r)
        PROVE  OwnersDiffer'
    <2>1. req'[r].new => req'[r].user = 0
      BY <1>2 DEF ComesToSignUp, ComesToSignIn, ComesToRead
    <2>2. \A q \in Requests \ {r} : req'[q] = req[q]
      BY <1>2 DEF Comes
    <2> QED BY <2>1, <2>2 DEF OwnersDiffer
  <1>3. ASSUME NEW r \in Requests, GoesOn(r)
        PROVE  OwnersDiffer'
    <2>1. req'[r].new = req[r].new /\ \A q \in Requests \ {r} : req'[q] = req[q]
      BY <1>3 DEF GoesOn, Alone, Same
    <2>2. CASE pc[r] # "user"
      <3>1. req'[r].user = req[r].user
        BY <1>3, <2>2, RequestsStayKnown
      <3> QED BY <2>1, <3>1 DEF OwnersDiffer
    <2>3. CASE pc[r] = "user"
      <3>1. req'[r].user = req[r].user \/ req'[r].user = nextUser
        BY <1>3, <2>3 DEF GoesOn, InsertedUser, InsertedEmail, InsertedWallet, InsertedGithub,
           InsertedFirstDetail, CheckedCode, InsertedDetail, CreatedReferral, HasReadDetail,
           CountedReferrals, SavedDetail, MarkedReferred, SavedSecret, SentMail, HasCommitted,
           RenewedNonce, Stops
      <3>2. \A q \in Requests : req[q].user # nextUser
        BY <1>0, <1>1, Values
      <3> QED BY <2>1, <3>1, <3>2 DEF OwnersDiffer
    <2> QED BY <2>2, <2>3
  <1>4. CASE Uploaded \/ Crashed
    BY <1>4 DEF Uploaded, Crashed, OwnersDiffer
  <1> QED BY <1>2, <1>3, <1>4, Effects

(* The transaction of the request that goes on. *)
LEMMA TxStays ==
  ASSUME TypeInv, StepInv, IdsInv, TxInv, NEW r \in Requests, GoesOn(r)
  PROVE  TxFits(r)'
  <1> USE DEF InTx
  <1>0. /\ TxFits(r) /\ Same(r) /\ StepFits(r) /\ nextDetail \in Nat
        /\ req[r].user \in Nat /\ req[r].referrer \in Nat
        /\ \A d \in tx[r]["details"] : d.id \in Nat
        /\ DOMAIN tx[r] = Tables
    BY Values, Types DEF TypeInv, TxInv, StepInv, GoesOn, DetailRows
  <1>1. /\ NoRows["emails"] = {} /\ NoRows["users"] = {} /\ NoRows["referred_users"] = {}
        /\ NoRows["wallets"] = {} /\ NoRows["githubs"] = {} /\ NoRows["details"] = {}
    BY Names
  <1>2. ASSUME tx'[r] = NoRows
        PROVE  TxFits(r)'
    BY <1>1, <1>2 DEF TxFits
  <1>3. ASSUME tx'[r] = tx[r], req'[r].user = req[r].user, pc'[r] \notin {"idle", "user"},
               nextDetail' \in Nat, nextDetail <= nextDetail'
        PROVE  TxFits(r)'
    BY <1>0, <1>3 DEF TxFits, Same
  <1>4. nextDetail' \in Nat /\ nextDetail <= nextDetail'
    BY NextDetailGrows DEF TypeInv
  <1>5. CASE InsertedUser(r)
    <2>1. tx[r] = NoRows /\ req[r].new /\ pc'[r] \notin {"idle", "user"}
      BY <1>0, <1>5 DEF InsertedUser, TxFits, StepFits, SignUpSteps
    <2>2. CASE tx'[r] = tx[r]
      BY <1>2, <2>1, <2>2
    <2>3. CASE req[r].kind = "github" /\ TxAdds(r, "users", {nextUser})
      <3>1. /\ tx'[r]["users"] = {nextUser} /\ tx'[r]["emails"] = {}
            /\ tx'[r]["referred_users"] = {} /\ tx'[r]["wallets"] = {}
            /\ tx'[r]["githubs"] = {} /\ tx'[r]["details"] = {}
        BY <1>1, <2>1, <2>3, Names DEF TxAdds
      <3> QED BY <1>0, <1>5, <2>1, <2>3, <3>1 DEF TxFits, Same, InsertedUser
    <2> QED BY <1>5, <2>2, <2>3 DEF InsertedUser, CreatesIn
  <1>6. ASSUME NEW t \in Tables \ {"users", "emails"}, NEW row, TxAdds(r, t, {row}),
               req[r].new, pc'[r] \notin {"idle", "user"}, req'[r].user = req[r].user,
               t \in {"wallets", "githubs"} => req[r].kind = "github",
               t = "details" => req[r].kind \in {"google", "github"},
               t = "referred_users" => row = req[r].user,
               t = "wallets" => row.user = req[r].user /\ row.nonce = r,
               t = "githubs" => row.user = req[r].user,
               t = "details" => /\ row.user = req[r].user /\ row.used = 0 /\ row.bonus = 0
                                /\ row.id < nextDetail'
        PROVE  TxFits(r)'
    <2>1. /\ tx'[r]["users"] = tx[r]["users"] /\ tx'[r]["emails"] = tx[r]["emails"]
          /\ tx'[r]["referred_users"] \subseteq
                tx[r]["referred_users"] \cup (IF t = "referred_users" THEN {row} ELSE {})
          /\ tx'[r]["wallets"] \subseteq tx[r]["wallets"] \cup (IF t = "wallets" THEN {row} ELSE {})
          /\ tx'[r]["githubs"] \subseteq tx[r]["githubs"] \cup (IF t = "githubs" THEN {row} ELSE {})
          /\ tx'[r]["details"] \subseteq tx[r]["details"] \cup (IF t = "details" THEN {row} ELSE {})
      BY <1>6, Names DEF TxAdds
    <2>2. \A d \in tx[r]["details"] : d.id < nextDetail'
      BY <1>0, <1>4 DEF TxFits
    <2>3. /\ req'[r].new = req[r].new /\ req'[r].kind = req[r].kind
      BY <1>0 DEF Same
    <2>4. TxFits(r)
      BY <1>0
    <2>5. /\ ~(pc'[r] \in {"idle", "user"} \/ ~req'[r].new)
          /\ tx'[r]["emails"] = {}
          /\ \A u \in tx'[r]["users"] : u = req'[r].user
          /\ \A u \in tx'[r]["referred_users"] : u = req'[r].user
      BY <1>6, <2>1, <2>3, <2>4 DEF TxFits
    <2>6. /\ \A w \in tx'[r]["wallets"] : w.user = req'[r].user /\ w.nonce = r
          /\ \A h \in tx'[r]["githubs"] : h.user = req'[r].user
          /\ ~(req'[r].kind = "github") =>
              tx'[r]["users"] = {} /\ tx'[r]["wallets"] = {} /\ tx'[r]["githubs"] = {}
      BY <1>6, <2>1, <2>3, <2>4 DEF TxFits
    <2>7. /\ \A d \in tx'[r]["details"] :
              d.user = req'[r].user /\ d.used = 0 /\ d.bonus = 0 /\ d.id < nextDetail'
          /\ req'[r].kind \notin {"google", "github"} => tx'[r]["details"] = {}
      BY <1>6, <2>1, <2>2, <2>3, <2>4 DEF TxFits
    <2> QED BY <2>5, <2>6, <2>7 DEF TxFits
  <1>7. CASE InsertedWallet(r)
    <2> DEFINE row == [address |-> req[r].address, nonce |-> r, user |-> req[r].user]
    <2>1. req[r].new /\ pc'[r] \notin {"idle", "user"} /\ req' = req
      BY <1>0, <1>7 DEF InsertedWallet, StepFits, SignUpSteps, BeforeDetail
    <2>2. row.user = req[r].user /\ row.nonce = r
      OBVIOUS
    <2>3. \/ req[r].kind = "github" /\ TxAdds(r, "wallets", {row})
          \/ UNCHANGED tx
      BY <1>7 DEF InsertedWallet, CreatesIn
    <2> HIDE DEF row
    <2> QED BY <1>3, <1>4, <1>6, <2>1, <2>2, <2>3, Names
  <1>8. CASE InsertedGithub(r)
    <2> DEFINE row == [github |-> req[r].github, user |-> req[r].user]
    <2>1. req[r].new /\ pc'[r] \notin {"idle", "user"} /\ req' = req
      BY <1>0, <1>8 DEF InsertedGithub, StepFits, SignUpSteps, BeforeDetail
    <2>2. row.user = req[r].user
      OBVIOUS
    <2>3. \/ req[r].kind = "github" /\ TxAdds(r, "githubs", {row})
          \/ UNCHANGED tx
      BY <1>8 DEF InsertedGithub, CreatesIn
    <2> HIDE DEF row
    <2> QED BY <1>3, <1>4, <1>6, <2>1, <2>2, <2>3, Names
  <1>9. CASE InsertedFirstDetail(r)
    <2> DEFINE row == Detail(nextDetail, req[r].user, 0)
    <2>1. /\ req[r].new /\ pc'[r] \notin {"idle", "user"} /\ req' = req
          /\ nextDetail' = nextDetail + 1
      BY <1>0, <1>9 DEF InsertedFirstDetail, StepFits, SignUpSteps, BeforeDetail
    <2>2. /\ row.user = req[r].user /\ row.used = 0 /\ row.bonus = 0
          /\ row.id < nextDetail'
      BY <1>0, <2>1, NewDetail
    <2>3. \/ req[r].kind = "github" /\ TxAdds(r, "details", {row})
          \/ UNCHANGED tx
      BY <1>9 DEF InsertedFirstDetail, CreatesIn
    <2> HIDE DEF row
    <2> QED BY <1>3, <1>4, <1>6, <2>1, <2>2, <2>3, Names
  <1>10. CASE CheckedCode(r)
    <2>1. /\ req[r].new /\ pc'[r] \notin {"idle", "user"} /\ req'[r].user = req[r].user
          /\ TxAdds(r, "referred_users", {req[r].user}) \/ UNCHANGED tx
      BY <1>0, <1>10 DEF CheckedCode, StepFits, SignUpSteps, BeforeDetail
    <2> QED BY <1>3, <1>4, <1>6, <2>1, Names
  <1>11. CASE InsertedDetail(r)
    <2> DEFINE row == Detail(nextDetail, req[r].user, req[r].referrer)
    <2>1. /\ req[r].new /\ pc'[r] \notin {"idle", "user"} /\ req'[r].user = req[r].user
          /\ nextDetail' = nextDetail + 1 /\ pc[r] = "detail"
      BY <1>0, <1>11 DEF InsertedDetail, StepFits, SignUpSteps, BeforeDetail
    <2>2. /\ row.user = req[r].user /\ row.used = 0 /\ row.bonus = 0
          /\ row.id < nextDetail'
      BY <1>0, <2>1, NewDetail
    <2>3. \/ req[r].kind \in {"google", "github"} /\ TxAdds(r, "details", {row})
          \/ UNCHANGED tx
      <3>1. req[r].kind \in {"otp", "google", "github"}
        BY <1>0, <2>1 DEF StepFits, KindFits
      <3> QED BY <1>11, <3>1 DEF InsertedDetail
    <2> HIDE DEF row
    <2> QED BY <1>3, <1>4, <1>6, <2>1, <2>2, <2>3, Names
  <1>12. CASE SentMail(r) \/ HasCommitted(r)
    BY <1>2, <1>12 DEF SentMail, HasCommitted, Commits
  <1>13. CASE Stops(r)
    <2>1. pc'[r] \notin {"idle", "user"} /\ req' = req /\ tx'[r] \in {tx[r], NoRows}
      BY <1>13 DEF Stops, Ended, Answered
    <2> QED BY <1>2, <1>3, <1>4, <2>1
  <1>14. CASE \/ InsertedEmail(r) \/ CreatedReferral(r) \/ HasReadDetail(r)
              \/ CountedReferrals(r) \/ SavedDetail(r) \/ MarkedReferred(r)
              \/ SavedSecret(r) \/ RenewedNonce(r)
    <2>1. tx'[r] = tx[r] /\ req'[r].user = req[r].user /\ pc'[r] \notin {"idle", "user"}
      BY <1>14 DEF InsertedEmail, CreatedReferral, HasReadDetail, CountedReferrals,
         SavedDetail, MarkedReferred, SavedSecret, RenewedNonce
    <2> QED BY <1>3, <1>4, <2>1
  <1> QED BY <1>5, <1>7, <1>8, <1>9, <1>10, <1>11, <1>12, <1>13, <1>14 DEF GoesOn

(* Every step keeps what a transaction holds of its own request. *)
LEMMA TxInvStays ==
  ASSUME TypeInv, StepInv, IdsInv, TxInv, Next
  PROVE  TxInv'
  <1>0. TypeOK /\ \A r \in Requests : TxFits(r)
    BY DEF TypeInv, TxInv
  <1>1. \A r \in Requests : \A d \in tx[r]["details"] : d.id \in Nat
    BY <1>0, Values DEF DetailRows
  <1>2. ASSUME NEW r \in Requests, pc'[r] = pc[r], req'[r] = req[r], tx'[r] = tx[r],
               nextDetail \in Nat, nextDetail' \in Nat, nextDetail <= nextDetail'
        PROVE  TxFits(r)'
    BY <1>0, <1>1, <1>2 DEF TxFits, InTx
  <1>3. ASSUME NEW r \in Requests, tx'[r] = NoRows
        PROVE  TxFits(r)'
    <2>1. /\ NoRows["emails"] = {} /\ NoRows["users"] = {} /\ NoRows["referred_users"] = {}
          /\ NoRows["wallets"] = {} /\ NoRows["githubs"] = {} /\ NoRows["details"] = {}
      BY Names
    <2> QED BY <1>3, <2>1 DEF TxFits
  <1>4. ASSUME NEW r \in Requests, Comes(r)
        PROVE  TxInv'
    <2>1. tx'[r] = NoRows /\ UNCHANGED <<tx, nextDetail>> /\ nextDetail \in Nat
      BY <1>0, <1>4, Values DEF Comes, TxFits
    <2> QED BY <1>2, <1>3, <1>4, <2>1 DEF Comes, TxInv
  <1>5. ASSUME NEW r \in Requests, GoesOn(r)
        PROVE  TxInv'
    <2>1. TxFits(r)' /\ nextDetail \in Nat /\ nextDetail' \in Nat /\ nextDetail <= nextDetail'
      BY <1>0, <1>5, TxStays, NextDetailGrows
    <2> QED BY <1>2, <1>5, <2>1 DEF GoesOn, Alone, TxInv
  <1>6. CASE Uploaded
    <2>1. UNCHANGED <<tx, nextDetail, pc, req>> /\ nextDetail \in Nat
      BY <1>0, <1>6, Values DEF Uploaded
    <2> QED BY <1>2, <2>1 DEF TxInv
  <1>7. CASE Crashed
    BY <1>3, <1>7 DEF Crashed, TxInv
  <1> QED BY <1>4, <1>5, <1>6, <1>7, Effects

-----------------------------------------------------------------------------
(* What a sign-up has inserted by each step, and has not yet               *)

UserFits(r) ==
    LET u == req[r].user IN
    req[r].new /\ pc[r] \in Steps \ {"user"} =>
        /\ req[r].kind = "github" =>
            /\ u \in tx[r]["users"]
            /\ pc[r] # "wallet" => \E w \in tx[r]["wallets"] : w.user = u
        /\ req[r].kind # "github" =>
            /\ u \in db["users"]
            /\ pc[r] \notin {"email", "wallet"} => HasWallet(u)

DetailFits(r) ==
    LET u == req[r].user IN
    req[r].new =>
        /\ pc[r] \in {"mark", "mail"} \cup Rewarding => DetailsOf(u) # {}
        /\ pc[r] = "commit" => tx[r]["details"] # {}
        /\ pc[r] \in BeforeDetail => DetailsOf(u) = {}
        /\ pc[r] \in Steps \ {"user"} /\ req[r].kind \in {"google", "github"} =>
            DetailsOf(u) = {}

MarkFits(r) ==
    /\ req[r].new /\ req[r].code = "ns" /\ req[r].kind # "nonce"
    /\ pc[r] \in {"detail", "commit", "mail", "referral"} \cup Rewarding
    => req[r].user \in tx[r]["referred_users"]

ReferralFits(r) ==
    LET u == req[r].user
        Mine(d) == d.id = req[r].detail /\ d.user = u /\ d.by = req[r].referrer
    IN
    req[r].new =>
        /\ req[r].referrer # 0 /\ pc[r] \in {"mail"} \cup Rewarding =>
            \E f \in db["referrals"] : f.referred = u
        /\ pc[r] \in BeforeDetail \cup {"referral"} =>
            \A f \in db["referrals"] : f.referred # u
        /\ pc[r] = "referral" =>
            /\ req[r].kind = "otp" => \E d \in db["details"] : Mine(d)
            /\ req[r].kind # "otp" => \E d \in tx[r]["details"] : Mine(d)

SignUpInv ==
    \A r \in Requests : UserFits(r) /\ DetailFits(r) /\ MarkFits(r) /\ ReferralFits(r)

(* the detail that has been read is still the first one of its user *)
ReadFits(r) ==
    pc[r] \in {"count", "saveDetail"} =>
        /\ \E d \in db["details"] :
            /\ d.id = req[r].read.id /\ d.user = req[r].read.user /\ d.by = req[r].read.by
            /\ IsDetail(d, d.user)
        /\ req[r].read.user = req[r].referrer
        /\ req[r].read.bonus <= Cardinality(ReferralsOf(req[r].read.user))

ReadInv == \A r \in Requests : ReadFits(r)

-----------------------------------------------------------------------------
(* Details are added to users that have none, or the first one is written. *)

DetailsAdded(r, N) ==
    /\ pc[r] \in {"firstDetail", "detail", "commit"} /\ req[r].new
    /\ db'["details"] = db["details"] \cup N
    /\ DetailsOf(req[r].user) = {}
    /\ \A n \in N : /\ n \in DetailRows
                    /\ n.user = req[r].user /\ n.used = 0 /\ n.bonus = 0
                    /\ \A d \in db["details"] : d.id # n.id
    /\ \A m, n \in N : m.id = n.id => m = n

FirstWritten(d, e) ==
    /\ d \in db["details"] /\ IsDetail(d, d.user)
    /\ e \in DetailRows /\ e.id = d.id /\ e.user = d.user /\ e.by = d.by
    /\ db'["details"] = (db["details"] \ {d}) \cup {e}

(* A sign-up of Google or GitHub does not get to a referral: its detail is not
   committed yet.  *)
LEMMA OnlyCodesRefer ==
  ASSUME StepInv, SignUpInv, DetailIds, NEW r \in Requests, CreatedReferral(r)
  PROVE  req[r].kind = "otp"
  <1>1. pc[r] = "referral" /\ \E d \in db["details"] : d.id = req[r].detail
    BY DEF CreatedReferral, PartsExist
  <1>2. req[r].new
    BY <1>1 DEF StepInv, StepFits, SignUpSteps
  <1>3. req[r].kind # "otp" => \E d \in tx[r]["details"] : d.id = req[r].detail
    BY <1>1, <1>2 DEF SignUpInv, ReferralFits
  <1> QED BY <1>1, <1>3 DEF DetailIds

(* The detail to write back is known. *)
LEMMA ReadIsKnown ==
  ASSUME TypeOK, IdsInv, ReadInv, NEW r \in Requests, pc[r] = "saveDetail"
  PROVE  req[r].read.id < nextDetail /\ Known(req[r].read.user)
  BY DEF ReadInv, ReadFits, IdsInv

(* What a step may do to the details. *)
LEMMA DetailsChange ==
  ASSUME TypeInv, StepInv, IdsInv, TxInv, DetailIds, SignUpInv, ReadInv,
         NEW r \in Requests, GoesOn(r)
  PROVE  \/ db'["details"] = db["details"]
         \/ \E N : DetailsAdded(r, N)
         \/ /\ pc[r] = "saveDetail"
            /\ \E d \in db["details"] : d.id = req[r].read.id /\ FirstWritten(d, req[r].read)
  <1>0. /\ StepFits(r) /\ DetailFits(r) /\ TxFits(r) /\ nextDetail \in Nat
        /\ req[r].user \in Nat /\ req[r].referrer \in Nat /\ req[r].read \in DetailRows
        /\ \A d \in db["details"] : d \in DetailRows /\ d.id < nextDetail
    BY Values DEF TypeInv, StepInv, SignUpInv, TxInv, IdsInv
  <1>1. CASE InsertedFirstDetail(r)
    <2> DEFINE row == Detail(nextDetail, req[r].user, 0)
    <2>1. /\ pc[r] = "firstDetail" /\ req[r].new /\ DetailsOf(req[r].user) = {}
      BY <1>0, <1>1 DEF InsertedFirstDetail, StepFits, SignUpSteps, BeforeDetail, DetailFits
    <2>2. db'["details"] = db["details"] \/ db'["details"] = db["details"] \cup {row}
      BY <1>1, Names DEF InsertedFirstDetail, CreatesIn, DbAdds
    <2>3. /\ row \in DetailRows /\ row.id = nextDetail /\ row.user = req[r].user
          /\ row.used = 0 /\ row.bonus = 0
      BY <1>0, NewDetail
    <2>4. \A d \in db["details"] : d.id # nextDetail
      BY <1>0 DEF DetailRows
    <2> HIDE DEF row
    <2>5. db'["details"] = db["details"] \cup {row} => DetailsAdded(r, {row})
      BY <2>1, <2>3, <2>4 DEF DetailsAdded
    <2> QED BY <2>2, <2>5
  <1>2. CASE InsertedDetail(r)
    <2> DEFINE row == Detail(nextDetail, req[r].user, req[r].referrer)
    <2>1. /\ pc[r] = "detail" /\ req[r].new /\ DetailsOf(req[r].user) = {}
      BY <1>0, <1>2 DEF InsertedDetail, StepFits, SignUpSteps, BeforeDetail, DetailFits
    <2>2. db'["details"] = db["details"] \/ db'["details"] = db["details"] \cup {row}
      BY <1>2, Names DEF InsertedDetail, DbAdds
    <2>3. /\ row \in DetailRows /\ row.id = nextDetail /\ row.user = req[r].user
          /\ row.used = 0 /\ row.bonus = 0
      BY <1>0, NewDetail
    <2>4. \A d \in db["details"] : d.id # nextDetail
      BY <1>0 DEF DetailRows
    <2> HIDE DEF row
    <2>5. db'["details"] = db["details"] \cup {row} => DetailsAdded(r, {row})
      BY <2>1, <2>3, <2>4 DEF DetailsAdded
    <2> QED BY <2>2, <2>5
  <1>3. CASE SentMail(r)
    <2>1. db'["details"] = db["details"] \cup tx[r]["details"]
      BY <1>3, Names DEF SentMail, Commits
    <2>2. tx[r]["details"] = {}
      BY <1>0, <1>3 DEF SentMail, StepFits, KindFits, TxFits
    <2> QED BY <2>1, <2>2
  <1>4. CASE HasCommitted(r)
    <2> DEFINE N == tx[r]["details"]
    <2>1. db'["details"] = db["details"] \cup N /\ pc[r] = "commit" /\ "commit" \in Steps
      BY <1>4, Names DEF HasCommitted, Commits, Steps
    <2>2. CASE N = {}
      BY <2>1, <2>2
    <2>3. CASE N # {}
      <3>1. req[r].new
        BY <1>0, <2>3, Names DEF TxFits
      <3>2. DetailsOf(req[r].user) = {}
        BY <1>0, <2>1, <3>1 DEF StepFits, KindFits, DetailFits
      <3>3. \A n \in N : /\ n \in DetailRows /\ n.user = req[r].user /\ n.used = 0 /\ n.bonus = 0
                         /\ \A d \in db["details"] : d.id # n.id
        BY <1>0, Values DEF TxFits, DetailIds, TypeInv
      <3>4. \A m, n \in N : m.id = n.id => m = n
        BY DEF DetailIds
      <3> QED BY <2>1, <3>1, <3>2, <3>3, <3>4 DEF DetailsAdded
    <2> QED BY <2>2, <2>3
  <1>5. CASE SavedDetail(r)
    <2>1. PICK d \in db["details"] :
            /\ d.id = req[r].read.id /\ d.user = req[r].read.user /\ d.by = req[r].read.by
            /\ IsDetail(d, d.user)
      BY <1>5 DEF SavedDetail, ReadInv, ReadFits
    <2>2. \A e \in db["details"] : e.id = req[r].read.id <=> e = d
      BY <2>1 DEF DetailIds
    <2>3. db'["details"] = {IF e.id = req[r].read.id THEN req[r].read ELSE e : e \in db["details"]}
      BY <1>5 DEF SavedDetail
    <2>4. db'["details"] = (db["details"] \ {d}) \cup {req[r].read}
      BY <2>1, <2>2, <2>3
    <2> QED BY <1>0, <1>5, <2>1, <2>4 DEF FirstWritten, SavedDetail
  <1>6. CASE ~(\/ InsertedFirstDetail(r) \/ InsertedDetail(r) \/ SentMail(r) \/ HasCommitted(r)
               \/ SavedDetail(r))
    BY <1>6, Names DEF GoesOn, InsertedUser, InsertedEmail, InsertedWallet, InsertedGithub,
       CheckedCode, CreatedReferral, HasReadDetail, CountedReferrals, MarkedReferred,
       SavedSecret, RenewedNonce, Stops, CreatesIn, DbAdds
  <1> QED BY <1>1, <1>2, <1>3, <1>4, <1>5, <1>6

(* what becomes of the first detail of a user *)
DetailsStay ==
    \A d \in db["details"] : \E e \in db'["details"] :
        /\ e.id = d.id /\ e.user = d.user /\ e.by = d.by
        /\ IsDetail(d, d.user) => IsDetail(e, e.user)'

DetailsAreUnique == \A d, e \in db["details"] : d.id = e.id => d = e

(* Details that are added to a user without any. *)
LEMMA AfterAdding ==
  ASSUME TypeOK, DetailsAreUnique, OneDetailCounts, NEW r \in Requests, NEW N,
         DetailsAdded(r, N)
  PROVE  DetailsStay /\ DetailsAreUnique' /\ OneDetailCounts'
  <1>1. \A d \in db["details"] : d.user # req[r].user
    BY DEF DetailsAdded, DetailsOf
  <1>2. DetailsAreUnique'
    BY DEF DetailsAreUnique, DetailsAdded
  <1>3. OneDetailCounts'
    BY <1>1 DEF OneDetailCounts, DetailsAdded
  <1>4. DetailsStay
    BY <1>1 DEF DetailsStay, DetailsAdded, IsDetail, DetailsOf
  <1> QED BY <1>2, <1>3, <1>4

(* A first detail that is written. *)
LEMMA AfterWriting ==
  ASSUME TypeOK, DetailsAreUnique, OneDetailCounts, NEW d, NEW e, FirstWritten(d, e)
  PROVE  DetailsStay /\ DetailsAreUnique' /\ OneDetailCounts'
  <1>0. \A c \in db["details"] : c.id \in Nat
    BY Values DEF DetailRows
  <1>1. /\ d \in db["details"] /\ \A c \in db["details"] : c.user = d.user => d.id <= c.id
        /\ e.id = d.id /\ e.user = d.user /\ e.by = d.by /\ e.id \in Nat
        /\ db'["details"] = (db["details"] \ {d}) \cup {e}
    BY DEF FirstWritten, IsDetail, DetailsOf, DetailRows
  <1>2. \A c \in db["details"] : c # d => c.id # d.id
    BY <1>1 DEF DetailsAreUnique
  <1>3. DetailsAreUnique'
    BY <1>1, <1>2 DEF DetailsAreUnique
  <1>4. OneDetailCounts'
    <2> SUFFICES ASSUME NEW b \in db'["details"], NEW c \in db'["details"],
                        b.user = c.user, b.id < c.id
                 PROVE  c.used = 0 /\ c.bonus = 0
      BY DEF OneDetailCounts
    <2>1. c # e
      BY <1>0, <1>1
    <2>2. c \in db["details"] /\ \E a \in db["details"] : a.user = c.user /\ a.id < c.id
      BY <1>1, <2>1
    <2> QED BY <2>2 DEF OneDetailCounts
  <1>5. DetailsStay
    <2> SUFFICES ASSUME NEW c \in db["details"]
                 PROVE  \E b \in db'["details"] :
                            /\ b.id = c.id /\ b.user = c.user /\ b.by = c.by
                            /\ IsDetail(c, c.user) => IsDetail(b, b.user)'
      BY DEF DetailsStay
    <2> DEFINE b == IF c = d THEN e ELSE c
    <2>1. b \in db'["details"] /\ b.id = c.id /\ b.user = c.user /\ b.by = c.by
      BY <1>1
    <2>2. ASSUME IsDetail(c, c.user)
          PROVE  IsDetail(b, b.user)'
      <3>1. \A a \in db'["details"] : a.user = b.user => b.id <= a.id
        <4>1. \A a \in db["details"] : a.user = c.user => c.id <= a.id
          BY <2>2 DEF IsDetail, DetailsOf
        <4> QED BY <1>1, <2>1, <4>1
      <3> HIDE DEF b
      <3> QED BY <2>1, <3>1 DEF IsDetail, DetailsOf
    <2> QED BY <2>1, <2>2
  <1> QED BY <1>3, <1>4, <1>5

(* Details that are left alone. *)
LEMMA AfterNothing ==
  ASSUME DetailsAreUnique, OneDetailCounts, db'["details"] = db["details"]
  PROVE  DetailsStay /\ DetailsAreUnique' /\ OneDetailCounts'
  BY DEF DetailsStay, DetailsAreUnique, OneDetailCounts, IsDetail, DetailsOf

(* An upload writes a first detail. *)
LEMMA UploadWrites ==
  ASSUME TypeOK, Uploaded
  PROVE  \E d \in db["details"], e \in DetailRows :
            FirstWritten(d, e) /\ e.bonus = d.bonus /\ e.used = d.used + 1
  <1>1. PICK d \in db["details"] :
          /\ IsDetail(d, d.user)
          /\ db'["details"] = (db["details"] \ {d}) \cup {[d EXCEPT !.used = @ + 1]}
    BY DEF Uploaded
  <1> DEFINE e == [d EXCEPT !.used = @ + 1]
  <1>2. /\ e \in DetailRows /\ e.id = d.id /\ e.user = d.user /\ e.by = d.by
        /\ e.bonus = d.bonus /\ e.used = d.used + 1
    BY Values DEF DetailRows
  <1> HIDE DEF e
  <1> QED BY <1>1, <1>2 DEF FirstWritten, e

(* Every detail keeps its id, its user and who referred it, and every first one
   stays the first.  *)
LEMMA DetailsKeep ==
  ASSUME TypeInv, StepInv, IdsInv, TxInv, DetailIds, SignUpInv, ReadInv, OneDetailCounts,
         Next
  PROVE  DetailsStay /\ DetailsAreUnique' /\ OneDetailCounts'
  <1>0. DetailsAreUnique /\ TypeOK
    BY DEF DetailIds, DetailsAreUnique, TypeInv
  <1>1. CASE \E r \in Requests : Comes(r)
    BY <1>0, <1>1, AfterNothing DEF Comes
  <1>2. CASE \E r \in Requests : GoesOn(r)
    BY <1>0, <1>2, DetailsChange, AfterNothing, AfterAdding, AfterWriting
  <1>3. CASE Uploaded
    BY <1>0, <1>3, UploadWrites, AfterWriting
  <1>4. CASE Crashed
    BY <1>0, <1>4, AfterNothing DEF Crashed
  <1> QED BY <1>1, <1>2, <1>3, <1>4, Effects

-----------------------------------------------------------------------------
(* DetailIds is kept.                                                      *)

(* Without new ids, ids stay unique. *)
LEMMA IdsStay ==
  ASSUME DetailIds, DetailsAreUnique',
         \A q \in Requests : tx'[q]["details"] \subseteq tx[q]["details"],
         \A e \in db'["details"] : \E d \in db["details"] : e.id = d.id
  PROVE  DetailIds'
  BY DEF DetailIds, DetailsAreUnique

(* Ids of details stay unique, with those that are not committed yet. *)
LEMMA DetailIdsStay ==
  ASSUME TypeInv, StepInv, IdsInv, TxInv, DetailIds, SignUpInv, ReadInv, OneDetailCounts,
         Next
  PROVE  DetailIds'
  <1>0. /\ DetailsAreUnique' /\ TypeOK /\ NoRows["details"] = {} /\ nextDetail \in Nat
        /\ \A d \in db["details"] : d.id \in Nat /\ d.id < nextDetail
        /\ \A q \in Requests : \A d \in tx[q]["details"] : d.id \in Nat /\ d.id < nextDetail
    BY DetailsKeep, Names, Values DEF TypeInv, IdsInv, TxInv, TxFits, DetailRows
  <1>1. CASE \E r \in Requests : Comes(r)
    BY <1>0, <1>1, IdsStay DEF Comes
  <1>2. CASE Crashed
    BY <1>0, <1>2, IdsStay DEF Crashed
  <1>3. CASE Uploaded
    <2>1. \A e \in db'["details"] : \E d \in db["details"] : e.id = d.id
      BY <1>0, <1>3, UploadWrites DEF FirstWritten
    <2> QED BY <1>0, <1>3, <2>1, IdsStay DEF Uploaded
  <1>4. ASSUME NEW r \in Requests, GoesOn(r)
        PROVE  DetailIds'
    <2>0. \A q \in Requests \ {r} : tx'[q] = tx[q]
      BY <1>4 DEF GoesOn, Alone
    <2>1. ASSUME NEW row, row.id = nextDetail,
                 \/ /\ db'["details"] = db["details"] /\ tx'[r]["details"] = tx[r]["details"] \cup {row}
                 \/ db'["details"] = db["details"] \cup {row} /\ tx' = tx
          PROVE  DetailIds'
      <3>1. CASE db'["details"] = db["details"] /\ tx'[r]["details"] = tx[r]["details"] \cup {row}
        <4>1. ASSUME NEW q \in Requests, NEW d \in tx'[q]["details"]
              PROVE  (d \in tx[q]["details"] /\ d.id < nextDetail /\ d.id \in Nat) \/ (q = r /\ d = row)
          BY <1>0, <2>0, <3>1
        <4> QED BY <1>0, <2>1, <3>1, <4>1 DEF DetailIds
      <3>2. CASE db'["details"] = db["details"] \cup {row} /\ tx' = tx
        BY <1>0, <2>1, <3>2 DEF DetailIds
      <3> QED BY <2>1, <3>1, <3>2
    <2>2. CASE InsertedFirstDetail(r)
      <3> DEFINE row == Detail(nextDetail, req[r].user, 0)
      <3>1. row.id = nextDetail
        BY <1>0, Values, NewDetail
      <3>2. \/ /\ db'["details"] = db["details"] /\ tx'[r]["details"] = tx[r]["details"] \cup {row}
            \/ db'["details"] = db["details"] \cup {row} /\ tx' = tx
        BY <2>2, Names DEF InsertedFirstDetail, CreatesIn, DbAdds, TxAdds
      <3> HIDE DEF row
      <3> QED BY <2>1, <3>1, <3>2
    <2>3. CASE InsertedDetail(r)
      <3> DEFINE row == Detail(nextDetail, req[r].user, req[r].referrer)
      <3>1. row.id = nextDetail
        BY <1>0, Values, NewDetail
      <3>2. \/ /\ db'["details"] = db["details"] /\ tx'[r]["details"] = tx[r]["details"] \cup {row}
            \/ db'["details"] = db["details"] \cup {row} /\ tx' = tx
        BY <2>3, Names DEF InsertedDetail, DbAdds, TxAdds
      <3> HIDE DEF row
      <3> QED BY <2>1, <3>1, <3>2
    <2>4. CASE SentMail(r) \/ HasCommitted(r)
      <3>1. db'["details"] = db["details"] \cup tx[r]["details"] /\ tx'[r]["details"] = {}
        BY <1>0, <2>4, Names DEF SentMail, HasCommitted, Commits
      <3>2. ASSUME NEW q \in Requests, NEW d \in tx'[q]["details"]
            PROVE  q # r /\ d \in tx[q]["details"]
        BY <2>0, <3>1
      <3> QED BY <1>0, <3>1, <3>2 DEF DetailIds, DetailsAreUnique
    <2>5. CASE ~(\/ InsertedFirstDetail(r) \/ InsertedDetail(r) \/ SentMail(r) \/ HasCommitted(r))
      <3>1. tx'[r]["details"] \subseteq tx[r]["details"]
        BY <1>0, <1>4, <2>5, Names DEF GoesOn, InsertedUser, InsertedEmail, InsertedWallet,
           InsertedGithub, CheckedCode, CreatedReferral, HasReadDetail, CountedReferrals,
           SavedDetail, MarkedReferred, SavedSecret, RenewedNonce, Stops, CreatesIn, TxAdds
      <3>2. \A e \in db'["details"] : \E d \in db["details"] : e.id = d.id
        <4>1. CASE SavedDetail(r)
          <5>1. db'["details"] = {IF d.id = req[r].read.id THEN req[r].read ELSE d :
                                  d \in db["details"]}
            BY <4>1 DEF SavedDetail
          <5> QED BY <5>1
        <4>2. CASE ~SavedDetail(r)
          <5>1. db'["details"] = db["details"]
            BY <1>4, <2>5, <4>2, Names DEF GoesOn, InsertedUser, InsertedEmail, InsertedWallet,
               InsertedGithub, CheckedCode, CreatedReferral, HasReadDetail, CountedReferrals,
               MarkedReferred, SavedSecret, RenewedNonce, Stops, CreatesIn, DbAdds
          <5> QED BY <5>1
        <4> QED BY <4>1, <4>2
      <3>3. \A q \in Requests : tx'[q]["details"] \subseteq tx[q]["details"]
        BY <2>0, <3>1
      <3> QED BY <1>0, <3>2, <3>3, IdsStay
    <2> QED BY <2>2, <2>3, <2>4, <2>5
  <1> QED BY <1>1, <1>2, <1>3, <1>4, Effects

-----------------------------------------------------------------------------
(* Rows stay, but for a new secret, nonce or detail of the same user.      *)

RowsStay ==
    /\ db["users"] \subseteq db'["users"]
    /\ db["referred_users"] \subseteq db'["referred_users"]
    /\ db["githubs"] \subseteq db'["githubs"]
    /\ db["referrals"] \subseteq db'["referrals"]
    /\ \A w \in db["wallets"] : \E v \in db'["wallets"] : v.address = w.address /\ v.user = w.user
    /\ \A m \in db["emails"] : \E n \in db'["emails"] : n.email = m.email /\ n.user = m.user

(* Nothing is lost if it is not lost from another table than that of details. *)
LEMMA TablesStay ==
  ASSUME \A t \in Tables \ {"details"} : db[t] \subseteq db'[t]
  PROVE  RowsStay
  BY Names DEF RowsStay

(* Rows that are added take none away. *)
LEMMA AddingStays ==
  ASSUME NEW t \in Tables, NEW S, DbAdds(t, S) \/ UNCHANGED db
  PROVE  RowsStay
  BY TablesStay DEF DbAdds

(* No user, wallet, referral or mark is ever lost. *)
LEMMA RowsKeep ==
  ASSUME TypeInv, Next
  PROVE  RowsStay
  <1>0. TypeOK
    BY DEF TypeInv
  <1>1. CASE \E r \in Requests : Comes(r)
    BY <1>1, TablesStay DEF Comes
  <1>2. CASE Crashed
    BY <1>2, TablesStay DEF Crashed
  <1>3. CASE Uploaded
    BY <1>3, TablesStay DEF Uploaded
  <1>4. ASSUME NEW r \in Requests, GoesOn(r)
        PROVE  RowsStay
    <2>1. CASE SavedSecret(r)
      <3>1. \A m \in db["emails"] : \E n \in db'["emails"] : n.email = m.email /\ n.user = m.user
        BY <1>0, <2>1, SecretsRewritten
      <3> QED BY <2>1, <3>1, Names DEF SavedSecret, RowsStay
    <2>2. CASE RenewedNonce(r)
      <3>1. \A w \in db["wallets"] : \E v \in db'["wallets"] : v.address = w.address /\ v.user = w.user
        BY <1>0, <2>2, NoncesRewritten
      <3> QED BY <2>2, <3>1, Names DEF RenewedNonce, RowsStay
    <2>3. CASE SentMail(r) \/ HasCommitted(r)
      BY <2>3, TablesStay DEF SentMail, HasCommitted, Commits
    <2>4. CASE SavedDetail(r)
      BY <2>4, TablesStay DEF SavedDetail
    <2>5. CASE CheckedCode(r) \/ HasReadDetail(r) \/ CountedReferrals(r) \/ Stops(r)
      BY <2>5, TablesStay DEF CheckedCode, HasReadDetail, CountedReferrals, Stops
    <2>6. CASE \/ InsertedUser(r) \/ InsertedEmail(r) \/ InsertedWallet(r) \/ InsertedGithub(r)
               \/ InsertedFirstDetail(r) \/ InsertedDetail(r) \/ CreatedReferral(r)
               \/ MarkedReferred(r)
      <3>1. \E t \in Tables : \E S : DbAdds(t, S) \/ UNCHANGED db
        BY <2>6, Names DEF InsertedUser, InsertedEmail, InsertedWallet, InsertedGithub,
           InsertedFirstDetail, InsertedDetail, CreatedReferral, MarkedReferred, CreatesIn
      <3> QED BY <3>1, AddingStays
    <2> QED BY <1>4, <2>1, <2>2, <2>3, <2>4, <2>5, <2>6 DEF GoesOn
  <1> QED BY <1>1, <1>2, <1>3, <1>4, Effects

(* Who has a wallet keeps one. *)
LEMMA WalletsKeep ==
  ASSUME RowsStay
  PROVE  \A u : HasWallet(u) => HasWallet(u)'
  BY DEF RowsStay, HasWallet

(* Who has a detail keeps one. *)
LEMMA DetailsKept ==
  ASSUME DetailsStay
  PROVE  \A u : DetailsOf(u) # {} => DetailsOf(u)' # {}
  BY DEF DetailsStay, DetailsOf

-----------------------------------------------------------------------------
(* SignUpInv is kept, and answered sign-ups are whole.                     *)

(* A user without detail, or without referral, stays without. *)
StaysNew(u) ==
    /\ (\A d \in db["details"] : d.user # u) => \A d \in db'["details"] : d.user # u
    /\ (\A f \in db["referrals"] : f.referred # u) => \A f \in db'["referrals"] : f.referred # u

(* Nobody writes for the user that another request signs up. *)
LEMMA OthersStayNew ==
  ASSUME TypeInv, StepInv, IdsInv, TxInv, DetailIds, SignUpInv, ReadInv, OwnersDiffer,
         NEW r \in Requests, GoesOn(r), NEW q \in Requests \ {r},
         req[q].new, req[q].user # 0
  PROVE  StaysNew(req[q].user)
  <1> DEFINE u == req[q].user
  <1>1. req[r].new => u # req[r].user
    BY DEF OwnersDiffer
  <1>2. (\A d \in db["details"] : d.user # u) => \A d \in db'["details"] : d.user # u
    <2>1. CASE db'["details"] = db["details"]
      BY <2>1
    <2>2. CASE \E N : DetailsAdded(r, N)
      BY <1>1, <2>2 DEF DetailsAdded
    <2>3. CASE \E d \in db["details"] : FirstWritten(d, req[r].read)
      BY <2>3 DEF FirstWritten
    <2> QED BY <2>1, <2>2, <2>3, DetailsChange
  <1>3. (\A f \in db["referrals"] : f.referred # u) => \A f \in db'["referrals"] : f.referred # u
    <2>1. CASE CreatedReferral(r)
      <3>1. req[r].new
        BY <2>1 DEF CreatedReferral, StepInv, StepFits, SignUpSteps
      <3> QED BY <1>1, <2>1, <3>1 DEF CreatedReferral, DbAdds
    <2>2. CASE ~CreatedReferral(r)
      <3>1. db'["referrals"] \subseteq db["referrals"] \cup tx[r]["referrals"]
        BY <2>2, Names DEF GoesOn, InsertedUser, InsertedEmail, InsertedWallet, InsertedGithub,
           InsertedFirstDetail, CheckedCode, InsertedDetail, HasReadDetail, CountedReferrals,
           SavedDetail, MarkedReferred, SavedSecret, SentMail, HasCommitted, RenewedNonce,
           Stops, CreatesIn, DbAdds, Commits
      <3> QED BY <3>1 DEF TypeInv, ReferralsAreFinite
    <2> QED BY <2>1, <2>2
  <1> QED BY <1>2, <1>3 DEF StaysNew

(* A request that does not move. *)
LEMMA SignUpStays ==
  ASSUME NEW q \in Requests, UserFits(q), DetailFits(q), MarkFits(q), ReferralFits(q),
         pc'[q] = pc[q], req'[q] = req[q], tx'[q] = tx[q], RowsStay, DetailsStay,
         req[q].new /\ pc[q] \in Steps \ {"user"} => StaysNew(req[q].user)
  PROVE  UserFits(q)' /\ DetailFits(q)' /\ MarkFits(q)' /\ ReferralFits(q)'
  <1> DEFINE u == req[q].user
  <1>1. u' = u /\ (HasWallet(u) => HasWallet(u)') /\ (DetailsOf(u) # {} => DetailsOf(u)' # {})
    BY WalletsKeep, DetailsKept
  <1>2. UserFits(q)'
    BY <1>1 DEF UserFits, RowsStay, HasWallet
  <1>3. {"mark", "mail", "referral", "commit"} \cup Rewarding \cup BeforeDetail
            \subseteq Steps \ {"user"}
    BY DEF Rewarding, BeforeDetail, Steps
  <1>4. DetailFits(q)'
    BY <1>1, <1>3 DEF DetailFits, StaysNew, DetailsOf
  <1>5. MarkFits(q)'
    BY DEF MarkFits
  <1>6. ReferralFits(q)'
    <2> SUFFICES ASSUME req[q].new
                 PROVE  ReferralFits(q)'
      BY DEF ReferralFits
    <2>1. req[q].referrer # 0 /\ pc[q] \in {"mail"} \cup Rewarding =>
            \E f \in db'["referrals"] : f.referred = u
      BY DEF ReferralFits, RowsStay
    <2>2. pc[q] \in BeforeDetail \cup {"referral"} =>
            \A f \in db'["referrals"] : f.referred # u
      BY <1>3 DEF ReferralFits, StaysNew
    <2>3. pc[q] = "referral" /\ req[q].kind = "otp" =>
            \E d \in db'["details"] : d.id = req[q].detail /\ d.user = u /\ d.by = req[q].referrer
      <3> SUFFICES ASSUME pc[q] = "referral", req[q].kind = "otp"
                   PROVE  \E d \in db'["details"] :
                            d.id = req[q].detail /\ d.user = u /\ d.by = req[q].referrer
        OBVIOUS
      <3>1. PICK d \in db["details"] :
                    d.id = req[q].detail /\ d.user = u /\ d.by = req[q].referrer
        BY DEF ReferralFits
      <3> QED BY <3>1 DEF DetailsStay
    <2>4. pc[q] = "referral" /\ req[q].kind # "otp" =>
            \E d \in tx'[q]["details"] :
                d.id = req[q].detail /\ d.user = u /\ d.by = req[q].referrer
      BY DEF ReferralFits
    <2> QED BY <2>1, <2>2, <2>3, <2>4 DEF ReferralFits
  <1> QED BY <1>2, <1>4, <1>5, <1>6

(* Nothing is asked of a request that is not under way. *)
LEMMA EndedFits ==
  ASSUME NEW q \in Requests, pc'[q] \notin Steps \ {"user"}
  PROVE  UserFits(q)' /\ DetailFits(q)' /\ MarkFits(q)' /\ ReferralFits(q)'
  <1>1. /\ {"mark", "mail", "referral", "commit", "detail"} \subseteq Steps \ {"user"}
        /\ Rewarding \subseteq Steps \ {"user"} /\ BeforeDetail \subseteq Steps \ {"user"}
    BY DEF Rewarding, BeforeDetail, Steps
  <1>2. UserFits(q)' /\ DetailFits(q)'
    BY <1>1 DEF UserFits, DetailFits
  <1>3. MarkFits(q)'
    BY <1>1 DEF MarkFits
  <1>4. ReferralFits(q)'
    BY <1>1 DEF ReferralFits
  <1> QED BY <1>2, <1>3, <1>4

(* The request that goes on has inserted its user and wallet. *)
LEMMA UserStaysFit ==
  ASSUME TypeInv, StepInv, SignUpInv, RowsStay, NEW r \in Requests, GoesOn(r),
         pc'[r] \in Steps \ {"user"}, req[r].new
  PROVE  UserFits(r)'
  <1>0. /\ TypeOK /\ StepFits(r) /\ UserFits(r) /\ Same(r)
    BY DEF TypeInv, StepInv, SignUpInv, GoesOn
  <1>1. \A u : HasWallet(u) => HasWallet(u)'
    BY WalletsKeep
  <1>2. ASSUME pc[r] \in Steps \ {"user"}, req'[r].user = req[r].user,
               tx[r]["users"] \subseteq tx'[r]["users"],
               tx[r]["wallets"] \subseteq tx'[r]["wallets"],
               pc[r] \in {"email", "wallet"} => pc'[r] = "wallet"
        PROVE  UserFits(r)'
    <2>1. /\ req'[r].kind = req[r].kind /\ req'[r].new = req[r].new
          /\ db["users"] \subseteq db'["users"]
      BY <1>0 DEF Same, RowsStay
    <2>2. req[r].kind = "github" =>
            /\ req[r].user \in tx'[r]["users"]
            /\ pc'[r] # "wallet" => \E w \in tx'[r]["wallets"] : w.user = req[r].user
      BY <1>0, <1>2 DEF UserFits
    <2>3. req[r].kind # "github" =>
            /\ req[r].user \in db'["users"]
            /\ pc'[r] \notin {"email", "wallet"} => HasWallet(req[r].user)'
      BY <1>0, <1>1, <1>2, <2>1 DEF UserFits
    <2> QED BY <1>2, <2>1, <2>2, <2>3 DEF UserFits, HasWallet
  <1>3. CASE InsertedUser(r)
    <2>1. /\ req[r].kind = "github" => nextUser \in tx'[r]["users"] /\ pc'[r] = "wallet"
          /\ req[r].kind # "github" => nextUser \in db'["users"] /\ pc'[r] \in {"email", "wallet"}
      BY <1>3, Names DEF InsertedUser, CreatesIn, DbAdds, TxAdds
    <2> QED BY <1>0, <1>3, <2>1 DEF InsertedUser, UserFits, Same
  <1>4. CASE InsertedEmail(r)
    BY <1>2, <1>4 DEF InsertedEmail, Steps
  <1>5. CASE InsertedWallet(r)
    <2> DEFINE row == [address |-> req[r].address, nonce |-> r, user |-> req[r].user]
    <2>1. pc[r] \in Steps \ {"user"} /\ req' = req
      BY <1>5 DEF InsertedWallet, Steps
    <2>2. CASE req[r].kind = "github"
      <3>1. row \in tx'[r]["wallets"] /\ tx'[r]["users"] = tx[r]["users"]
        BY <1>5, <2>2, Names DEF InsertedWallet, CreatesIn, TxAdds
      <3>2. row.user = req[r].user
        OBVIOUS
      <3> HIDE DEF row
      <3> QED BY <1>0, <2>1, <2>2, <3>1, <3>2 DEF UserFits
    <2>3. CASE req[r].kind # "github"
      <3>1. row \in db'["wallets"] /\ db'["users"] = db["users"]
        BY <1>5, <2>3, Names DEF InsertedWallet, CreatesIn, DbAdds
      <3>2. row.user = req[r].user
        OBVIOUS
      <3> HIDE DEF row
      <3>3. HasWallet(req[r].user)'
        BY <2>1, <3>1, <3>2 DEF HasWallet
      <3> QED BY <1>0, <2>1, <2>3, <3>1, <3>3 DEF UserFits
    <2> QED BY <2>2, <2>3
  <1>6. CASE InsertedGithub(r) \/ InsertedFirstDetail(r)
    <2>1. /\ pc[r] \in Steps \ {"user", "email", "wallet"} /\ req' = req
          /\ tx'[r]["users"] = tx[r]["users"] /\ tx'[r]["wallets"] = tx[r]["wallets"]
      BY <1>6, Names DEF InsertedGithub, InsertedFirstDetail, CreatesIn, TxAdds, Steps
    <2> QED BY <1>2, <2>1
  <1>7. CASE CheckedCode(r) \/ InsertedDetail(r)
    <2>1. /\ pc[r] \in Steps \ {"user", "email", "wallet"} /\ req'[r].user = req[r].user
          /\ tx'[r]["users"] = tx[r]["users"] /\ tx'[r]["wallets"] = tx[r]["wallets"]
      BY <1>7, Names DEF CheckedCode, InsertedDetail, TxAdds, Steps
    <2> QED BY <1>2, <2>1
  <1>8. CASE \/ CreatedReferral(r) \/ HasReadDetail(r) \/ CountedReferrals(r) \/ SavedDetail(r)
             \/ SavedSecret(r)
    <2>1. /\ pc[r] \in Steps \ {"user", "email", "wallet"} /\ req'[r].user = req[r].user
          /\ tx' = tx
      BY <1>8 DEF CreatedReferral, HasReadDetail, CountedReferrals, SavedDetail, SavedSecret, Steps
    <2> QED BY <1>2, <2>1
  <1>9. CASE \/ MarkedReferred(r) \/ SentMail(r) \/ HasCommitted(r) \/ RenewedNonce(r) \/ Stops(r)
    BY <1>9 DEF MarkedReferred, SentMail, HasCommitted, RenewedNonce, Stops, Steps, Ended, Answered
  <1> QED BY <1>3, <1>4, <1>5, <1>6, <1>7, <1>8, <1>9 DEF GoesOn

(* And its detail, if it has come so far. *)
LEMMA DetailStaysFit ==
  ASSUME TypeInv, StepInv, IdsInv, SignUpInv, DetailIds, DetailsStay, NEW r \in Requests,
         GoesOn(r), pc'[r] \in Steps \ {"user"}, req[r].new
  PROVE  DetailFits(r)'
  <1> DEFINE u == req[r].user
  <1>0. /\ TypeOK /\ StepFits(r) /\ DetailFits(r) /\ ReferralFits(r) /\ Same(r)
        /\ nextUser \in Nat /\ nextDetail \in Nat
        /\ req[r].user \in Nat /\ req[r].referrer \in Nat
    BY Values DEF TypeInv, StepInv, SignUpInv, GoesOn
  <1>1. ASSUME req'[r].user = u, DetailsOf(u)' = {},
               pc'[r] \notin {"mark", "mail", "commit"} \cup Rewarding
        PROVE  DetailFits(r)'
    BY <1>1 DEF DetailFits, DetailsOf
  <1>2. ASSUME req'[r].user = u, DetailsOf(u)' # {}, req[r].kind \notin {"google", "github"},
               pc'[r] \notin {"commit"} \cup BeforeDetail
        PROVE  DetailFits(r)'
    BY <1>0, <1>2 DEF DetailFits, DetailsOf, Same
  <1>3. CASE InsertedUser(r)
    <2>1. \A d \in db["details"] : d.user # nextUser
      BY <1>0, Values DEF IdsInv, Known, DetailRows
    <2>2. db'["details"] = db["details"]
      BY <1>3, Names DEF InsertedUser, CreatesIn, DbAdds
    <2>3. \A d \in db'["details"] : d.user # nextUser
      BY <2>1, <2>2
    <2>4. pc'[r] \notin {"mark", "mail", "commit"} \cup Rewarding
      BY <1>3 DEF InsertedUser, Rewarding
    <2> QED BY <1>3, <2>3, <2>4 DEF InsertedUser, DetailFits, DetailsOf
  <1>4. CASE InsertedEmail(r) \/ InsertedWallet(r) \/ InsertedGithub(r)
    <2>1. pc[r] \in BeforeDetail /\ pc'[r] \in BeforeDetail /\ req' = req
      BY <1>4 DEF InsertedEmail, InsertedWallet, InsertedGithub, BeforeDetail
    <2>2. db'["details"] = db["details"]
      BY <1>4, Names DEF InsertedEmail, InsertedWallet, InsertedGithub, CreatesIn, DbAdds
    <2>3. DetailsOf(u)' = {}
      BY <1>0, <2>1, <2>2 DEF DetailFits, DetailsOf
    <2> QED BY <1>1, <2>1, <2>3 DEF BeforeDetail, Rewarding
  <1>5. CASE InsertedFirstDetail(r)
    <2>1. pc[r] \in BeforeDetail /\ req' = req /\ DetailsOf(u) = {}
      BY <1>0, <1>5 DEF InsertedFirstDetail, BeforeDetail, DetailFits
    <2>2. CASE req[r].kind = "github"
      <3>1. pc'[r] = "code" /\ db' = db
        BY <1>5, <2>2 DEF InsertedFirstDetail, CreatesIn
      <3> QED BY <1>1, <2>1, <3>1 DEF DetailsOf, Rewarding
    <2>3. CASE req[r].kind # "github"
      <3>1. req[r].kind = "nonce" /\ pc'[r] \notin {"commit"} \cup BeforeDetail
        BY <1>0, <1>5, <2>3 DEF InsertedFirstDetail, StepFits, KindFits, BeforeDetail
      <3> DEFINE row == Detail(nextDetail, u, 0)
      <3>2. row \in db'["details"] /\ row.user = u
        <4>1. row.user = u
          BY <1>0, NewDetail
        <4>2. row \in db'["details"]
          BY <1>5, <2>3 DEF InsertedFirstDetail, CreatesIn, DbAdds
        <4> QED BY <4>1, <4>2
      <3> HIDE DEF row
      <3>3. DetailsOf(u)' # {}
        BY <2>1, <3>2 DEF DetailsOf
      <3> QED BY <1>2, <2>1, <3>1, <3>3
    <2> QED BY <2>2, <2>3
  <1>6. CASE CheckedCode(r)
    <2>1. pc[r] \in BeforeDetail /\ pc'[r] = "detail" /\ req'[r].user = u /\ db' = db
      BY <1>6 DEF CheckedCode, BeforeDetail
    <2>2. DetailsOf(u)' = {}
      BY <1>0, <2>1 DEF DetailFits, DetailsOf
    <2> QED BY <1>1, <2>1, <2>2 DEF Rewarding
  <1>7. CASE InsertedDetail(r)
    <2> DEFINE row == Detail(nextDetail, u, req[r].referrer)
    <2>1. /\ pc[r] \in BeforeDetail /\ req'[r].user = u /\ row.user = u
          /\ pc'[r] \in {"referral", "mail", "commit"} /\ DetailsOf(u) = {}
      BY <1>0, <1>7, NewDetail DEF InsertedDetail, BeforeDetail, DetailFits
    <2>2. CASE req[r].kind = "otp"
      <3>1. row \in db'["details"] /\ pc'[r] \in {"referral", "mail"}
        BY <1>7, <2>2 DEF InsertedDetail, DbAdds
      <3> HIDE DEF row
      <3>2. DetailsOf(u)' # {}
        BY <2>1, <3>1 DEF DetailsOf
      <3> QED BY <1>2, <2>1, <2>2, <3>1, <3>2 DEF BeforeDetail
    <2>3. CASE req[r].kind # "otp"
      <3>1. row \in tx'[r]["details"] /\ db' = db /\ pc'[r] \in {"referral", "commit"}
        BY <1>7, <2>3 DEF InsertedDetail, TxAdds
      <3> HIDE DEF row
      <3> QED BY <2>1, <3>1 DEF DetailFits, DetailsOf, Rewarding
    <2> QED BY <2>2, <2>3
  <1>8. CASE CreatedReferral(r)
    <2>1. req[r].kind = "otp" /\ pc[r] = "referral" /\ pc'[r] = "readDetail" /\ req' = req
      BY <1>8, OnlyCodesRefer DEF CreatedReferral
    <2>2. DetailsOf(u) # {}
      BY <1>0, <2>1 DEF ReferralFits, DetailsOf
    <2>3. DetailsOf(u)' # {}
      BY <2>1, <2>2, DetailsKept
    <2> QED BY <1>2, <2>1, <2>3 DEF BeforeDetail
  <1>9. CASE HasReadDetail(r) \/ CountedReferrals(r) \/ SavedDetail(r)
    <2>1. /\ pc[r] \in Rewarding /\ pc'[r] \in {"count", "saveDetail", "mail"}
          /\ req'[r].user = u
      BY <1>9 DEF HasReadDetail, CountedReferrals, SavedDetail, Rewarding
    <2>2. req[r].kind = "otp" /\ DetailsOf(u) # {}
      BY <1>0, <2>1 DEF StepFits, KindFits, DetailFits
    <2>3. DetailsOf(u)' # {}
      BY <2>1, <2>2, DetailsKept
    <2> QED BY <1>2, <2>1, <2>2, <2>3 DEF BeforeDetail
  <1>10. CASE SavedSecret(r)
    BY <1>0, <1>10 DEF SavedSecret, StepFits
  <1>11. CASE \/ MarkedReferred(r) \/ SentMail(r) \/ HasCommitted(r) \/ RenewedNonce(r) \/ Stops(r)
    BY <1>11 DEF MarkedReferred, SentMail, HasCommitted, RenewedNonce, Stops, Steps, Ended, Answered
  <1> QED BY <1>3, <1>4, <1>5, <1>6, <1>7, <1>8, <1>9, <1>10, <1>11 DEF GoesOn

(* The mark of the agency is in its transaction. *)
LEMMA MarkStaysFit ==
  ASSUME TypeInv, StepInv, SignUpInv, NEW r \in Requests, GoesOn(r), req[r].new
  PROVE  MarkFits(r)'
  <1>0. StepFits(r) /\ MarkFits(r) /\ Same(r)
    BY DEF StepInv, SignUpInv, GoesOn
  <1> DEFINE marked == {"detail", "commit", "mail", "referral"} \cup Rewarding
  <1>1. ASSUME pc[r] \in marked, req'[r].user = req[r].user,
               tx[r]["referred_users"] \subseteq tx'[r]["referred_users"]
        PROVE  MarkFits(r)'
    BY <1>0, <1>1 DEF MarkFits, Same
  <1>2. ASSUME pc'[r] \notin marked
        PROVE  MarkFits(r)'
    BY <1>2 DEF MarkFits
  <1>3. CASE CheckedCode(r)
    <2>1. req[r].code = "ns" => req[r].user \in tx'[r]["referred_users"]
      BY <1>3, Names DEF CheckedCode, TxAdds
    <2> QED BY <1>0, <1>3, <2>1 DEF CheckedCode, MarkFits, Same
  <1>4. CASE InsertedDetail(r)
    <2>1. pc[r] \in marked /\ req'[r].user = req[r].user
      BY <1>4 DEF InsertedDetail
    <2>2. tx'[r]["referred_users"] = tx[r]["referred_users"]
      BY <1>4, Names DEF InsertedDetail, TxAdds
    <2> QED BY <1>1, <2>1, <2>2
  <1>5. CASE CreatedReferral(r) \/ HasReadDetail(r) \/ CountedReferrals(r) \/ SavedDetail(r)
    <2>1. pc[r] \in marked /\ req'[r].user = req[r].user /\ tx' = tx
      BY <1>5 DEF CreatedReferral, HasReadDetail, CountedReferrals, SavedDetail, Rewarding
    <2> QED BY <1>1, <2>1
  <1>6. CASE InsertedFirstDetail(r)
    <2>1. pc'[r] \notin marked
      BY <1>6 DEF InsertedFirstDetail, Rewarding
    <2> QED BY <1>2, <2>1
  <1>7. CASE InsertedUser(r) \/ InsertedEmail(r) \/ InsertedWallet(r) \/ InsertedGithub(r)
    <2>1. pc'[r] \notin marked
      BY <1>7 DEF InsertedUser, InsertedEmail, InsertedWallet, InsertedGithub, Rewarding
    <2> QED BY <1>2, <2>1
  <1>8. CASE SavedSecret(r)
    BY <1>0, <1>8 DEF SavedSecret, StepFits
  <1>9. CASE \/ MarkedReferred(r) \/ SentMail(r) \/ HasCommitted(r) \/ RenewedNonce(r) \/ Stops(r)
    <2>1. pc'[r] \notin marked
      BY <1>9 DEF MarkedReferred, SentMail, HasCommitted, RenewedNonce, Stops, Ended, Answered,
         Rewarding
    <2> QED BY <1>2, <2>1
  <1> QED BY <1>3, <1>4, <1>5, <1>6, <1>7, <1>8, <1>9 DEF GoesOn

(* The referral names the detail of its user, and is there before the mail. *)
LEMMA ReferralStaysFit ==
  ASSUME TypeInv, StepInv, IdsInv, SignUpInv, DetailIds, RowsStay, NEW r \in Requests,
         GoesOn(r), req[r].new
  PROVE  ReferralFits(r)'
  <1> DEFINE u == req[r].user
  <1>0. /\ StepFits(r) /\ ReferralFits(r) /\ Same(r)
        /\ nextUser \in Nat /\ nextDetail \in Nat
        /\ req[r].user \in Nat /\ req[r].referrer \in Nat
    BY Values DEF TypeInv, StepInv, SignUpInv, GoesOn
  <1>1. ASSUME pc'[r] \notin {"mail", "referral"} \cup Rewarding,
               \A f \in db'["referrals"] : f.referred # req'[r].user
        PROVE  ReferralFits(r)'
    BY <1>1 DEF ReferralFits
  <1>2. ASSUME pc'[r] \notin {"referral"} \cup BeforeDetail,
               req'[r].referrer # 0 => \E f \in db'["referrals"] : f.referred = req'[r].user
        PROVE  ReferralFits(r)'
    BY <1>2 DEF ReferralFits
  <1>3. CASE InsertedUser(r)
    <2>1. \A f \in db["referrals"] : f.referred # nextUser
      BY <1>0, Values DEF IdsInv, Known, TypeInv
    <2>2. db'["referrals"] = db["referrals"] /\ req'[r].user = nextUser
      BY <1>3, Names DEF InsertedUser, CreatesIn, DbAdds
    <2>3. pc'[r] \notin {"mail", "referral"} \cup Rewarding
      BY <1>3 DEF InsertedUser, Rewarding
    <2> QED BY <1>1, <2>1, <2>2, <2>3
  <1>4. ASSUME pc[r] \in BeforeDetail, req'[r].user = u, db'["referrals"] = db["referrals"],
               pc'[r] \notin {"mail", "referral"} \cup Rewarding
        PROVE  ReferralFits(r)'
    BY <1>0, <1>1, <1>4 DEF ReferralFits
  <1>5. CASE \/ InsertedEmail(r) \/ InsertedWallet(r) \/ InsertedGithub(r)
             \/ InsertedFirstDetail(r)
    <2>1. pc[r] \in BeforeDetail /\ req'[r].user = u
      BY <1>5 DEF InsertedEmail, InsertedWallet, InsertedGithub, InsertedFirstDetail, BeforeDetail
    <2>2. db'["referrals"] = db["referrals"]
      BY <1>5, Names DEF InsertedEmail, InsertedWallet, InsertedGithub, InsertedFirstDetail,
         CreatesIn, DbAdds
    <2>3. pc'[r] \notin {"mail", "referral"} \cup Rewarding
      BY <1>5 DEF InsertedEmail, InsertedWallet, InsertedGithub, InsertedFirstDetail, Rewarding
    <2> QED BY <1>4, <2>1, <2>2, <2>3
  <1>6. CASE CheckedCode(r)
    BY <1>4, <1>6 DEF CheckedCode, BeforeDetail, Rewarding
  <1>7. CASE InsertedDetail(r)
    <2> DEFINE row == Detail(nextDetail, u, req[r].referrer)
    <2>1. /\ pc[r] \in BeforeDetail /\ req'[r].user = u /\ req'[r].detail = nextDetail
          /\ req'[r].referrer = req[r].referrer /\ req'[r].kind = req[r].kind
          /\ req'[r].new = req[r].new
      BY <1>0, <1>7 DEF InsertedDetail, BeforeDetail, Same
    <2>2. db'["referrals"] = db["referrals"]
      BY <1>7, Names DEF InsertedDetail, DbAdds
    <2>3. \A f \in db'["referrals"] : f.referred # u
      BY <1>0, <2>1, <2>2 DEF ReferralFits
    <2>4. row.id = nextDetail /\ row.user = u /\ row.by = req[r].referrer
      BY DEF Detail
    <2>5. /\ req[r].kind = "otp" => row \in db'["details"]
          /\ req[r].kind # "otp" => row \in tx'[r]["details"]
      BY <1>7 DEF InsertedDetail, DbAdds, TxAdds
    <2>6. pc'[r] \in {"referral", "mail", "commit"} /\ (pc'[r] = "mail" => req[r].referrer = 0)
      BY <1>7 DEF InsertedDetail
    <2> HIDE DEF row
    <2> QED BY <2>1, <2>3, <2>4, <2>5, <2>6 DEF ReferralFits, BeforeDetail, Rewarding
  <1>8. CASE CreatedReferral(r)
    <2> DEFINE f == [referrer |-> req[r].referrer, referred |-> u, detail |-> req[r].detail]
    <2>1. f \in db'["referrals"] /\ f.referred = u
      BY <1>8 DEF CreatedReferral, DbAdds
    <2> HIDE DEF f
    <2>2. req' = req /\ pc'[r] = "readDetail"
      BY <1>8 DEF CreatedReferral
    <2> QED BY <1>2, <2>1, <2>2 DEF BeforeDetail
  <1>9. CASE HasReadDetail(r) \/ CountedReferrals(r) \/ SavedDetail(r)
    <2>1. /\ pc[r] \in Rewarding /\ pc'[r] \notin {"referral"} \cup BeforeDetail
          /\ req'[r].user = u /\ req'[r].referrer = req[r].referrer
      BY <1>9 DEF HasReadDetail, CountedReferrals, SavedDetail, Rewarding, BeforeDetail
    <2>2. req[r].referrer # 0 => \E f \in db["referrals"] : f.referred = u
      BY <1>0, <2>1 DEF ReferralFits
    <2> QED BY <1>2, <2>1, <2>2 DEF RowsStay
  <1>10. CASE SavedSecret(r)
    BY <1>0, <1>10 DEF SavedSecret, StepFits
  <1>11. CASE \/ MarkedReferred(r) \/ SentMail(r) \/ HasCommitted(r) \/ RenewedNonce(r) \/ Stops(r)
    <2>1. pc'[r] \notin Steps
      BY <1>11 DEF MarkedReferred, SentMail, HasCommitted, RenewedNonce, Stops, Steps, Ended,
         Answered
    <2> QED BY <2>1, EndedFits
  <1> QED BY <1>3, <1>5, <1>6, <1>7, <1>8, <1>9, <1>10, <1>11 DEF GoesOn

(* Nobody becomes a user that is new to a query without inserting it. *)
LEMMA SignUpInvStays ==
  ASSUME TypeInv, StepInv, IdsInv, TxInv, DetailIds, SignUpInv, ReadInv, OwnersDiffer,
         OneDetailCounts, Next
  PROVE  SignUpInv'
  <1>0. /\ RowsStay /\ DetailsStay
        /\ \A q \in Requests : UserFits(q) /\ DetailFits(q) /\ MarkFits(q) /\ ReferralFits(q)
    BY RowsKeep, DetailsKeep DEF SignUpInv
  <1>1. ASSUME NEW r \in Requests, Comes(r),
               ComesToSignUp(r) \/ ComesToSignIn(r) \/ ComesToRead(r)
        PROVE  SignUpInv'
    <2>1. ASSUME NEW q \in Requests \ {r}
          PROVE  UserFits(q)' /\ DetailFits(q)' /\ MarkFits(q)' /\ ReferralFits(q)'
      <3>1. pc'[q] = pc[q] /\ req'[q] = req[q] /\ tx'[q] = tx[q] /\ db' = db
        BY <1>1 DEF Comes
      <3>2. StaysNew(req[q].user)
        BY <3>1 DEF StaysNew
      <3> QED BY <1>0, <3>1, <3>2, SignUpStays
    <2>2. UserFits(r)' /\ DetailFits(r)' /\ MarkFits(r)' /\ ReferralFits(r)'
      <3>1. CASE pc'[r] \notin Steps \ {"user"}
        BY <3>1, EndedFits
      <3>2. CASE pc'[r] \in Steps \ {"user"}
        <4>1. ~req'[r].new
          BY <1>1, <3>2 DEF ComesToSignUp, ComesToSignIn, ComesToRead, Steps
        <4> QED BY <4>1 DEF UserFits, DetailFits, MarkFits, ReferralFits
      <3> QED BY <3>1, <3>2
    <2> QED BY <2>1, <2>2 DEF SignUpInv
  <1>2. ASSUME NEW r \in Requests, GoesOn(r)
        PROVE  SignUpInv'
    <2>1. ASSUME NEW q \in Requests \ {r}
          PROVE  UserFits(q)' /\ DetailFits(q)' /\ MarkFits(q)' /\ ReferralFits(q)'
      <3>1. pc'[q] = pc[q] /\ req'[q] = req[q] /\ tx'[q] = tx[q]
        BY <1>2 DEF GoesOn, Alone
      <3>2. req[q].new /\ pc[q] \in Steps \ {"user"} => StaysNew(req[q].user)
        BY <1>2, OthersStayNew DEF IdsInv
      <3> QED BY <1>0, <3>1, <3>2, SignUpStays
    <2>2. UserFits(r)' /\ DetailFits(r)' /\ MarkFits(r)' /\ ReferralFits(r)'
      <3>1. CASE pc'[r] \notin Steps \ {"user"}
        BY <3>1, EndedFits
      <3>2. CASE pc'[r] \in Steps \ {"user"} /\ req[r].new
        BY <1>0, <1>2, <3>2, UserStaysFit, DetailStaysFit, MarkStaysFit, ReferralStaysFit
      <3>3. CASE ~req[r].new
        <4>1. ~req'[r].new
          BY <1>2, <3>3 DEF GoesOn, Same
        <4> QED BY <4>1 DEF UserFits, DetailFits, MarkFits, ReferralFits
      <3> QED BY <3>1, <3>2, <3>3
    <2> QED BY <2>1, <2>2 DEF SignUpInv
  <1>3. CASE Uploaded
    <2>1. ASSUME NEW q \in Requests
          PROVE  UserFits(q)' /\ DetailFits(q)' /\ MarkFits(q)' /\ ReferralFits(q)'
      <3>1. /\ pc'[q] = pc[q] /\ req'[q] = req[q] /\ tx'[q] = tx[q]
            /\ db'["referrals"] = db["referrals"]
        BY <1>3, Names DEF Uploaded
      <3>2. \A e \in db'["details"] : \E d \in db["details"] : e.user = d.user
        BY <1>3, UploadWrites DEF FirstWritten, TypeInv
      <3>3. StaysNew(req[q].user)
        BY <3>1, <3>2 DEF StaysNew
      <3> QED BY <1>0, <3>1, <3>3, SignUpStays
    <2> QED BY <2>1 DEF SignUpInv
  <1>4. CASE Crashed
    <2>1. \A q \in Requests : pc'[q] \notin Steps
      BY <1>4 DEF Crashed, Steps
    <2> QED BY <2>1, EndedFits DEF SignUpInv
  <1> QED BY <1>1, <1>2, <1>3, <1>4, Effects

-----------------------------------------------------------------------------
(* Answers                                                                 *)

(* A whole sign-up stays whole. *)
LEMMA SignedUpStays ==
  ASSUME NEW q \in Requests, SignedUp(q), req'[q] = req[q], RowsStay, DetailsStay
  PROVE  SignedUp(q)'
  <1> DEFINE u == req[q].user
  <1>1. (HasWallet(u) => HasWallet(u)') /\ (DetailsOf(u) # {} => DetailsOf(u)' # {})
    BY WalletsKeep, DetailsKept
  <1>2. u \in db'["users"] /\ HasWallet(u)' /\ DetailsOf(u)' # {}
    BY <1>1 DEF SignedUp, RowsStay
  <1>3. req'[q].code = "ns" => u \in db'["referred_users"]
    BY DEF SignedUp, RowsStay
  <1>4. req'[q].referrer # 0 => \E f \in db'["referrals"] : f.referred = u
    BY DEF SignedUp, RowsStay
  <1> QED BY <1>2, <1>3, <1>4 DEF SignedUp

(* What a commit leaves. *)
LEMMA CommittedIsWhole ==
  ASSUME NEW r \in Requests, StepFits(r), TxFits(r), UserFits(r), DetailFits(r), MarkFits(r),
         ReferralFits(r), req[r].new, Commits(r), req' = req, pc[r] \in {"mail", "commit"}
  PROVE  SignedUp(r)'
  <1> DEFINE u == req[r].user
  <1>1. \A t \in Tables : db'[t] = db[t] \cup tx[r][t]
    BY DEF Commits
  <1>2. pc[r] \in Steps \ {"user", "email", "wallet"}
    BY DEF Steps
  <1>3. u \in db'["users"]
    BY <1>1, <1>2, Names DEF UserFits
  <1>4. \E w \in db'["wallets"] : w.user = u
    BY <1>1, <1>2, Names DEF UserFits, HasWallet
  <1>5. DetailsOf(u)' # {}
    <2>1. CASE pc[r] = "mail"
      BY <1>1, <2>1, Names DEF DetailFits, DetailsOf
    <2>2. CASE pc[r] = "commit"
      <3>1. \E d \in tx[r]["details"] : d.user = u
        BY <2>2 DEF DetailFits, TxFits
      <3> QED BY <1>1, <3>1, Names DEF DetailsOf
    <2> QED BY <2>1, <2>2
  <1>6. req[r].code = "ns" => u \in db'["referred_users"]
    <2>1. req[r].kind # "nonce"
      BY DEF StepFits, KindFits
    <2> QED BY <1>1, <2>1, Names DEF MarkFits
  <1>7. req[r].referrer # 0 => \E f \in db'["referrals"] : f.referred = u
    BY <1>1, Names DEF ReferralFits, StepFits
  <1> QED BY <1>3, <1>4, <1>5, <1>6, <1>7 DEF SignedUp, HasWallet

(* Every step leaves answered sign-ups whole. *)
LEMMA AnswersAreWhole ==
  ASSUME TypeInv, StepInv, IdsInv, TxInv, DetailIds, SignUpInv, ReadInv, OneDetailCounts,
         AnsweredSignUpsAreWhole, Next
  PROVE  AnsweredSignUpsAreWhole'
  <1>0. RowsStay /\ DetailsStay
    BY RowsKeep, DetailsKeep
  <1>1. ASSUME NEW q \in Requests, pc'[q] = "ok", req'[q].new, pc[q] = "ok", req'[q] = req[q]
        PROVE  SignedUp(q)'
    BY <1>0, <1>1, SignedUpStays DEF AnsweredSignUpsAreWhole
  <1>2. ASSUME NEW r \in Requests, Comes(r),
               ComesToSignUp(r) \/ ComesToSignIn(r) \/ ComesToRead(r)
        PROVE  AnsweredSignUpsAreWhole'
    <2>1. ~(pc'[r] = "ok" /\ req'[r].new)
      BY <1>2 DEF ComesToSignUp, ComesToSignIn, ComesToRead
    <2> QED BY <1>1, <1>2, <2>1 DEF AnsweredSignUpsAreWhole, Comes
  <1>3. ASSUME NEW r \in Requests, GoesOn(r)
        PROVE  AnsweredSignUpsAreWhole'
    <2>1. ASSUME pc'[r] = "ok", req'[r].new
          PROVE  SignedUp(r)'
      <3> DEFINE u == req[r].user
      <3>0. /\ StepFits(r) /\ UserFits(r) /\ DetailFits(r) /\ MarkFits(r) /\ ReferralFits(r)
            /\ TxFits(r) /\ req[r].new /\ RowsStay /\ DetailsStay
            /\ nextDetail \in Nat /\ req[r].user \in Nat
        BY <1>0, <1>3, <2>1, Values DEF StepInv, SignUpInv, TxInv, GoesOn, Same, TypeInv
      <3>1. CASE SentMail(r) \/ HasCommitted(r)
        BY <3>0, <3>1, CommittedIsWhole DEF SentMail, HasCommitted
      <3>2. CASE InsertedFirstDetail(r)
        <4> DEFINE row == Detail(nextDetail, u, 0)
        <4>1. /\ pc[r] = "firstDetail" /\ req[r].kind # "github" /\ req[r].code # "ns"
              /\ req' = req
          BY <2>1, <3>2 DEF InsertedFirstDetail
        <4>2. row.user = u
          BY <3>0, NewDetail
        <4>3. row \in db'["details"]
          BY <3>2, <4>1 DEF InsertedFirstDetail, CreatesIn, DbAdds
        <4> HIDE DEF row
        <4>4. u \in db["users"] /\ HasWallet(u)
          BY <3>0, <4>1 DEF UserFits, Steps
        <4>5. u \in db'["users"] /\ HasWallet(u)' /\ DetailsOf(u)' # {}
          BY <3>0, <4>1, <4>2, <4>3, <4>4, WalletsKeep DEF RowsStay, DetailsOf
        <4>6. req[r].referrer = 0
          BY <3>0, <4>1 DEF StepFits
        <4> QED BY <4>1, <4>5, <4>6 DEF SignedUp
      <3>3. CASE MarkedReferred(r)
        <4>1. pc[r] = "mark" /\ req' = req /\ req[r].kind = "nonce" /\ req[r].referrer = 0
          BY <3>0, <3>3 DEF MarkedReferred, StepFits, KindFits
        <4>2. u \in db["users"] /\ HasWallet(u) /\ DetailsOf(u) # {}
          BY <3>0, <4>1 DEF UserFits, DetailFits, Steps
        <4>3. u \in db'["users"] /\ HasWallet(u)' /\ DetailsOf(u)' # {}
          BY <3>0, <4>1, <4>2, WalletsKeep, DetailsKept DEF RowsStay
        <4>4. u \in db'["referred_users"]
          BY <3>3 DEF MarkedReferred, DbAdds
        <4> QED BY <4>1, <4>3, <4>4 DEF SignedUp
      <3>4. CASE RenewedNonce(r)
        BY <3>0, <3>4 DEF RenewedNonce, StepFits
      <3>5. CASE \/ InsertedUser(r) \/ InsertedEmail(r) \/ InsertedWallet(r) \/ InsertedGithub(r)
                 \/ CheckedCode(r) \/ InsertedDetail(r) \/ CreatedReferral(r)
                 \/ HasReadDetail(r) \/ CountedReferrals(r) \/ SavedDetail(r) \/ SavedSecret(r)
                 \/ Stops(r)
        BY <2>1, <3>5 DEF InsertedUser, InsertedEmail, InsertedWallet, InsertedGithub,
           CheckedCode, InsertedDetail, CreatedReferral, HasReadDetail, CountedReferrals,
           SavedDetail, SavedSecret, Stops
      <3> QED BY <1>3, <3>1, <3>2, <3>3, <3>4, <3>5 DEF GoesOn
    <2>2. \A q \in Requests \ {r} : pc'[q] = pc[q] /\ req'[q] = req[q]
      BY <1>3 DEF GoesOn, Alone
    <2> QED BY <1>1, <2>1, <2>2 DEF AnsweredSignUpsAreWhole
  <1>4. CASE Uploaded \/ Crashed
    <2>1. \A q \in Requests : req'[q] = req[q] /\ (pc'[q] = "ok" => pc[q] = "ok")
      BY <1>4 DEF Uploaded, Crashed
    <2> QED BY <1>1, <2>1 DEF AnsweredSignUpsAreWhole
  <1> QED BY <1>2, <1>3, <1>4, Effects

-----------------------------------------------------------------------------
(* Referral storage is backed, and referrals match the details.            *)

(* The referrals of a user are finitely many. *)
LEMMA ReferralsAreCounted ==
  ASSUME TypeInv
  PROVE  \A u : IsFiniteSet(ReferralsOf(u)) /\ Cardinality(ReferralsOf(u)) \in Nat
  <1> SUFFICES ASSUME NEW u
               PROVE  IsFiniteSet(ReferralsOf(u)) /\ Cardinality(ReferralsOf(u)) \in Nat
    OBVIOUS
  <1>1. IsFiniteSet(db["referrals"]) /\ ReferralsOf(u) \subseteq db["referrals"]
    BY DEF TypeInv, ReferralsAreFinite, ReferralsOf
  <1> QED BY <1>1, FS_Subset, FS_CardinalityType

(* Referrals are never deleted. *)
LEMMA CountsGrow ==
  ASSUME TypeInv, TypeInv', RowsStay
  PROVE  \A u : /\ Cardinality(ReferralsOf(u)) \in Nat
                /\ Cardinality(ReferralsOf(u))' \in Nat
                /\ Cardinality(ReferralsOf(u)) <= Cardinality(ReferralsOf(u))'
  <1> SUFFICES ASSUME NEW CONSTANT u
               PROVE  /\ Cardinality(ReferralsOf(u)) \in Nat
                      /\ Cardinality(ReferralsOf(u))' \in Nat
                      /\ Cardinality(ReferralsOf(u)) <= Cardinality(ReferralsOf(u))'
    OBVIOUS
  <1>1. ReferralsOf(u) \subseteq ReferralsOf(u)'
    BY DEF RowsStay, ReferralsOf
  <1>2. IsFiniteSet(ReferralsOf(u)')
    BY FS_Subset DEF TypeInv, ReferralsAreFinite, ReferralsOf
  <1> QED BY <1>1, <1>2, FS_Subset, FS_CardinalityType

(* The detail that was read is still the first one after any step. *)
LEMMA ReadInvStays ==
  ASSUME TypeInv, TypeInv', StepInv, IdsInv, TxInv, DetailIds, SignUpInv, ReadInv,
         OneDetailCounts, BonusIsBacked, Next
  PROVE  ReadInv'
  <1>0. RowsStay /\ DetailsStay /\ TypeOK
    BY RowsKeep, DetailsKeep DEF TypeInv
  <1>1. ASSUME NEW q \in Requests, pc'[q] = pc[q], req'[q] = req[q]
        PROVE  ReadFits(q)'
    <2> SUFFICES ASSUME pc[q] \in {"count", "saveDetail"}
                 PROVE  ReadFits(q)'
      BY <1>1 DEF ReadFits
    <2>1. /\ req[q].read.user = req[q].referrer
          /\ req[q].read.bonus <= Cardinality(ReferralsOf(req[q].read.user))
          /\ req[q].read.bonus \in Nat
      BY <1>0, Values DEF ReadInv, ReadFits, DetailRows
    <2>2. PICK d \in db["details"] :
            /\ d.id = req[q].read.id /\ d.user = req[q].read.user /\ d.by = req[q].read.by
            /\ IsDetail(d, d.user)
      BY DEF ReadInv, ReadFits
    <2>3. PICK e \in db'["details"] :
            /\ e.id = d.id /\ e.user = d.user /\ e.by = d.by /\ IsDetail(e, e.user)'
      BY <1>0, <2>2 DEF DetailsStay
    <2>4. PICK v : v = req[q].read.user /\ v = req'[q].read.user
      BY <1>1
    <2>5. /\ Cardinality(ReferralsOf(v)) \in Nat /\ Cardinality(ReferralsOf(v))' \in Nat
          /\ Cardinality(ReferralsOf(v)) <= Cardinality(ReferralsOf(v))'
      BY <1>0, CountsGrow
    <2>6. req'[q].read.bonus <= Cardinality(ReferralsOf(req[q].read.user))'
      <3>1. req[q].read.bonus <= Cardinality(ReferralsOf(v))
        BY <2>1, <2>4
      <3>2. req'[q].read.bonus <= Cardinality(ReferralsOf(v))'
        BY <1>1, <2>1, <2>5, <3>1
      <3> QED BY <2>4, <3>2
    <2> QED BY <1>1, <2>1, <2>2, <2>3, <2>6 DEF ReadFits
  <1>2. ASSUME NEW q \in Requests, pc'[q] \notin {"count", "saveDetail"}
        PROVE  ReadFits(q)'
    BY <1>2 DEF ReadFits
  <1>3. ASSUME NEW r \in Requests, Comes(r),
               ComesToSignUp(r) \/ ComesToSignIn(r) \/ ComesToRead(r)
        PROVE  ReadInv'
    <2>1. pc'[r] \notin {"count", "saveDetail"}
      BY <1>3 DEF ComesToSignUp, ComesToSignIn, ComesToRead
    <2> QED BY <1>1, <1>2, <1>3, <2>1 DEF ReadInv, Comes
  <1>4. ASSUME NEW r \in Requests, GoesOn(r)
        PROVE  ReadInv'
    <2>1. ReadFits(r)'
      <3>1. CASE HasReadDetail(r)
        <4>1. PICK d \in db["details"] : IsDetail(d, req[r].referrer) /\ req'[r].read = d
          BY <3>1 DEF HasReadDetail
        <4>2. db' = db /\ req'[r].referrer = req[r].referrer /\ d.user = req[r].referrer
          BY <3>1, <4>1 DEF HasReadDetail, IsDetail, DetailsOf
        <4>3. d \in db'["details"] /\ IsDetail(d, d.user)'
          BY <4>1, <4>2 DEF IsDetail, DetailsOf
        <4>4. d.bonus <= Cardinality(ReferralsOf(d.user))'
          BY <4>1, <4>2 DEF BonusIsBacked, ReferralsOf
        <4>5. req'[r].read.bonus <= Cardinality(ReferralsOf(req[r].read.user))'
          BY <4>1, <4>4
        <4> QED BY <4>1, <4>2, <4>3, <4>5 DEF ReadFits
      <3>2. CASE CountedReferrals(r) /\ pc'[r] = "saveDetail"
        <4>1. /\ pc[r] = "count" /\ db' = db /\ req'[r].referrer = req[r].referrer
              /\ req'[r].read = [req[r].read EXCEPT !.bonus =
                                  Cardinality(ReferralsOf(req[r].read.user))]
          BY <3>2 DEF CountedReferrals
        <4>2. /\ req[r].read \in DetailRows
              /\ Cardinality(ReferralsOf(req[r].read.user)) \in Nat
          BY <1>0, Values, ReferralsAreCounted
        <4>3. /\ req'[r].read.id = req[r].read.id /\ req'[r].read.user = req[r].read.user
              /\ req'[r].read.by = req[r].read.by
              /\ req'[r].read.bonus = Cardinality(ReferralsOf(req[r].read.user))
          BY <4>1, <4>2 DEF DetailRows
        <4>4. Cardinality(ReferralsOf(req[r].read.user))' = Cardinality(ReferralsOf(req[r].read.user))
          BY <4>1, <4>3 DEF ReferralsOf
        <4>5. \A d \in db["details"] : IsDetail(d, d.user) => IsDetail(d, d.user)'
          BY <4>1 DEF IsDetail, DetailsOf
        <4> QED BY <4>1, <4>2, <4>3, <4>4, <4>5 DEF ReadInv, ReadFits
      <3>3. CASE ~HasReadDetail(r) /\ ~(CountedReferrals(r) /\ pc'[r] = "saveDetail")
        <4>1. pc'[r] \notin {"count", "saveDetail"}
          BY <1>4, <3>3 DEF GoesOn, InsertedUser, InsertedEmail, InsertedWallet, InsertedGithub,
             InsertedFirstDetail, CheckedCode, InsertedDetail, CreatedReferral, CountedReferrals,
             SavedDetail, MarkedReferred, SavedSecret, SentMail, HasCommitted, RenewedNonce,
             Stops, Ended, Answered
        <4> QED BY <1>2, <4>1
      <3> QED BY <3>1, <3>2, <3>3
    <2> QED BY <1>1, <1>4, <2>1 DEF ReadInv, GoesOn, Alone
  <1>5. CASE Uploaded
    BY <1>1, <1>5 DEF Uploaded, ReadInv
  <1>6. CASE Crashed
    <2>1. \A q \in Requests : pc'[q] \notin {"count", "saveDetail"}
      BY <1>6 DEF Crashed, Steps
    <2> QED BY <1>2, <2>1 DEF ReadInv
  <1> QED BY <1>3, <1>4, <1>5, <1>6, Effects

(* What is written back has been counted, and the count has not fallen. *)
LEMMA BonusStaysBacked ==
  ASSUME TypeInv, TypeInv', StepInv, IdsInv, TxInv, DetailIds, SignUpInv, ReadInv,
         BonusIsBacked, Next
  PROVE  BonusIsBacked'
  <1>0. RowsStay /\ TypeOK /\ \A d \in db["details"] : d.bonus \in Nat
    BY RowsKeep, Values DEF TypeInv, DetailRows
  <1>1. ASSUME NEW e \in db'["details"], NEW u, e.user = u, e.bonus \in Nat,
               e.bonus <= Cardinality(ReferralsOf(u))
        PROVE  e.bonus <= Cardinality(ReferralsOf(u))'
    BY <1>0, <1>1, CountsGrow
  <1>2. ASSUME \A e \in db'["details"] :
                e.bonus \in Nat /\ e.bonus <= Cardinality(ReferralsOf(e.user))
        PROVE  BonusIsBacked'
    <2> SUFFICES ASSUME NEW CONSTANT e \in db'["details"]
                 PROVE  e.bonus <= Cardinality(ReferralsOf(e.user))'
      BY DEF BonusIsBacked
    <2> QED BY <1>0, <1>2, CountsGrow
  <1>3. CASE db'["details"] = db["details"]
    BY <1>0, <1>2, <1>3 DEF BonusIsBacked
  <1>4. CASE \E d \in db["details"], e \in DetailRows :
                FirstWritten(d, e) /\ e.bonus <= Cardinality(ReferralsOf(d.user))
    BY <1>0, <1>2, <1>4 DEF BonusIsBacked, FirstWritten, DetailRows
  <1>5. CASE \E r \in Requests : \E N : DetailsAdded(r, N)
    <2>1. \A u : 0 <= Cardinality(ReferralsOf(u))
      BY ReferralsAreCounted
    <2> QED BY <1>0, <1>2, <1>5, <2>1 DEF BonusIsBacked, DetailsAdded
  <1>6. CASE \E r \in Requests : Comes(r)
    BY <1>3, <1>6 DEF Comes
  <1>7. ASSUME NEW r \in Requests, GoesOn(r)
        PROVE  BonusIsBacked'
    <2>1. ASSUME pc[r] = "saveDetail", NEW d \in db["details"], FirstWritten(d, req[r].read)
          PROVE  BonusIsBacked'
      <3>1. req[r].read.bonus <= Cardinality(ReferralsOf(req[r].read.user))
        BY <2>1 DEF ReadInv, ReadFits
      <3>2. req[r].read \in DetailRows /\ req[r].read.user = d.user
        BY <2>1 DEF FirstWritten
      <3> QED BY <1>4, <2>1, <3>1, <3>2
    <2> QED BY <1>3, <1>5, <1>7, <2>1, DetailsChange
  <1>8. CASE Uploaded
    BY <1>0, <1>4, <1>8, UploadWrites DEF BonusIsBacked
  <1>9. CASE Crashed
    BY <1>3, <1>9 DEF Crashed
  <1> QED BY <1>6, <1>7, <1>8, <1>9, Effects

(* Every step keeps referrals and details in agreement. *)
LEMMA ReferralsStayMatched ==
  ASSUME TypeInv, StepInv, IdsInv, TxInv, DetailIds, SignUpInv, ReadInv, OneDetailCounts,
         ReferralsMatchDetails, Next
  PROVE  ReferralsMatchDetails'
  <1>0. DetailsStay
    BY DetailsKeep
  <1> DEFINE Named(f) == \E d \in db'["details"] :
                            d.id = f.detail /\ d.user = f.referred /\ d.by = f.referrer
  <1>1. \A f \in db["referrals"] : Named(f)
    <2> SUFFICES ASSUME NEW f \in db["referrals"]
                 PROVE  Named(f)
      OBVIOUS
    <2>1. PICK d \in db["details"] :
            d.id = f.detail /\ d.user = f.referred /\ d.by = f.referrer
      BY DEF ReferralsMatchDetails
    <2> QED BY <1>0, <2>1 DEF DetailsStay
  <1>2. CASE db'["referrals"] = db["referrals"]
    BY <1>1, <1>2 DEF ReferralsMatchDetails
  <1>3. ASSUME NEW r \in Requests, CreatedReferral(r)
        PROVE  ReferralsMatchDetails'
    <2> DEFINE new == [referrer |-> req[r].referrer, referred |-> req[r].user,
                       detail |-> req[r].detail]
    <2>1. /\ pc[r] = "referral" /\ req[r].kind = "otp"
          /\ db'["referrals"] = db["referrals"] \cup {new}
      BY <1>3, OnlyCodesRefer DEF CreatedReferral, DbAdds
    <2>2. req[r].new
      BY <2>1 DEF StepInv, StepFits, SignUpSteps
    <2>3. /\ new.referrer = req[r].referrer /\ new.referred = req[r].user
          /\ new.detail = req[r].detail
      OBVIOUS
    <2> HIDE DEF new
    <2>4. PICK d \in db["details"] :
            d.id = req[r].detail /\ d.user = req[r].user /\ d.by = req[r].referrer
      BY <2>1, <2>2 DEF SignUpInv, ReferralFits
    <2>5. Named(new)
      BY <1>0, <2>3, <2>4 DEF DetailsStay
    <2>6. \A f \in db["referrals"] : f.referred # new.referred
      BY <2>1, <2>2, <2>3 DEF SignUpInv, ReferralFits
    <2> QED BY <1>1, <2>1, <2>5, <2>6 DEF ReferralsMatchDetails
  <1>4. ASSUME NEW r \in Requests, GoesOn(r), ~CreatedReferral(r)
        PROVE  db'["referrals"] = db["referrals"]
    <2>1. db'["referrals"] = db["referrals"] \/ db'["referrals"] = db["referrals"] \cup tx[r]["referrals"]
      BY <1>4, Names DEF GoesOn, InsertedUser, InsertedEmail, InsertedWallet, InsertedGithub,
         InsertedFirstDetail, CheckedCode, InsertedDetail, HasReadDetail, CountedReferrals,
         SavedDetail, MarkedReferred, SavedSecret, SentMail, HasCommitted, RenewedNonce,
         Stops, CreatesIn, DbAdds, Commits
    <2> QED BY <2>1 DEF TypeInv, ReferralsAreFinite
  <1>5. CASE \E r \in Requests : Comes(r)
    BY <1>2, <1>5 DEF Comes
  <1>6. CASE Uploaded \/ Crashed
    BY <1>2, <1>6, Names DEF Uploaded, Crashed
  <1> QED BY <1>2, <1>3, <1>4, <1>5, <1>6, Effects

-----------------------------------------------------------------------------
(* Secrets, and who has been mailed one.                                   *)

EmailRows ==
    /\ \A m, n \in db["emails"] : m.email = n.email => m.user = n.user
    /\ \A m \in db["emails"] : m.secret # 0 =>
        /\ m.secret \in Requests
        /\ pc[m.secret] \notin {"idle", "user", "email", "secret"}
        /\ m.user = req[m.secret].user

MailFits(r) ==
    /\ r \in mailed => /\ pc[r] \in Ended /\ HasWallet(req[r].user)
                       /\ UsersOfEmail(req[r].email) # {}
    /\ pc[r] = "secret" => req[r].user \in UsersOfEmail(req[r].email)
    /\ req[r].kind = "otp" /\ pc[r] \in Steps \ {"user", "email"} =>
        UsersOfEmail(req[r].email) # {}

EmailsInv == EmailRows /\ \A r \in Requests : MailFits(r)

(* Users that have been found have wallets. *)
WalletFits(r) ==
    ~req[r].new /\ (req[r].wallet \/ (req[r].kind = "github" /\ pc[r] = "commit"))
    => HasWallet(req[r].user)

WalletsInv ==
    /\ \A h \in db["githubs"] : HasWallet(h.user)
    /\ \A r \in Requests : WalletFits(r)

(* nobody else sees a user that is being inserted in a transaction *)
UnseenInv ==
    \A r \in Requests :
        req[r].new /\ req[r].kind = "github" /\ pc[r] \in Steps \ {"user"}
        => req[r].user \notin db["users"]

(* A request that goes on is under way, and does not come back. *)
LEMMA Forward ==
  ASSUME NEW r \in Requests, GoesOn(r)
  PROVE  /\ pc[r] \in Steps /\ pc'[r] \notin {"idle", "user", "secret"}
         /\ pc'[r] = "email" => pc[r] = "user"
         /\ pc'[r] = "commit" => pc[r] = "detail"
         /\ r \in mailed' => r \in mailed \/ (pc[r] = "mail" /\ pc'[r] \in Ended)
         /\ \A q \in Requests \ {r} : q \in mailed' => q \in mailed
         /\ mailed \subseteq mailed'
         /\ pc[r] # "user" => req'[r].wallet = req[r].wallet
         /\ pc'[r] \in Ended => req' = req
  <1> USE DEF Steps, Ended, Answered
  <1>1. CASE \/ InsertedUser(r) \/ InsertedEmail(r) \/ InsertedWallet(r) \/ InsertedGithub(r)
             \/ InsertedFirstDetail(r)
    BY <1>1 DEF InsertedUser, InsertedEmail, InsertedWallet, InsertedGithub, InsertedFirstDetail
  <1>2. CASE CheckedCode(r) \/ InsertedDetail(r) \/ CreatedReferral(r) \/ HasReadDetail(r)
    BY <1>2 DEF CheckedCode, InsertedDetail, CreatedReferral, HasReadDetail
  <1>3. CASE CountedReferrals(r) \/ SavedDetail(r) \/ MarkedReferred(r) \/ SavedSecret(r)
    BY <1>3 DEF CountedReferrals, SavedDetail, MarkedReferred, SavedSecret
  <1>4. CASE SentMail(r)
    BY <1>4 DEF SentMail
  <1>5. CASE HasCommitted(r) \/ RenewedNonce(r)
    BY <1>5 DEF HasCommitted, RenewedNonce
  <1>6. CASE Stops(r)
    BY <1>6 DEF Stops
  <1> QED BY <1>1, <1>2, <1>3, <1>4, <1>5, <1>6 DEF GoesOn

(* An address that has been found is found again. *)
LEMMA EmailsFound ==
  ASSUME RowsStay
  PROVE  \A e : \A u \in UsersOfEmail(e) : u \in UsersOfEmail(e)'
  BY DEF RowsStay, UsersOfEmail

(* The row of an address is that of one user, who has asked for its secret. *)
LEMMA EmailRowsStay ==
  ASSUME TypeInv, StepInv, IdsInv, TxInv, EmailsInv, Next
  PROVE  EmailRows'
  <1>0. TypeOK /\ \A m \in db["emails"] : m.secret \in Nat
    BY Values DEF TypeInv
  <1>1. ASSUME db'["emails"] = db["emails"],
               \A q \in Requests : pc[q] \notin {"idle", "user", "email", "secret"} =>
                    /\ pc'[q] \notin {"idle", "user", "email", "secret"}
                    /\ req'[q].user = req[q].user
        PROVE  EmailRows'
    BY <1>1 DEF EmailsInv, EmailRows
  <1>2. CASE \E r \in Requests : Comes(r)
    BY <1>1, <1>2 DEF Comes
  <1>3. CASE Uploaded
    BY <1>1, <1>3, Names DEF Uploaded
  <1>4. CASE Crashed
    <2>1. \A q \in Requests : pc[q] \notin {"idle", "user", "email", "secret"} =>
            pc'[q] \notin {"idle", "user", "email", "secret"}
      BY <1>4 DEF Crashed
    <2> QED BY <1>1, <1>4, <2>1 DEF Crashed
  <1>5. ASSUME NEW r \in Requests, GoesOn(r)
        PROVE  EmailRows'
    <2>0. \A q \in Requests : pc[q] \notin {"idle", "user", "email", "secret"} =>
            /\ pc'[q] \notin {"idle", "user", "email", "secret"}
            /\ req'[q].user = req[q].user
      BY <1>5, Forward, RequestsStayKnown DEF GoesOn, Alone
    <2>1. CASE InsertedEmail(r)
      <3> DEFINE row == [email |-> req[r].email, user |-> req[r].user,
                         secret |-> IF req[r].kind = "otp" THEN r ELSE 0]
      <3>1. /\ row.email = req[r].email /\ row.user = req[r].user
            /\ row.secret = r \/ row.secret = 0
        OBVIOUS
      <3>2. /\ db'["emails"] = db["emails"] \cup {row} /\ UsersOfEmail(req[r].email) = {}
            /\ pc'[r] = "wallet" /\ req' = req
        BY <2>1 DEF InsertedEmail, DbAdds
      <3> HIDE DEF row
      <3>3. \A m \in db["emails"] : m.email # row.email
        <4>1. \A m \in db["emails"] : m.email = req[r].email => m.user \in UsersOfEmail(req[r].email)
          BY DEF UsersOfEmail
        <4> QED BY <3>1, <3>2, <4>1
      <3>4. row.secret # 0 =>
                /\ row.secret \in Requests
                /\ pc'[row.secret] \notin {"idle", "user", "email", "secret"}
                /\ row.user = req'[row.secret].user
        BY <3>1, <3>2
      <3> QED BY <2>0, <3>2, <3>3, <3>4 DEF EmailsInv, EmailRows
    <2>2. CASE SavedSecret(r)
      <3>1. /\ pc'[r] \notin {"idle", "user", "email", "secret"} /\ req' = req
            /\ pc[r] = "secret"
        BY <2>2 DEF SavedSecret
      <3>2. \A m \in db["emails"] : m.email = req[r].email => m.user = req[r].user
        BY <3>1 DEF EmailsInv, EmailRows, MailFits, UsersOfEmail
      <3>3. \A n \in db'["emails"] : \E m \in db["emails"] :
              /\ n.email = m.email /\ n.user = m.user
              /\ n.secret = IF m.email = req[r].email THEN r ELSE m.secret
        BY <1>0, <2>2, SecretsRewritten
      <3>4. \A m, n \in db'["emails"] : m.email = n.email => m.user = n.user
        BY <3>3 DEF EmailsInv, EmailRows
      <3>5. ASSUME NEW n \in db'["emails"], n.secret # 0
            PROVE  /\ n.secret \in Requests
                   /\ pc'[n.secret] \notin {"idle", "user", "email", "secret"}
                   /\ n.user = req'[n.secret].user
        <4>1. PICK m \in db["emails"] :
                /\ n.email = m.email /\ n.user = m.user
                /\ n.secret = IF m.email = req[r].email THEN r ELSE m.secret
          BY <3>3
        <4>2. CASE m.email = req[r].email
          BY <3>1, <3>2, <4>1, <4>2
        <4>3. CASE m.email # req[r].email
          BY <2>0, <3>5, <4>1, <4>3 DEF EmailsInv, EmailRows
        <4> QED BY <4>2, <4>3
      <3> QED BY <3>4, <3>5 DEF EmailRows
    <2>3. CASE ~InsertedEmail(r) /\ ~SavedSecret(r)
      <3>1. db'["emails"] = db["emails"] \/ db'["emails"] = db["emails"] \cup tx[r]["emails"]
        BY <1>5, <2>3, Names DEF GoesOn, InsertedUser, InsertedWallet, InsertedGithub,
           InsertedFirstDetail, CheckedCode, InsertedDetail, CreatedReferral, HasReadDetail,
           CountedReferrals, SavedDetail, MarkedReferred, SentMail, HasCommitted, RenewedNonce,
           Stops, CreatesIn, DbAdds, Commits
      <3>2. tx[r]["emails"] = {}
        BY DEF TxInv, TxFits
      <3> QED BY <1>1, <2>0, <3>1, <3>2
    <2> QED BY <2>1, <2>2, <2>3
  <1> QED BY <1>2, <1>3, <1>4, <1>5, Effects

(* Every step keeps secrets with the user of their request. *)
LEMMA EmailsInvStays ==
  ASSUME TypeInv, StepInv, IdsInv, TxInv, SignUpInv, WalletsInv, EmailsInv, Next
  PROVE  EmailsInv'
  <1>0. RowsStay /\ TypeOK /\ \A q \in Requests : MailFits(q)
    BY RowsKeep DEF TypeInv, EmailsInv
  <1>1. /\ \A u : HasWallet(u) => HasWallet(u)'
        /\ \A e : \A u \in UsersOfEmail(e) : u \in UsersOfEmail(e)'
    BY <1>0, WalletsKeep, EmailsFound
  <1>2. ASSUME NEW q \in Requests, pc'[q] = pc[q], req'[q] = req[q],
               q \in mailed' => q \in mailed
        PROVE  MailFits(q)'
    <2>1. PICK u, e : u = req[q].user /\ e = req[q].email
      OBVIOUS
    <2>2. UsersOfEmail(e) # {} => UsersOfEmail(e)' # {}
      BY <1>1
    <2>3. /\ q \in mailed' => pc'[q] \in Ended /\ HasWallet(u)' /\ UsersOfEmail(e)' # {}
          /\ pc'[q] = "secret" => u \in UsersOfEmail(e)'
          /\ req'[q].kind = "otp" /\ pc'[q] \in Steps \ {"user", "email"} =>
                UsersOfEmail(e)' # {}
      BY <1>0, <1>1, <1>2, <2>1, <2>2 DEF MailFits
    <2> QED BY <1>2, <2>1, <2>3 DEF MailFits
  <1>3. ASSUME NEW r \in Requests, Comes(r),
               ComesToSignUp(r) \/ ComesToSignIn(r) \/ ComesToRead(r)
        PROVE  EmailsInv'
    <2>1. r \notin mailed /\ mailed' = mailed /\ db' = db
      BY <1>0, <1>3 DEF Comes, MailFits, Ended, Answered
    <2>2. /\ pc'[r] = "secret" => req'[r].user \in UsersOfEmail(req'[r].email)
          /\ req'[r].kind = "otp" /\ pc'[r] \in Steps \ {"user", "email"} =>
                UsersOfEmail(req'[r].email) # {}
      BY <1>3 DEF ComesToSignUp, ComesToSignIn, ComesToRead, Steps
    <2>3. MailFits(r)'
      BY <2>1, <2>2 DEF MailFits, UsersOfEmail
    <2> QED BY <1>2, <1>3, <2>1, <2>3, EmailRowsStay DEF EmailsInv, Comes
  <1>4. ASSUME NEW r \in Requests, GoesOn(r)
        PROVE  EmailsInv'
    <2>1. /\ pc[r] \in Steps /\ pc'[r] # "secret"
          /\ r \notin mailed
      BY <1>0, <1>4, Forward DEF MailFits, Steps, Ended, Answered
    <2>2. ASSUME r \in mailed'
          PROVE  /\ pc'[r] \in Ended /\ HasWallet(req[r].user) /\ req' = req
                 /\ UsersOfEmail(req[r].email) # {}
      <3>1. pc[r] = "mail" /\ pc'[r] \in Ended /\ req' = req
        BY <1>4, <2>1, <2>2, Forward
      <3>2. req[r].kind = "otp" /\ "mail" \in Steps \ {"user", "email", "wallet"}
        BY <3>1 DEF StepInv, StepFits, KindFits, Steps
      <3>3. UsersOfEmail(req[r].email) # {}
        BY <1>0, <3>1, <3>2 DEF MailFits
      <3>4. CASE req[r].new
        BY <3>1, <3>2, <3>3, <3>4 DEF SignUpInv, UserFits
      <3>5. CASE ~req[r].new
        <4>1. req[r].wallet
          BY <3>1, <3>5 DEF StepInv, StepFits
        <4> QED BY <3>1, <3>3, <3>5, <4>1 DEF WalletsInv, WalletFits
      <3> QED BY <3>4, <3>5
    <2>3. ASSUME req[r].kind = "otp", pc'[r] \in Steps \ {"user", "email"}
          PROVE  UsersOfEmail(req[r].email)' # {} /\ req'[r].email = req[r].email
      <3>1. req'[r].email = req[r].email
        BY <1>4 DEF GoesOn, Same
      <3>2. PICK e : e = req[r].email
        OBVIOUS
      <3>3. CASE pc[r] \notin {"user", "email"}
        <4>1. UsersOfEmail(e) # {}
          BY <1>0, <2>1, <2>3, <3>2, <3>3 DEF MailFits
        <4> QED BY <1>1, <3>1, <3>2, <4>1
      <3>4. CASE pc[r] = "email"
        <4> DEFINE row == [email |-> req[r].email, user |-> req[r].user,
                           secret |-> IF req[r].kind = "otp" THEN r ELSE 0]
        <4>1. InsertedEmail(r)
          BY <1>4, <2>3, <3>4 DEF GoesOn, InsertedUser, InsertedWallet, InsertedGithub,
             InsertedFirstDetail, CheckedCode, InsertedDetail, CreatedReferral, HasReadDetail,
             CountedReferrals, SavedDetail, MarkedReferred, SavedSecret, SentMail,
             HasCommitted, RenewedNonce, Stops, Steps, Ended, Answered
        <4>2. row \in db'["emails"] /\ row.email = e
          BY <3>2, <4>1 DEF InsertedEmail, DbAdds
        <4> HIDE DEF row
        <4>3. row.user \in UsersOfEmail(e)'
          BY <4>2 DEF UsersOfEmail
        <4> QED BY <3>1, <3>2, <4>3
      <3>5. CASE pc[r] = "user"
        BY <1>4, <2>3, <3>5 DEF GoesOn, InsertedUser, InsertedEmail, InsertedWallet,
           InsertedGithub, InsertedFirstDetail, CheckedCode, InsertedDetail, CreatedReferral,
           HasReadDetail, CountedReferrals, SavedDetail, MarkedReferred, SavedSecret, SentMail,
           HasCommitted, RenewedNonce, Stops, Steps, Ended, Answered
      <3> QED BY <3>3, <3>4, <3>5
    <2>4. MailFits(r)'
      <3>1. r \in mailed' => /\ pc'[r] \in Ended /\ HasWallet(req[r].user)'
                             /\ UsersOfEmail(req[r].email)' # {}
        <4>1. PICK u, e : u = req[r].user /\ e = req[r].email
          OBVIOUS
        <4>2. r \in mailed' => pc'[r] \in Ended /\ HasWallet(u)' /\ UsersOfEmail(e)' # {} /\ req' = req
          BY <1>1, <2>2, <4>1
        <4> QED BY <4>1, <4>2
      <3>2. req'[r].kind = req[r].kind /\ req'[r].email = req[r].email
        BY <1>4 DEF GoesOn, Same
      <3> QED BY <2>1, <2>3, <3>1, <3>2 DEF MailFits
    <2>5. \A q \in Requests \ {r} :
            pc'[q] = pc[q] /\ req'[q] = req[q] /\ (q \in mailed' => q \in mailed)
      BY <1>4, Forward DEF GoesOn, Alone
    <2> QED BY <1>2, <2>4, <2>5, EmailRowsStay DEF EmailsInv
  <1>5. CASE Uploaded
    BY <1>2, <1>5, EmailRowsStay DEF Uploaded, EmailsInv
  <1>6. CASE Crashed
    <2>1. \A q \in Requests : MailFits(q)'
      <3> SUFFICES ASSUME NEW CONSTANT q \in Requests
                   PROVE  MailFits(q)'
        OBVIOUS
      <3>1. UNCHANGED <<db, req, mailed>> /\ pc'[q] \notin Steps
        BY <1>6 DEF Crashed, Steps
      <3>2. q \in mailed => pc'[q] \in Ended
        BY <1>0, <1>6 DEF Crashed, MailFits, Ended
      <3>3. "secret" \in Steps
        BY DEF Steps
      <3> QED BY <1>0, <3>1, <3>2, <3>3 DEF MailFits, HasWallet, UsersOfEmail
    <2> QED BY <2>1, EmailRowsStay DEF EmailsInv
  <1> QED BY <1>3, <1>4, <1>5, <1>6, Effects

(* Wallets of GitHub users are committed with them. *)
LEMMA WalletsInvStays ==
  ASSUME TypeInv, StepInv, IdsInv, TxInv, SignUpInv, WalletsInv, Next
  PROVE  WalletsInv'
  <1>0. RowsStay /\ TypeOK /\ (\A q \in Requests : WalletFits(q))
        /\ \A u : HasWallet(u) => HasWallet(u)'
    BY RowsKeep, WalletsKeep DEF TypeInv, WalletsInv
  <1>1. ASSUME db'["githubs"] = db["githubs"]
        PROVE  \A h \in db'["githubs"] : HasWallet(h.user)'
    BY <1>0, <1>1 DEF WalletsInv
  <1>2. ASSUME NEW q \in Requests, pc'[q] = pc[q] \/ pc'[q] # "commit", req'[q] = req[q]
        PROVE  WalletFits(q)'
    <2>1. PICK u : u = req[q].user
      OBVIOUS
    <2>2. ~req'[q].new /\ (req'[q].wallet \/ (req'[q].kind = "github" /\ pc'[q] = "commit"))
            => HasWallet(u)'
      BY <1>0, <1>2, <2>1 DEF WalletFits
    <2> QED BY <1>2, <2>1, <2>2 DEF WalletFits
  <1>3. ASSUME NEW r \in Requests, Comes(r),
               ComesToSignUp(r) \/ ComesToSignIn(r) \/ ComesToRead(r)
        PROVE  WalletsInv'
    <2>1. db' = db /\ \A g : \A u \in UsersOfGithub(g) : HasWallet(u)
      BY <1>3 DEF Comes, UsersOfGithub, WalletsInv
    <2>2. ~req'[r].new /\ (req'[r].wallet \/ (req'[r].kind = "github" /\ pc'[r] = "commit"))
            => HasWallet(req'[r].user)
      BY <1>3, <2>1 DEF ComesToSignUp, ComesToSignIn, ComesToRead
    <2>3. WalletFits(r)'
      BY <2>1, <2>2 DEF WalletFits, HasWallet
    <2> QED BY <1>1, <1>2, <1>3, <2>1, <2>3 DEF WalletsInv, Comes
  <1>4. ASSUME NEW r \in Requests, GoesOn(r)
        PROVE  WalletsInv'
    <2>0. /\ StepFits(r) /\ TxFits(r) /\ UserFits(r) /\ DOMAIN tx[r] = Tables
          /\ req'[r].new = req[r].new /\ req'[r].kind = req[r].kind
      BY <1>0, <1>4, Types DEF StepInv, TxInv, SignUpInv, GoesOn, Same
    <2>1. ASSUME NEW h \in db'["githubs"]
          PROVE  HasWallet(h.user)'
      <3>1. CASE HasCommitted(r) /\ h \in tx[r]["githubs"]
        <4>1. req[r].kind = "github" /\ h.user = req[r].user
          BY <2>0, <3>1 DEF TxFits, InTx
        <4>2. req[r].new
          BY <2>0, <3>1, Names DEF TxFits
        <4>3. pc[r] = "commit" /\ \A t \in Tables : db'[t] = db[t] \cup tx[r][t]
          BY <3>1 DEF HasCommitted, Commits
        <4>4. \E w \in tx[r]["wallets"] : w.user = h.user
          BY <2>0, <4>1, <4>2, <4>3 DEF UserFits, Steps
        <4> QED BY <4>3, <4>4, Names DEF HasWallet
      <3>2. CASE h \in db["githubs"]
        BY <1>0, <3>2 DEF WalletsInv
      <3>3. h \in db["githubs"] \/ (HasCommitted(r) /\ h \in tx[r]["githubs"])
        <4>1. CASE InsertedGithub(r)
          <5>1. req[r].kind = "github"
            BY <2>0, <4>1 DEF InsertedGithub, StepFits, KindFits
          <5> QED BY <2>1, <4>1, <5>1 DEF InsertedGithub, CreatesIn
        <4>2. CASE SentMail(r)
          <5>1. tx[r]["githubs"] = {}
            BY <2>0, <4>2 DEF SentMail, StepFits, KindFits, TxFits, InTx
          <5> QED BY <2>1, <4>2, <5>1, Names DEF SentMail, Commits
        <4>3. CASE HasCommitted(r)
          BY <2>1, <4>3, Names DEF HasCommitted, Commits
        <4>4. CASE ~InsertedGithub(r) /\ ~SentMail(r) /\ ~HasCommitted(r)
          <5>1. db'["githubs"] = db["githubs"]
            BY <1>4, <4>4, Names DEF GoesOn, InsertedUser, InsertedEmail, InsertedWallet,
               InsertedFirstDetail, CheckedCode, InsertedDetail, CreatedReferral,
               HasReadDetail, CountedReferrals, SavedDetail, MarkedReferred, SavedSecret,
               RenewedNonce, Stops, CreatesIn, DbAdds
          <5> QED BY <2>1, <5>1
        <4> QED BY <4>1, <4>2, <4>3, <4>4
      <3> QED BY <3>1, <3>2, <3>3
    <2>2. WalletFits(r)'
      <3>1. CASE req[r].new
        BY <2>0, <3>1 DEF WalletFits
      <3>2. CASE ~req[r].new
        <4>1. pc[r] \notin {"user", "detail"}
          BY <2>0, <3>2 DEF StepFits, SignUpSteps, BeforeDetail
        <4>2. /\ pc'[r] # "commit" /\ req'[r].wallet = req[r].wallet
              /\ req'[r].user = req[r].user
          BY <1>4, <4>1, Forward, RequestsStayKnown
        <4>3. PICK u : u = req[r].user
          OBVIOUS
        <4>4. req[r].wallet => HasWallet(u)'
          BY <1>0, <3>2, <4>3 DEF WalletFits
        <4> QED BY <4>2, <4>3, <4>4 DEF WalletFits
      <3> QED BY <3>1, <3>2
    <2>3. \A q \in Requests \ {r} : pc'[q] = pc[q] /\ req'[q] = req[q]
      BY <1>4 DEF GoesOn, Alone
    <2>4. \A q \in Requests \ {r} : WalletFits(q)'
      BY <1>2, <2>3
    <2> QED BY <2>1, <2>2, <2>4 DEF WalletsInv
  <1>5. CASE Uploaded
    BY <1>1, <1>2, <1>5, Names DEF Uploaded, WalletsInv
  <1>6. CASE Crashed
    <2>1. \A q \in Requests : req'[q] = req[q] /\ pc'[q] # "commit"
      BY <1>6 DEF Crashed, Steps
    <2> QED BY <1>1, <1>2, <1>6, <2>1 DEF Crashed, WalletsInv
  <1> QED BY <1>3, <1>4, <1>5, <1>6, Effects

(* A user is inserted under a new number, or committed by the request that signs
   it up, with its wallet.  *)
LEMMA UsersAdded ==
  ASSUME TypeInv, StepInv, IdsInv, TxInv, SignUpInv, NEW r \in Requests, GoesOn(r),
         NEW u \in db'["users"], u \notin db["users"]
  PROVE  \/ u = nextUser
         \/ u = req[r].user /\ req[r].new /\ u # 0 /\ HasWallet(u)'
  <1>0. StepFits(r) /\ TxFits(r) /\ UserFits(r) /\ DOMAIN tx[r] = Tables
    BY Types DEF StepInv, TxInv, SignUpInv, TypeInv
  <1>1. CASE InsertedUser(r)
    BY <1>1, Names DEF InsertedUser, CreatesIn, DbAdds
  <1>2. CASE SentMail(r)
    <2>1. tx[r]["users"] = {}
      BY <1>0, <1>2 DEF SentMail, StepFits, KindFits, TxFits, InTx
    <2> QED BY <1>2, <2>1, Names DEF SentMail, Commits
  <1>3. CASE HasCommitted(r)
    <2>1. pc[r] = "commit" /\ \A t \in Tables : db'[t] = db[t] \cup tx[r][t]
      BY <1>3 DEF HasCommitted, Commits
    <2>2. u \in tx[r]["users"]
      BY <2>1, Names
    <2>3. u = req[r].user /\ req[r].kind = "github"
      BY <1>0, <2>2 DEF TxFits, InTx
    <2>4. req[r].new
      BY <1>0, <2>2, Names DEF TxFits
    <2>5. u # 0
      BY <2>1, <2>3 DEF IdsInv, Steps
    <2>6. \E w \in tx[r]["wallets"] : w.user = u
      BY <1>0, <2>1, <2>3, <2>4 DEF UserFits, Steps
    <2> QED BY <2>1, <2>3, <2>4, <2>5, <2>6, Names DEF HasWallet
  <1>4. CASE ~InsertedUser(r) /\ ~SentMail(r) /\ ~HasCommitted(r)
    <2>1. db'["users"] = db["users"]
      BY <1>4, Names DEF GoesOn, InsertedEmail, InsertedWallet, InsertedGithub,
         InsertedFirstDetail, CheckedCode, InsertedDetail, CreatedReferral, HasReadDetail,
         CountedReferrals, SavedDetail, MarkedReferred, SavedSecret, RenewedNonce, Stops,
         CreatesIn, DbAdds
    <2> QED BY <2>1
  <1> QED BY <1>1, <1>2, <1>3, <1>4

(* A user in a transaction stays unseen until the commit. *)
LEMMA UnseenInvStays ==
  ASSUME TypeInv, StepInv, IdsInv, TxInv, SignUpInv, OwnersDiffer, UnseenInv, Next
  PROVE  UnseenInv'
  <1>0. nextUser \in Nat /\ \A q \in Requests : req[q].user < nextUser /\ req[q].user \in Nat
    BY Values DEF TypeInv, IdsInv
  <1>1. ASSUME NEW r \in Requests, Comes(r),
               ComesToSignUp(r) \/ ComesToSignIn(r) \/ ComesToRead(r)
        PROVE  UnseenInv'
    <2>1. ~(req'[r].new /\ pc'[r] \in Steps \ {"user"})
      BY <1>1 DEF ComesToSignUp, ComesToSignIn, ComesToRead, Steps
    <2> QED BY <1>1, <2>1 DEF Comes, UnseenInv
  <1>2. ASSUME NEW r \in Requests, GoesOn(r)
        PROVE  UnseenInv'
    <2> SUFFICES ASSUME NEW q \in Requests, req'[q].new, req'[q].kind = "github",
                        pc'[q] \in Steps \ {"user"}, req'[q].user \in db'["users"]
                 PROVE  FALSE
      BY DEF UnseenInv
    <2>1. CASE q # r
      <3>1. pc'[q] = pc[q] /\ req'[q] = req[q]
        BY <1>2, <2>1 DEF GoesOn, Alone
      <3>2. req[q].user \notin db["users"] /\ req[q].user # nextUser
        BY <1>0, <3>1 DEF UnseenInv
      <3>3. req[q].user = req[r].user /\ req[r].new /\ req[q].user # 0
        BY <1>2, <3>1, <3>2, UsersAdded
      <3> QED BY <2>1, <3>1, <3>3 DEF OwnersDiffer
    <2>2. CASE q = r /\ pc[r] = "user"
      <3>1. InsertedUser(r)
        BY <1>2, <2>2 DEF GoesOn, InsertedEmail, InsertedWallet, InsertedGithub,
           InsertedFirstDetail, CheckedCode, InsertedDetail, CreatedReferral, HasReadDetail,
           CountedReferrals, SavedDetail, MarkedReferred, SavedSecret, SentMail,
           HasCommitted, RenewedNonce, Stops, Steps, Ended, Answered
      <3>2. req'[r].user = nextUser /\ req[r].kind = "github"
        BY <1>2, <2>2, <3>1 DEF InsertedUser, GoesOn, Same
      <3>3. db' = db
        BY <3>1, <3>2 DEF InsertedUser, CreatesIn
      <3>4. \A u \in db["users"] : u < nextUser
        BY DEF IdsInv, Known
      <3> QED BY <1>0, <2>2, <3>2, <3>3, <3>4
    <2>3. CASE q = r /\ pc[r] # "user"
      <3>1. /\ pc[r] \in Steps \ {"user"} /\ req'[r].user = req[r].user
            /\ req[r].new /\ req[r].kind = "github"
        BY <1>2, <2>3, Forward, RequestsStayKnown DEF GoesOn, Same
      <3>2. req[r].user \notin db["users"] /\ req[r].user # nextUser
        BY <1>0, <3>1 DEF UnseenInv
      <3>3. HasCommitted(r) \/ SentMail(r)
        <4>1. ~InsertedUser(r)
          BY <2>3 DEF InsertedUser
        <4>2. ~HasCommitted(r) /\ ~SentMail(r) => db'["users"] = db["users"]
          BY <1>2, <4>1, Names DEF GoesOn, InsertedEmail, InsertedWallet, InsertedGithub,
             InsertedFirstDetail, CheckedCode, InsertedDetail, CreatedReferral, HasReadDetail,
             CountedReferrals, SavedDetail, MarkedReferred, SavedSecret, RenewedNonce, Stops,
             CreatesIn, DbAdds
        <4> QED BY <2>3, <3>1, <3>2, <4>2
      <3> QED BY <2>3, <3>3 DEF HasCommitted, SentMail, Steps
    <2> QED BY <2>1, <2>2, <2>3
  <1>3. CASE Uploaded
    BY <1>3, Names DEF Uploaded, UnseenInv
  <1>4. CASE Crashed
    <2>1. \A q \in Requests : pc'[q] \notin Steps
      BY <1>4 DEF Crashed, Steps
    <2> QED BY <2>1 DEF UnseenInv
  <1> QED BY <1>1, <1>2, <1>3, <1>4, Effects

(* Who is given a token has a wallet, or no user row at all. *)
LEMMA TokenHoldersKeepWallet ==
  ASSUME TypeInv, StepInv, IdsInv, TxInv, SignUpInv, WalletsInv, EmailsInv, UnseenInv,
         TokenHoldersHaveWallet, Next
  PROVE  TokenHoldersHaveWallet'
  <1> DEFINE TokenKinds == {"google", "github", "login", "verify"}
  <1>0. /\ TypeOK /\ RowsStay /\ \A u : HasWallet(u) => HasWallet(u)'
        /\ nextUser \in Nat /\ \A q \in Requests : req[q].user < nextUser /\ req[q].user \in Nat
    BY RowsKeep, WalletsKeep, Values DEF TypeInv, IdsInv
  <1>1. ASSUME NEW u \in TokenHolders, u \in db'["users"],
               u \in db["users"] \/ \E r \in Requests : GoesOn(r)
        PROVE  HasWallet(u)'
    <2>1. u # nextUser
      BY <1>0 DEF TokenHolders
    <2>2. CASE u \in db["users"]
      BY <1>0, <2>2 DEF TokenHoldersHaveWallet
    <2>3. CASE u \notin db["users"]
      <3>1. PICK r \in Requests : GoesOn(r)
        BY <1>1, <2>3
      <3> QED BY <1>1, <2>1, <2>3, <3>1, UsersAdded
    <2> QED BY <2>2, <2>3
  <1>2. ASSUME NEW r \in Requests, Comes(r),
               ComesToSignUp(r) \/ ComesToSignIn(r) \/ ComesToRead(r)
        PROVE  TokenHoldersHaveWallet'
    <2>1. ASSUME pc'[r] \in Answered, req'[r].kind \in TokenKinds
          PROVE  HasWallet(req'[r].user)
      <3>1. ComesToRead(r)
        BY <1>2, <2>1 DEF ComesToSignUp, ComesToSignIn, Answered
      <3>2. CASE req'[r].kind = "verify"
        <4>1. PICK q \in mailed, m \in db["emails"] :
                m.user = req'[r].user /\ m.email = req[q].email /\ m.secret = q
          BY <2>1, <3>1, <3>2 DEF ComesToRead, Answered
        <4>2. q \in Requests /\ q # 0
          BY <1>0 DEF TypeOK, Requests
        <4> QED BY <4>1, <4>2 DEF EmailsInv, EmailRows, MailFits
      <3> QED BY <2>1, <3>1, <3>2 DEF ComesToRead
    <2>2. \A u \in TokenHolders' : u \in TokenHolders \/ HasWallet(u)
      BY <1>2, <2>1 DEF TokenHolders, Comes
    <2>3. db' = db
      BY <1>2 DEF Comes
    <2> QED BY <2>2, <2>3 DEF TokenHoldersHaveWallet, HasWallet
  <1>3. ASSUME NEW r \in Requests, GoesOn(r)
        PROVE  TokenHoldersHaveWallet'
    <2>0. /\ StepFits(r) /\ TxFits(r) /\ UserFits(r) /\ DetailFits(r) /\ MarkFits(r)
          /\ ReferralFits(r) /\ WalletFits(r)
      BY DEF StepInv, TxInv, SignUpInv, WalletsInv
    <2>1. ASSUME pc'[r] \in Answered, req[r].kind \in TokenKinds
          PROVE  /\ req' = req
                 /\ HasWallet(req[r].user)' \/ req[r].user \notin db'["users"]
      <3>1. /\ pc[r] = "commit" /\ req' = req
            /\ HasCommitted(r) \/ (db' = db /\ (req[r].kind = "github" \/ req[r].wallet))
        <4>1. CASE HasCommitted(r)
          BY <4>1 DEF HasCommitted
        <4>2. CASE Stops(r)
          <5>1. pc'[r] = "unsaved" /\ pc[r] # "mail"
            BY <2>0, <2>1, <4>2 DEF Stops, Answered, StepFits, KindFits
          <5> QED BY <4>2, <5>1 DEF Stops
        <4>3. CASE InsertedFirstDetail(r) \/ MarkedReferred(r) \/ RenewedNonce(r) \/ SentMail(r)
          BY <2>0, <2>1, <4>3 DEF InsertedFirstDetail, MarkedReferred, RenewedNonce, SentMail,
             Answered, StepFits, KindFits
        <4>4. CASE \/ InsertedUser(r) \/ InsertedEmail(r) \/ InsertedWallet(r) \/ InsertedGithub(r)
                   \/ CheckedCode(r) \/ InsertedDetail(r) \/ CreatedReferral(r)
                   \/ HasReadDetail(r) \/ CountedReferrals(r) \/ SavedDetail(r)
                   \/ SavedSecret(r)
          BY <2>1, <4>4 DEF InsertedUser, InsertedEmail, InsertedWallet, InsertedGithub,
             CheckedCode, InsertedDetail, CreatedReferral, HasReadDetail, CountedReferrals,
             SavedDetail, SavedSecret, Answered
        <4> QED BY <1>3, <4>1, <4>2, <4>3, <4>4 DEF GoesOn
      <3>2. PICK u : u = req[r].user
        OBVIOUS
      <3>3. CASE ~req[r].new
        <4>1. req[r].kind = "github" \/ req[r].wallet
          BY <3>1 DEF HasCommitted
        <4>2. HasWallet(u)'
          BY <1>0, <2>0, <3>1, <3>2, <3>3, <4>1 DEF WalletFits
        <4> QED BY <3>1, <3>2, <4>2
      <3>4. CASE req[r].new /\ HasCommitted(r)
        <4>1. SignedUp(r)'
          BY <2>0, <3>1, <3>4, CommittedIsWhole DEF HasCommitted
        <4> QED BY <3>1, <4>1 DEF SignedUp
      <3>5. CASE req[r].new /\ db' = db /\ req[r].kind # "github"
        <4>1. HasWallet(u)
          BY <2>0, <3>1, <3>2, <3>5 DEF UserFits, Steps
        <4> QED BY <1>0, <3>1, <3>2, <4>1
      <3>6. CASE req[r].new /\ db' = db /\ req[r].kind = "github"
        BY <3>1, <3>6 DEF UnseenInv, Steps
      <3> QED BY <3>1, <3>3, <3>4, <3>5, <3>6
    <2>2. ASSUME NEW q \in Requests, pc'[q] \in Answered, req'[q].kind \in TokenKinds,
                 req'[q].user \in db'["users"]
          PROVE  \E w \in db'["wallets"] : w.user = req'[q].user
      <3>1. CASE q = r
        <4>1. req'[r].kind = req[r].kind
          BY <1>3 DEF GoesOn, Same
        <4>2. req' = req /\ HasWallet(req[r].user)'
          BY <2>1, <2>2, <3>1, <4>1
        <4> QED BY <3>1, <4>2 DEF HasWallet
      <3>2. CASE q # r
        <4>1. pc'[q] = pc[q] /\ req'[q] = req[q]
          BY <1>3, <3>2 DEF GoesOn, Alone
        <4>2. req[q].user \in TokenHolders
          BY <2>2, <4>1 DEF TokenHolders
        <4>3. PICK u : u = req[q].user
          OBVIOUS
        <4>4. HasWallet(u)'
          BY <1>1, <1>3, <2>2, <4>1, <4>2, <4>3
        <4> QED BY <4>1, <4>3, <4>4 DEF HasWallet
      <3> QED BY <3>1, <3>2
    <2> QED BY <2>2 DEF TokenHoldersHaveWallet, TokenHolders, HasWallet
  <1>4. CASE Uploaded
    <2>1. TokenHolders' = TokenHolders /\ db'["users"] = db["users"] /\ db'["wallets"] = db["wallets"]
      BY <1>4, Names DEF Uploaded, TokenHolders
    <2> QED BY <2>1 DEF TokenHoldersHaveWallet, HasWallet
  <1>5. CASE Crashed
    <2>1. \A q \in Requests : pc'[q] \in Answered => pc'[q] = pc[q]
      BY <1>5 DEF Crashed, Answered
    <2>2. db' = db /\ req' = req
      BY <1>5 DEF Crashed
    <2>3. \A u \in TokenHolders' : u \in TokenHolders
      BY <2>1, <2>2 DEF TokenHolders
    <2> QED BY <2>2, <2>3 DEF TokenHoldersHaveWallet, HasWallet
  <1> QED BY <1>2, <1>3, <1>4, <1>5, Effects

-----------------------------------------------------------------------------
(* One request after the other                                             *)

BeginInOrder ==
    \A q, r \in Requests : pc[q] = "idle" /\ pc[r] # "idle" => r < q

(* the one that is under way is the newest *)
OneAtATime ==
    ~disturbed => \A r, q \in Requests :
        pc[r] \in Steps => (pc[q] \in Steps => q = r) /\ (pc[q] # "idle" => q <= r)

(* the nonce that r is going to answer, or has answered *)
NonceFits(r) ==
    req[r].kind = "nonce" /\ pc[r] \in {"firstDetail", "mark", "ok"} =>
        \A w \in db["wallets"] : w.address = req[r].address => w.nonce >= r

(* the secret that r is going to mail, or has mailed *)
SecretFits(r) ==
    \/ req[r].kind = "otp" /\ pc[r] \in Steps \ {"user", "email", "secret"}
    \/ r \in mailed
    => \A m \in db["emails"] : m.email = req[r].email => m.secret >= r

NewestInv == ~disturbed => \A r \in Requests : NonceFits(r) /\ SecretFits(r)

(* Requests begin in order, and calm ones one at a time. *)
LEMMA OrderStays ==
  ASSUME TypeInv, BeginInOrder, OneAtATime, Next
  PROVE  BeginInOrder' /\ OneAtATime'
  <1>0. /\ \A q \in Requests : q \in Nat
        /\ ValuesFit /\ "idle" \notin Steps /\ "idle" # "lost"
    BY Effects DEF Requests, Steps
  <1>1. ASSUME NEW r \in Requests, Comes(r),
               ComesToSignUp(r) \/ ComesToSignIn(r) \/ ComesToRead(r)
        PROVE  BeginInOrder' /\ OneAtATime'
    <2>1. /\ pc[r] = "idle" /\ \A q \in Requests : pc[q] = "idle" => r <= q
          /\ \A q \in Requests \ {r} : pc'[q] = pc[q]
          /\ disturbed' \/ \A q \in Requests : pc[q] \notin Steps
      BY <1>1 DEF Comes, InFlight
    <2>2. pc'[r] # "idle"
      BY <1>1 DEF ComesToSignUp, ComesToSignIn, ComesToRead
    <2>3. BeginInOrder'
      BY <1>0, <2>1, <2>2 DEF BeginInOrder
    <2>4. \A q \in Requests : pc'[q] # "idle" => q <= r
      BY <1>0, <2>1 DEF BeginInOrder
    <2>5. OneAtATime'
      BY <1>0, <2>1, <2>4 DEF OneAtATime
    <2> QED BY <2>3, <2>5
  <1>2. ASSUME NEW r \in Requests, GoesOn(r)
        PROVE  BeginInOrder' /\ OneAtATime'
    <2>1. /\ pc[r] \in Steps /\ pc'[r] # "idle" /\ pc[r] # "idle"
          /\ \A q \in Requests \ {r} : pc'[q] = pc[q]
          /\ disturbed => disturbed'
      BY <1>0, <1>2, Forward DEF GoesOn, Alone, ValuesFit
    <2> QED BY <1>0, <2>1 DEF BeginInOrder, OneAtATime
  <1>3. CASE Uploaded
    BY <1>0, <1>3 DEF Uploaded, BeginInOrder, OneAtATime, ValuesFit
  <1>4. CASE Crashed
    <2>1. disturbed' /\ \A q \in Requests : pc'[q] = "idle" <=> pc[q] = "idle"
      BY <1>0, <1>4 DEF Crashed
    <2> QED BY <2>1 DEF BeginInOrder, OneAtATime
  <1> QED BY <1>1, <1>2, <1>3, <1>4, Effects

(* Nonces and secrets are only replaced by the number of the request. *)
LEMMA NoncesWritten ==
  ASSUME TypeOK, TxInv, NEW r \in Requests, GoesOn(r)
  PROVE  \A v \in db'["wallets"] :
            \/ v.nonce = r
            \/ \E w \in db["wallets"] : v.address = w.address /\ v.nonce = w.nonce
  <1>1. CASE RenewedNonce(r)
    BY <1>1, NoncesRewritten
  <1>2. CASE InsertedWallet(r)
    <2> DEFINE row == [address |-> req[r].address, nonce |-> r, user |-> req[r].user]
    <2>1. row.nonce = r
      OBVIOUS
    <2>2. db'["wallets"] \subseteq db["wallets"] \cup {row}
      BY <1>2, Names DEF InsertedWallet, CreatesIn, DbAdds
    <2> HIDE DEF row
    <2> QED BY <2>1, <2>2
  <1>3. CASE SentMail(r) \/ HasCommitted(r)
    <2>1. db'["wallets"] = db["wallets"] \cup tx[r]["wallets"]
      BY <1>3, Names DEF SentMail, HasCommitted, Commits
    <2> QED BY <2>1 DEF TxInv, TxFits
  <1>4. CASE ~RenewedNonce(r) /\ ~InsertedWallet(r) /\ ~SentMail(r) /\ ~HasCommitted(r)
    <2>1. db'["wallets"] = db["wallets"]
      BY <1>4, Names DEF GoesOn, InsertedUser, InsertedEmail, InsertedGithub,
         InsertedFirstDetail, CheckedCode, InsertedDetail, CreatedReferral, HasReadDetail,
         CountedReferrals, SavedDetail, MarkedReferred, SavedSecret, Stops, CreatesIn, DbAdds
    <2> QED BY <2>1
  <1> QED BY <1>1, <1>2, <1>3, <1>4

(* What a step may do to the secrets. *)
LEMMA SecretsWritten ==
  ASSUME TypeOK, TxInv, NEW r \in Requests, GoesOn(r)
  PROVE  \A n \in db'["emails"] :
            \/ n.secret = r
            \/ \E m \in db["emails"] : n.email = m.email /\ n.secret = m.secret
            \/ n.email = req[r].email /\ UsersOfEmail(req[r].email) = {}
  <1>1. CASE SavedSecret(r)
    BY <1>1, SecretsRewritten
  <1>2. CASE InsertedEmail(r)
    <2> DEFINE row == [email |-> req[r].email, user |-> req[r].user,
                       secret |-> IF req[r].kind = "otp" THEN r ELSE 0]
    <2>1. row.email = req[r].email
      OBVIOUS
    <2>2. /\ db'["emails"] = db["emails"] \cup {row}
          /\ UsersOfEmail(req[r].email) = {}
      BY <1>2 DEF InsertedEmail, DbAdds
    <2> HIDE DEF row
    <2> QED BY <2>1, <2>2
  <1>3. CASE SentMail(r) \/ HasCommitted(r)
    <2>1. db'["emails"] = db["emails"] \cup tx[r]["emails"]
      BY <1>3, Names DEF SentMail, HasCommitted, Commits
    <2> QED BY <2>1 DEF TxInv, TxFits
  <1>4. CASE ~SavedSecret(r) /\ ~InsertedEmail(r) /\ ~SentMail(r) /\ ~HasCommitted(r)
    <2>1. db'["emails"] = db["emails"]
      BY <1>4, Names DEF GoesOn, InsertedUser, InsertedWallet, InsertedGithub,
         InsertedFirstDetail, CheckedCode, InsertedDetail, CreatedReferral, HasReadDetail,
         CountedReferrals, SavedDetail, MarkedReferred, RenewedNonce, Stops, CreatesIn, DbAdds
    <2> QED BY <2>1
  <1> QED BY <1>1, <1>2, <1>3, <1>4

(* The nonce that the request answers is its own. *)
LEMMA NonceStaysFit ==
  ASSUME TypeInv, StepInv, TxInv, NEW r \in Requests, NonceFits(r), GoesOn(r)
  PROVE  NonceFits(r)'
  <1>0. TypeOK /\ r \in Nat /\ req'[r].kind = req[r].kind /\ req'[r].address = req[r].address
    BY DEF TypeInv, GoesOn, Same, Requests
  <1> SUFFICES ASSUME req[r].kind = "nonce", pc'[r] \in {"firstDetail", "mark", "ok"},
                      NEW v \in db'["wallets"], v.address = req[r].address
               PROVE  v.nonce >= r
    BY <1>0 DEF NonceFits
  <1>1. CASE InsertedWallet(r)
    <2> DEFINE row == [address |-> req[r].address, nonce |-> r, user |-> req[r].user]
    <2>1. row.nonce = r
      OBVIOUS
    <2>2. db'["wallets"] \subseteq db["wallets"] \cup {row} /\ UsersOfWallet(req[r].address) = {}
      BY <1>1, Names DEF InsertedWallet, CreatesIn, DbAdds
    <2> HIDE DEF row
    <2>3. \A w \in db["wallets"] : w.address = req[r].address =>
            w.user \in UsersOfWallet(req[r].address)
      BY DEF UsersOfWallet
    <2>4. v = row
      BY <2>2, <2>3
    <2> QED BY <1>0, <2>1, <2>4
  <1>2. CASE RenewedNonce(r)
    <2>1. v.nonce = r
      BY <1>0, <1>2, NoncesRewritten
    <2> QED BY <1>0, <2>1
  <1>3. CASE InsertedFirstDetail(r) \/ MarkedReferred(r)
    <2>1. db'["wallets"] = db["wallets"] /\ pc[r] \in {"firstDetail", "mark"}
      BY <1>3, Names DEF InsertedFirstDetail, MarkedReferred, CreatesIn, DbAdds
    <2> QED BY <2>1 DEF NonceFits
  <1>4. CASE SentMail(r) \/ HasCommitted(r) \/ InsertedGithub(r)
    BY <1>4 DEF SentMail, HasCommitted, InsertedGithub, StepInv, StepFits, KindFits
  <1>5. CASE \/ InsertedUser(r) \/ InsertedEmail(r) \/ CheckedCode(r) \/ InsertedDetail(r)
             \/ CreatedReferral(r) \/ HasReadDetail(r) \/ CountedReferrals(r)
             \/ SavedDetail(r) \/ SavedSecret(r) \/ Stops(r)
    BY <1>5 DEF InsertedUser, InsertedEmail, CheckedCode, InsertedDetail, CreatedReferral,
       HasReadDetail, CountedReferrals, SavedDetail, SavedSecret, Stops, Ended, Answered
  <1> QED BY <1>1, <1>2, <1>3, <1>4, <1>5 DEF GoesOn

(* And the secret that it mails. *)
LEMMA SecretStaysFit ==
  ASSUME TypeInv, StepInv, TxInv, NEW r \in Requests, MailFits(r), SecretFits(r), GoesOn(r)
  PROVE  SecretFits(r)'
  <1>0. /\ TypeOK /\ r \in Nat /\ req'[r].kind = req[r].kind /\ req'[r].email = req[r].email
        /\ StepFits(r) /\ TxFits(r)
    BY DEF TypeInv, StepInv, TxInv, GoesOn, Same, Requests
  <1>1. r \in mailed' => pc[r] = "mail"
    BY <1>0, Forward DEF MailFits, Steps, Ended, Answered
  <1>2. pc[r] = "mail" => req[r].kind = "otp"
    BY <1>0 DEF StepFits, KindFits
  <1> SUFFICES ASSUME \/ pc[r] = "mail"
                      \/ req[r].kind = "otp" /\ pc'[r] \in Steps \ {"user", "email", "secret"},
                      NEW n \in db'["emails"], n.email = req[r].email
               PROVE  n.secret >= r
    BY <1>0, <1>1 DEF SecretFits
  <1>3. CASE InsertedEmail(r)
    <2> DEFINE row == [email |-> req[r].email, user |-> req[r].user,
                       secret |-> IF req[r].kind = "otp" THEN r ELSE 0]
    <2>1. req[r].kind = "otp"
      BY <1>3 DEF InsertedEmail
    <2>2. row.secret = r
      BY <2>1
    <2>3. db'["emails"] = db["emails"] \cup {row} /\ UsersOfEmail(req[r].email) = {}
      BY <1>3 DEF InsertedEmail, DbAdds
    <2> HIDE DEF row
    <2>4. \A m \in db["emails"] : m.email = req[r].email => m.user \in UsersOfEmail(req[r].email)
      BY DEF UsersOfEmail
    <2>5. n = row
      BY <2>3, <2>4
    <2> QED BY <1>0, <2>2, <2>5
  <1>4. CASE SavedSecret(r)
    <2>1. n.secret = r
      BY <1>0, <1>4, SecretsRewritten
    <2> QED BY <1>0, <2>1
  <1>5. CASE InsertedUser(r)
    BY <1>5 DEF InsertedUser
  <1>6. CASE ~InsertedEmail(r) /\ ~SavedSecret(r) /\ ~InsertedUser(r)
    <2>1. db'["emails"] = db["emails"] \/ db'["emails"] = db["emails"] \cup tx[r]["emails"]
      BY <1>6, Names DEF GoesOn, InsertedWallet, InsertedGithub, InsertedFirstDetail,
         CheckedCode, InsertedDetail, CreatedReferral, HasReadDetail, CountedReferrals,
         SavedDetail, MarkedReferred, RenewedNonce, SentMail, HasCommitted, Stops, CreatesIn,
         DbAdds, Commits
    <2>2. n \in db["emails"]
      BY <1>0, <2>1 DEF TxFits
    <2>3. req[r].kind = "otp" /\ pc[r] \in Steps \ {"user", "email", "secret"}
      <3>1. pc[r] \in {"user", "email", "secret"} => Stops(r)
        BY <1>6 DEF GoesOn, InsertedWallet, InsertedGithub, InsertedFirstDetail,
           CheckedCode, InsertedDetail, CreatedReferral, HasReadDetail, CountedReferrals,
           SavedDetail, MarkedReferred, RenewedNonce, SentMail, HasCommitted
      <3>2. Stops(r) => pc'[r] \notin Steps
        BY DEF Stops, Steps, Ended, Answered
      <3>3. pc[r] \in Steps
        BY Forward
      <3> QED BY <1>2, <3>1, <3>2, <3>3
    <2> QED BY <2>2, <2>3 DEF SecretFits
  <1> QED BY <1>3, <1>4, <1>5, <1>6

(* A calm step keeps the newest nonce and secret. *)
LEMMA NewestStays ==
  ASSUME TypeInv, StepInv, TxInv, EmailsInv, OneAtATime, NewestInv, Next
  PROVE  NewestInv'
  <1>0. /\ TypeOK /\ ValuesFit /\ \A q \in Requests : q \in Nat
        /\ \A w \in db["wallets"] : w.nonce \in Nat
        /\ \A m \in db["emails"] : m.secret \in Nat
    BY Effects, Values DEF TypeInv, Requests
  <1> SUFFICES ASSUME ~disturbed'
               PROVE  \A r \in Requests : NonceFits(r)' /\ SecretFits(r)'
    BY DEF NewestInv
  <1>1. ~disturbed /\ \A r \in Requests : NonceFits(r) /\ SecretFits(r)
    BY <1>0 DEF ValuesFit, NewestInv
  <1>2. ASSUME NEW q \in Requests, pc'[q] = pc[q], req'[q] = req[q], mailed' = mailed,
               db'["wallets"] = db["wallets"], db'["emails"] = db["emails"]
        PROVE  NonceFits(q)' /\ SecretFits(q)'
    BY <1>1, <1>2 DEF NonceFits, SecretFits
  <1>3. ASSUME NEW r \in Requests, Comes(r),
               ComesToSignUp(r) \/ ComesToSignIn(r) \/ ComesToRead(r)
        PROVE  \A q \in Requests : NonceFits(q)' /\ SecretFits(q)'
    <2>1. /\ r \notin mailed
          /\ ~(req'[r].kind = "nonce" /\ pc'[r] \in {"firstDetail", "mark", "ok"})
          /\ ~(req'[r].kind = "otp" /\ pc'[r] \in Steps \ {"user", "email", "secret"})
      <3>1. r \notin mailed
        BY <1>3 DEF EmailsInv, MailFits, Comes, Ended, Answered
      <3>2. CASE ComesToSignUp(r)
        BY <3>1, <3>2 DEF ComesToSignUp, Steps
      <3>3. CASE ComesToSignIn(r)
        BY <3>1, <3>3 DEF ComesToSignIn, Steps
      <3>4. CASE ComesToRead(r)
        BY <3>1, <3>4 DEF ComesToRead, Steps
      <3> QED BY <1>3, <3>2, <3>3, <3>4
    <2>2. NonceFits(r)' /\ SecretFits(r)'
      BY <1>3, <2>1 DEF NonceFits, SecretFits, Comes
    <2> QED BY <1>2, <1>3, <2>2 DEF Comes
  <1>4. ASSUME NEW r \in Requests, GoesOn(r), NEW q \in Requests
        PROVE  NonceFits(q)' /\ SecretFits(q)'
    <2>1. CASE q = r
      BY <1>1, <1>4, <2>1, NonceStaysFit, SecretStaysFit DEF EmailsInv
    <2>2. CASE q # r
      <3>1. /\ pc'[q] = pc[q] /\ req'[q] = req[q] /\ pc[r] \in Steps
            /\ q \in mailed' => q \in mailed
        BY <1>4, <2>2, Forward DEF GoesOn, Alone
      <3>2. pc[q] # "idle" => q <= r
        BY <1>1, <3>1 DEF OneAtATime
      <3>3. NonceFits(q)'
        <4> SUFFICES ASSUME req[q].kind = "nonce", pc[q] \in {"firstDetail", "mark", "ok"},
                            NEW v \in db'["wallets"], v.address = req[q].address
                     PROVE  v.nonce >= q
          BY <3>1 DEF NonceFits
        <4>1. CASE v.nonce = r
          BY <1>0, <3>2, <4>1
        <4>2. CASE \E w \in db["wallets"] : v.address = w.address /\ v.nonce = w.nonce
          BY <1>1, <4>2 DEF NonceFits
        <4> QED BY <1>0, <1>4, <4>1, <4>2, NoncesWritten
      <3>4. SecretFits(q)'
        <4> SUFFICES ASSUME \/ req[q].kind = "otp" /\ pc[q] \in Steps \ {"user", "email", "secret"}
                            \/ q \in mailed,
                            NEW n \in db'["emails"], n.email = req[q].email
                     PROVE  n.secret >= q
          BY <3>1 DEF SecretFits
        <4>1. pc[q] # "idle" /\ UsersOfEmail(req[q].email) # {}
          BY DEF EmailsInv, MailFits, Steps, Ended, Answered
        <4>2. CASE n.secret = r
          BY <1>0, <3>2, <4>1, <4>2
        <4>3. CASE \E m \in db["emails"] : n.email = m.email /\ n.secret = m.secret
          BY <1>1, <4>3 DEF SecretFits
        <4> QED BY <1>0, <1>4, <4>1, <4>2, <4>3, SecretsWritten
      <3> QED BY <3>3, <3>4
    <2> QED BY <2>1, <2>2
  <1>5. CASE Uploaded
    BY <1>2, <1>5, Names DEF Uploaded
  <1>6. CASE Crashed
    BY <1>6 DEF Crashed
  <1> QED BY <1>3, <1>4, <1>5, <1>6, Effects

(* The newest ones are those that are accepted. *)
LEMMA NewestAreAccepted ==
  ASSUME NewestInv
  PROVE  LatestIsAccepted
  BY DEF NewestInv, NonceFits, SecretFits, LatestIsAccepted

-----------------------------------------------------------------------------
(* Referral storage, while requests come one after the other               *)

Capped(n) == IF n < Limit THEN n ELSE Limit

(* a request is about to add a reward of u *)
Due(u) == \E r \in Requests : pc[r] \in Rewarding /\ req[r].referrer = u

(* the referrals that u has been rewarded for *)
Rewarded(u) == Cardinality(ReferralsOf(u)) - (IF Due(u) THEN 1 ELSE 0)

FirstsFit ==
    \A d \in db["details"] : IsDetail(d, d.user) => d.bonus = Capped(Rewarded(d.user))

RewardFits(r) ==
    /\ req[r].new /\ pc[r] \in BeforeDetail \cup {"commit"} =>
        \A f \in db["referrals"] : f.referrer # req[r].user
    /\ pc[r] = "count" => req[r].read \in db["details"]
    /\ pc[r] = "saveDetail" =>
        /\ \E d \in db["details"] : d.id = req[r].read.id /\ d.used = req[r].read.used
        /\ req[r].read.bonus = Cardinality(ReferralsOf(req[r].referrer))
        /\ req[r].read.bonus <= Limit

RewardsInv == ~disturbed => FirstsFit /\ \A r \in Requests : RewardFits(r)

(* Nobody else is to be rewarded for. *)
LEMMA DueOfOne ==
  ASSUME OneAtATime, ~disturbed, NEW r \in Requests, GoesOn(r)
  PROVE  /\ \A q \in Requests \ {r} : pc[q] \notin Steps /\ pc'[q] \notin Steps
         /\ \A u : Due(u) <=> (pc[r] \in Rewarding /\ req[r].referrer = u)
         /\ \A u : Due(u)' <=> (pc'[r] \in Rewarding /\ req'[r].referrer = u)
  <1>1. Rewarding \subseteq Steps
    BY DEF Rewarding, Steps
  <1>2. \A q \in Requests \ {r} : pc[q] \notin Steps /\ pc'[q] \notin Steps
    BY Forward DEF OneAtATime, GoesOn, Alone
  <1> QED BY <1>1, <1>2 DEF Due

(* Referrals are added by CreateReferral only. *)
LEMMA ReferralsChange ==
  ASSUME TypeInv, NEW r \in Requests, GoesOn(r), ~CreatedReferral(r)
  PROVE  db'["referrals"] = db["referrals"]
  <1>1. db'["referrals"] = db["referrals"] \/ db'["referrals"] = db["referrals"] \cup tx[r]["referrals"]
    BY Names DEF GoesOn, InsertedUser, InsertedEmail, InsertedWallet, InsertedGithub,
       InsertedFirstDetail, CheckedCode, InsertedDetail, HasReadDetail, CountedReferrals,
       SavedDetail, MarkedReferred, SavedSecret, SentMail, HasCommitted, RenewedNonce,
       Stops, CreatesIn, DbAdds, Commits
  <1> QED BY <1>1 DEF TypeInv, ReferralsAreFinite

(* Whose detail is unchanged, has the same referrals, and as many to come. *)
LEMMA FirstsStayFit ==
  ASSUME TypeOK, FirstsFit,
         \A e \in db'["details"] : IsDetail(e, e.user)' =>
            \E d \in db["details"] :
                /\ IsDetail(d, d.user) /\ d.user = e.user /\ d.bonus = e.bonus
                /\ Due(e.user)' <=> Due(e.user),
         db'["referrals"] = db["referrals"]
  PROVE  FirstsFit'
  <1> SUFFICES ASSUME NEW CONSTANT e \in db'["details"], IsDetail(e, e.user)'
               PROVE  e.bonus = Capped(Rewarded(e.user))'
    BY DEF FirstsFit
  <1>1. PICK d \in db["details"] :
            /\ IsDetail(d, d.user) /\ d.user = e.user /\ d.bonus = e.bonus
            /\ Due(e.user)' <=> Due(e.user)
    OBVIOUS
  <1>2. d.bonus = Capped(Rewarded(e.user))
    BY <1>1 DEF FirstsFit
  <1>3. ReferralsOf(e.user)' = ReferralsOf(e.user)
    BY DEF ReferralsOf
  <1>4. Rewarded(e.user)' = Rewarded(e.user)
    BY <1>1, <1>3 DEF Rewarded
  <1> QED BY <1>1, <1>2, <1>4 DEF Capped

(* The first details when one of them has been written. *)
LEMMA FirstsAfterWriting ==
  ASSUME TypeOK, DetailsAreUnique, NEW d, NEW e, FirstWritten(d, e)
  PROVE  \A c \in db'["details"] : IsDetail(c, c.user)' =>
            c = e \/ (c \in db["details"] /\ IsDetail(c, c.user) /\ c.user # d.user)
  <1>0. \A c \in db["details"] : c.id \in Nat
    BY Values DEF DetailRows
  <1>1. /\ d \in db["details"] /\ \A c \in db["details"] : c.user = d.user => d.id <= c.id
        /\ e.id = d.id /\ e.user = d.user
        /\ db'["details"] = (db["details"] \ {d}) \cup {e}
    BY DEF FirstWritten, IsDetail, DetailsOf
  <1> SUFFICES ASSUME NEW CONSTANT c \in db'["details"], IsDetail(c, c.user)', c # e
               PROVE  c \in db["details"] /\ IsDetail(c, c.user) /\ c.user # d.user
    OBVIOUS
  <1>2. /\ c \in db["details"] /\ c # d
        /\ \A b \in db'["details"] : b.user = c.user => c.id <= b.id
    BY <1>1 DEF IsDetail, DetailsOf
  <1>3. c.user # d.user
    <2> SUFFICES ASSUME c.user = d.user
                 PROVE  FALSE
      OBVIOUS
    <2>1. c.id <= d.id /\ d.id <= c.id
      BY <1>1, <1>2
    <2>2. c.id = d.id
      BY <1>0, <1>1, <1>2, <2>1
    <2> QED BY <1>1, <1>2, <2>2 DEF DetailsAreUnique
  <1>4. \A b \in db["details"] : b.user = c.user => c.id <= b.id
    BY <1>1, <1>2, <1>3
  <1> QED BY <1>2, <1>3, <1>4 DEF IsDetail, DetailsOf

(* Numbers of rewards. *)
LEMMA CappedNumbers ==
  /\ Capped(0) = 0
  /\ \A n \in Nat : n <= Limit => Capped(n) = n
  /\ \A n \in Nat : Capped(n - 1) = Limit => Capped(n) = Limit
  /\ \A n \in Nat : Capped(n - 1) # Limit => n <= Limit
  BY ConstantsAssumption DEF Capped

(* What a request reads, counts and writes back. *)
LEMMA RewardStaysFit ==
  ASSUME TypeInv, StepInv, IdsInv, DetailIds, ReadInv, OneAtATime, ~disturbed, ~disturbed',
         FirstsFit, NEW r \in Requests, RewardFits(r), GoesOn(r)
  PROVE  RewardFits(r)'
  <1>0. /\ TypeOK /\ StepFits(r) /\ Same(r) /\ nextUser \in Nat
        /\ req[r].read \in DetailRows
        /\ \A f \in db["referrals"] : f.referrer < nextUser /\ f.referrer \in Nat
    BY Values DEF TypeInv, StepInv, IdsInv, Known, GoesOn
  <1>1. CASE InsertedUser(r)
    <2>1. \A f \in db'["referrals"] : f.referrer # req'[r].user
      BY <1>0, <1>1, Names DEF InsertedUser, CreatesIn, DbAdds
    <2> QED BY <1>1, <2>1 DEF InsertedUser, RewardFits
  <1>2. CASE \/ InsertedEmail(r) \/ InsertedWallet(r) \/ InsertedGithub(r)
             \/ InsertedFirstDetail(r) \/ CheckedCode(r) \/ InsertedDetail(r)
    <2>1. /\ pc[r] \in BeforeDetail /\ req'[r].user = req[r].user
          /\ pc'[r] \notin {"count", "saveDetail"}
      BY <1>2 DEF InsertedEmail, InsertedWallet, InsertedGithub, InsertedFirstDetail,
         CheckedCode, InsertedDetail, BeforeDetail
    <2>2. db'["referrals"] = db["referrals"]
      BY <1>2, ReferralsChange DEF InsertedEmail, InsertedWallet, InsertedGithub,
         InsertedFirstDetail, CheckedCode, InsertedDetail, CreatedReferral
    <2>3. req'[r].new = req[r].new
      BY <1>0 DEF Same
    <2> QED BY <2>1, <2>2, <2>3 DEF RewardFits
  <1>3. CASE HasReadDetail(r)
    BY <1>3 DEF HasReadDetail, RewardFits, BeforeDetail
  <1>4. CASE CountedReferrals(r)
    <2>1. PICK d \in db["details"] :
            /\ d.id = req[r].read.id /\ d.user = req[r].read.user
            /\ IsDetail(d, d.user)
      BY <1>4 DEF CountedReferrals, ReadInv, ReadFits
    <2>2. req[r].read = d /\ d.user = req[r].referrer
      BY <1>4, <2>1 DEF CountedReferrals, RewardFits, DetailIds, ReadInv, ReadFits
    <2> DEFINE n == Cardinality(ReferralsOf(req[r].referrer))
    <2>3. Due(req[r].referrer)
      BY <1>4 DEF CountedReferrals, Due, Rewarding
    <2>4. d.bonus = Capped(n - 1) /\ n \in Nat
      BY <2>1, <2>2, <2>3, ReferralsAreCounted DEF FirstsFit, Rewarded
    <2>5. CASE req[r].read.bonus = Limit
      BY <1>4, <2>5 DEF CountedReferrals, RewardFits, BeforeDetail
    <2>6. CASE req[r].read.bonus # Limit
      <3>1. /\ pc'[r] = "saveDetail" /\ db' = db /\ req'[r].referrer = req[r].referrer
            /\ req'[r].read = [req[r].read EXCEPT !.bonus = n]
        BY <1>4, <2>2, <2>6 DEF CountedReferrals
      <3>2. /\ req'[r].read.id = d.id /\ req'[r].read.used = d.used
            /\ req'[r].read.bonus = n
        BY <1>0, <2>2, <3>1 DEF DetailRows
      <3>3. n <= Limit
        BY <2>2, <2>4, <2>6, CappedNumbers
      <3>4. Cardinality(ReferralsOf(req[r].referrer))' = n
        BY <3>1 DEF ReferralsOf
      <3> HIDE DEF n
      <3> QED BY <3>1, <3>2, <3>3, <3>4 DEF RewardFits, BeforeDetail
    <2> QED BY <2>5, <2>6
  <1>5. CASE CreatedReferral(r) \/ SavedDetail(r) \/ SavedSecret(r)
    <2>1. pc'[r] \notin {"count", "saveDetail", "commit"} \cup BeforeDetail
      BY <1>5 DEF CreatedReferral, SavedDetail, SavedSecret, BeforeDetail
    <2> QED BY <2>1 DEF RewardFits
  <1>6. CASE MarkedReferred(r) \/ SentMail(r) \/ HasCommitted(r) \/ RenewedNonce(r) \/ Stops(r)
    <2>1. pc'[r] \notin {"count", "saveDetail", "commit"} \cup BeforeDetail
      BY <1>6 DEF MarkedReferred, SentMail, HasCommitted, RenewedNonce, Stops, Ended, Answered,
         BeforeDetail
    <2> QED BY <2>1 DEF RewardFits
  <1> QED BY <1>1, <1>2, <1>3, <1>4, <1>5, <1>6 DEF GoesOn

(* A reward is added to the detail of the referrer, and to no other. *)
LEMMA FirstsKeepFit ==
  ASSUME TypeInv, StepInv, IdsInv, TxInv, DetailIds, SignUpInv, ReadInv, OneAtATime,
         ~disturbed, ~disturbed', FirstsFit, NEW r \in Requests, RewardFits(r), GoesOn(r)
  PROVE  FirstsFit'
  <1>0. /\ TypeOK /\ DetailsAreUnique /\ StepFits(r)
        /\ \A d \in db["details"] : d.id \in Nat /\ d.user \in Nat
        /\ \A u : Cardinality(ReferralsOf(u)) \in Nat
    BY Values, ReferralsAreCounted
    DEF TypeInv, DetailIds, DetailsAreUnique, StepInv, DetailRows
  <1>1. /\ \A u : Due(u) <=> (pc[r] \in Rewarding /\ req[r].referrer = u)
        /\ \A u : Due(u)' <=> (pc'[r] \in Rewarding /\ req'[r].referrer = u)
    BY DueOfOne
  <1>2. ASSUME db'["details"] = db["details"], db'["referrals"] = db["referrals"],
               \A d \in db["details"] : Due(d.user)' <=> Due(d.user)
        PROVE  FirstsFit'
    <2>1. \A e \in db'["details"] : IsDetail(e, e.user)' => IsDetail(e, e.user)
      BY <1>2 DEF IsDetail, DetailsOf
    <2> QED BY <1>0, <1>2, <2>1, FirstsStayFit
  <1>3. CASE \E N : DetailsAdded(r, N)
    <2>1. PICK N : DetailsAdded(r, N)
      BY <1>3
    <2> DEFINE u == req[r].user
    <2>2. /\ pc[r] \in {"firstDetail", "detail", "commit"} /\ req[r].new
          /\ db'["details"] = db["details"] \cup N
          /\ \A d \in db["details"] : d.user # u
          /\ \A e \in N : e.user = u /\ e.bonus = 0
      BY <2>1 DEF DetailsAdded, DetailsOf
    <2>3. /\ pc[r] \notin Rewarding /\ pc'[r] \notin Rewarding
          /\ db'["referrals"] = db["referrals"]
      <3>1. InsertedFirstDetail(r) \/ InsertedDetail(r) \/ HasCommitted(r) \/ Stops(r)
        BY <2>2 DEF GoesOn, InsertedUser, InsertedEmail, InsertedWallet, InsertedGithub,
           CheckedCode, CreatedReferral, HasReadDetail, CountedReferrals, SavedDetail,
           MarkedReferred, SavedSecret, SentMail, RenewedNonce
      <3>2. pc'[r] \notin Rewarding
        BY <3>1 DEF InsertedFirstDetail, InsertedDetail, HasCommitted, Stops, Ended, Answered,
           Rewarding
      <3> QED BY <2>2, <3>2, ReferralsChange DEF CreatedReferral, Rewarding
    <2>4. \A v : ~Due(v) /\ ~Due(v)'
      BY <1>1, <2>3
    <2>5. \A f \in db'["referrals"] : f.referrer # u
      BY <2>2, <2>3 DEF RewardFits, BeforeDetail
    <2> SUFFICES ASSUME NEW CONSTANT e \in db'["details"], IsDetail(e, e.user)'
                 PROVE  e.bonus = Capped(Rewarded(e.user))'
      BY DEF FirstsFit
    <2>6. CASE e \in N
      <3>1. ReferralsOf(e.user)' = {}
        BY <2>2, <2>5, <2>6 DEF ReferralsOf
      <3>2. Rewarded(e.user)' = 0
        BY <2>4, <3>1, FS_EmptySet DEF Rewarded
      <3> QED BY <2>2, <2>6, <3>2, CappedNumbers DEF Capped
    <2>7. CASE e \in db["details"]
      <3>1. IsDetail(e, e.user)
        BY <2>2, <2>7 DEF IsDetail, DetailsOf
      <3>2. e.bonus = Capped(Rewarded(e.user))
        BY <2>7, <3>1 DEF FirstsFit
      <3>3. ReferralsOf(e.user)' = ReferralsOf(e.user)
        BY <2>3 DEF ReferralsOf
      <3>4. Rewarded(e.user)' = Rewarded(e.user)
        BY <2>4, <3>3 DEF Rewarded
      <3> QED BY <3>2, <3>4 DEF Capped
    <2> QED BY <2>2, <2>6, <2>7
  <1>4. ASSUME NEW d \in db["details"], d.id = req[r].read.id, FirstWritten(d, req[r].read),
               pc[r] = "saveDetail"
        PROVE  FirstsFit'
    <2> DEFINE v == req[r].referrer
    <2>1. SavedDetail(r)
      <3>1. ~Stops(r)
        BY <1>4 DEF Stops
      <3> QED BY <1>4, <3>1 DEF GoesOn, InsertedUser, InsertedEmail, InsertedWallet,
           InsertedGithub, InsertedFirstDetail, CheckedCode, InsertedDetail, CreatedReferral,
           HasReadDetail, CountedReferrals, MarkedReferred, SavedSecret, SentMail,
           HasCommitted, RenewedNonce
    <2>2. /\ db'["referrals"] = db["referrals"] /\ pc'[r] = "mail" /\ req' = req
      BY <2>1, Names DEF SavedDetail
    <2>3. /\ req[r].read.user = v /\ d.user = v
          /\ req[r].read.bonus = Cardinality(ReferralsOf(v)) /\ req[r].read.bonus <= Limit
      BY <1>4 DEF ReadInv, ReadFits, RewardFits, FirstWritten
    <2>4. \A u : ~Due(u)' /\ (Due(u) => u = v)
      BY <1>1, <2>2 DEF Rewarding
    <2> SUFFICES ASSUME NEW CONSTANT e \in db'["details"], IsDetail(e, e.user)'
                 PROVE  e.bonus = Capped(Rewarded(e.user))'
      BY DEF FirstsFit
    <2>5. ReferralsOf(e.user)' = ReferralsOf(e.user)
      BY <2>2 DEF ReferralsOf
    <2>6. Rewarded(e.user)' = Cardinality(ReferralsOf(e.user))
      BY <1>0, <2>4, <2>5 DEF Rewarded
    <2>7. CASE e = req[r].read
      BY <1>0, <2>3, <2>6, <2>7, CappedNumbers DEF Capped
    <2>8. CASE e \in db["details"] /\ IsDetail(e, e.user) /\ e.user # d.user
      <3>1. Rewarded(e.user) = Cardinality(ReferralsOf(e.user))
        BY <1>0, <2>3, <2>4, <2>8 DEF Rewarded
      <3>2. e.bonus = Capped(Rewarded(e.user))
        BY <2>8 DEF FirstsFit
      <3> QED BY <2>6, <3>1, <3>2 DEF Capped
    <2> QED BY <1>0, <1>4, <2>7, <2>8, FirstsAfterWriting
  <1>5. CASE db'["details"] = db["details"] /\ CreatedReferral(r)
    <2> DEFINE v == req[r].referrer
               new == [referrer |-> v, referred |-> req[r].user, detail |-> req[r].detail]
    <2>1. /\ pc[r] = "referral" /\ pc'[r] = "readDetail" /\ req' = req
          /\ db'["referrals"] = db["referrals"] \cup {new}
      BY <1>5 DEF CreatedReferral, DbAdds
    <2>2. new.referrer = v /\ new.referred = req[r].user
      OBVIOUS
    <2> HIDE DEF new
    <2>3. \A u : ~Due(u) /\ (Due(u)' <=> u = v)
      BY <1>1, <2>1 DEF Rewarding
    <2>4. new \notin db["referrals"]
      <3>1. req[r].new
        BY <1>0, <2>1 DEF StepFits, SignUpSteps
      <3> QED BY <2>1, <2>2, <3>1 DEF SignUpInv, ReferralFits
    <2> SUFFICES ASSUME NEW CONSTANT e \in db'["details"], IsDetail(e, e.user)'
                 PROVE  e.bonus = Capped(Rewarded(e.user))'
      BY DEF FirstsFit
    <2>5. e.bonus = Capped(Rewarded(e.user))
      BY <1>5 DEF FirstsFit, IsDetail, DetailsOf
    <2>6. CASE e.user = v
      <3>1. ReferralsOf(e.user)' = ReferralsOf(e.user) \cup {new} /\ new \notin ReferralsOf(e.user)
        BY <2>1, <2>2, <2>4, <2>6 DEF ReferralsOf
      <3>2. Cardinality(ReferralsOf(e.user)') = Cardinality(ReferralsOf(e.user)) + 1
        BY <3>1, ReferralsAreCounted, FS_AddElement
      <3>3. Rewarded(e.user)' = Rewarded(e.user)
        BY <1>0, <2>3, <2>6, <3>2 DEF Rewarded
      <3> QED BY <2>5, <3>3 DEF Capped
    <2>7. CASE e.user # v
      <3>1. ReferralsOf(e.user)' = ReferralsOf(e.user)
        BY <2>1, <2>2, <2>7 DEF ReferralsOf
      <3>2. Rewarded(e.user)' = Rewarded(e.user)
        BY <2>3, <2>7, <3>1 DEF Rewarded
      <3> QED BY <2>5, <3>2 DEF Capped
    <2> QED BY <2>6, <2>7
  <1>6. CASE db'["details"] = db["details"] /\ CountedReferrals(r) /\ pc'[r] = "mail"
    <2> DEFINE v == req[r].referrer
    <2>1. /\ pc[r] = "count" /\ req' = req /\ db' = db /\ req[r].read.bonus = Limit
          /\ req[r].read \in db["details"] /\ req[r].read.user = v
          /\ IsDetail(req[r].read, v)
      <3>1. pc[r] = "count" /\ req' = req /\ db' = db /\ req[r].read.bonus = Limit
        BY <1>6 DEF CountedReferrals
      <3>2. req[r].read \in db["details"] /\ req[r].read.user = v
        BY <3>1 DEF RewardFits, ReadInv, ReadFits
      <3>3. PICK d \in db["details"] : d.id = req[r].read.id /\ IsDetail(d, d.user)
        BY <3>1 DEF ReadInv, ReadFits
      <3>4. d = req[r].read
        BY <3>2, <3>3 DEF DetailIds
      <3> QED BY <3>1, <3>2, <3>3, <3>4
    <2>2. \A u : ~Due(u)' /\ (Due(u) <=> u = v)
      BY <1>1, <1>6, <2>1 DEF Rewarding
    <2> SUFFICES ASSUME NEW CONSTANT e \in db'["details"], IsDetail(e, e.user)'
                 PROVE  e.bonus = Capped(Rewarded(e.user))'
      BY DEF FirstsFit
    <2>3. IsDetail(e, e.user) /\ ReferralsOf(e.user)' = ReferralsOf(e.user)
      BY <2>1 DEF IsDetail, DetailsOf, ReferralsOf
    <2>4. e.bonus = Capped(Rewarded(e.user)) /\ e \in db["details"]
      BY <1>6, <2>3 DEF FirstsFit
    <2>5. Rewarded(e.user)' = Cardinality(ReferralsOf(e.user))
      BY <1>0, <2>2, <2>3 DEF Rewarded
    <2>6. CASE e.user = v
      <3>1. e = req[r].read
        <4>1. e.id <= req[r].read.id /\ req[r].read.id <= e.id
          BY <2>1, <2>3, <2>4, <2>6 DEF IsDetail, DetailsOf
        <4>2. e.id = req[r].read.id
          BY <1>0, <2>1, <2>4, <4>1
        <4> QED BY <1>0, <2>1, <2>4, <4>2 DEF DetailsAreUnique
      <3>2. Capped(Cardinality(ReferralsOf(e.user)) - 1) = Limit
        BY <2>1, <2>2, <2>4, <2>6, <3>1 DEF Rewarded
      <3>3. Capped(Cardinality(ReferralsOf(e.user))) = Limit
        BY <1>0, <3>2, CappedNumbers
      <3> QED BY <2>1, <2>5, <3>1, <3>3 DEF Capped
    <2>7. CASE e.user # v
      <3>1. Rewarded(e.user) = Cardinality(ReferralsOf(e.user))
        BY <1>0, <2>2, <2>7 DEF Rewarded
      <3> QED BY <2>4, <2>5, <3>1 DEF Capped
    <2> QED BY <2>6, <2>7
  <1>7. CASE /\ db'["details"] = db["details"] /\ ~CreatedReferral(r)
             /\ ~(CountedReferrals(r) /\ pc'[r] = "mail")
    <2>1. db'["referrals"] = db["referrals"]
      BY <1>7, ReferralsChange
    <2>2. CASE HasReadDetail(r) \/ CountedReferrals(r)
      <3>1. /\ pc[r] \in Rewarding /\ pc'[r] \in Rewarding
            /\ req'[r].referrer = req[r].referrer
        BY <1>7, <2>2 DEF HasReadDetail, CountedReferrals, Rewarding
      <3> QED BY <1>1, <1>2, <1>7, <2>1, <3>1
    <2>3. CASE Stops(r)
      <3>1. /\ pc[r] \notin {"count", "saveDetail"} /\ pc'[r] \notin Rewarding
            /\ pc[r] = "readDetail" => \A d \in db["details"] : d.user # req[r].referrer
        BY <2>3 DEF Stops, Rewarding, Ended, Answered, DetailsOf
      <3>2. \A d \in db["details"] : ~Due(d.user) /\ ~Due(d.user)'
        BY <1>1, <3>1 DEF Rewarding
      <3> QED BY <1>2, <1>7, <2>1, <3>2
    <2>4. CASE SavedDetail(r)
      <3>1. PICK d \in db["details"] :
              /\ d.id = req[r].read.id /\ d.user = req[r].read.user /\ d.by = req[r].read.by
              /\ IsDetail(d, d.user)
        BY <2>4 DEF SavedDetail, ReadInv, ReadFits
      <3>2. pc[r] = "saveDetail" /\ req[r].read \in DetailRows
        BY <2>4, Values DEF SavedDetail, TypeInv
      <3>3. db'["details"] = {IF e.id = req[r].read.id THEN req[r].read ELSE e : e \in db["details"]}
        BY <2>4 DEF SavedDetail
      <3>4. \A e \in db["details"] : e.id = req[r].read.id <=> e = d
        BY <1>0, <3>1 DEF DetailsAreUnique
      <3>5. db'["details"] = (db["details"] \ {d}) \cup {req[r].read}
        BY <3>1, <3>3, <3>4
      <3>6. FirstWritten(d, req[r].read)
        BY <3>1, <3>2, <3>5 DEF FirstWritten
      <3> QED BY <1>4, <3>1, <3>2, <3>6
    <2>5. CASE ~HasReadDetail(r) /\ ~CountedReferrals(r) /\ ~Stops(r) /\ ~SavedDetail(r)
      <3>1. pc[r] \notin Rewarding /\ pc'[r] \notin Rewarding
        BY <1>7, <2>5 DEF GoesOn, InsertedUser, InsertedEmail, InsertedWallet, InsertedGithub,
           InsertedFirstDetail, CheckedCode, InsertedDetail, MarkedReferred, SavedSecret,
           SentMail, HasCommitted, RenewedNonce, Rewarding
      <3> QED BY <1>1, <1>2, <1>7, <2>1, <3>1
    <2> QED BY <2>2, <2>3, <2>4, <2>5
  <1> QED BY <1>3, <1>4, <1>5, <1>6, <1>7, DetailsChange

(* Arrivals add nothing to what is due. *)
LEMMA RewardsAfterArrival ==
  ASSUME TypeInv, RewardsInv, ~disturbed, NEW r \in Requests, Comes(r),
         ComesToSignUp(r) \/ ComesToSignIn(r) \/ ComesToRead(r)
  PROVE  FirstsFit' /\ \A q \in Requests : RewardFits(q)'
  <1>1. /\ db' = db /\ pc[r] = "idle"
        /\ \A q \in Requests \ {r} : pc'[q] = pc[q] /\ req'[q] = req[q]
        /\ FirstsFit /\ \A q \in Requests : RewardFits(q)
    BY DEF Comes, RewardsInv
  <1>2. /\ pc'[r] \notin Rewarding /\ pc'[r] \notin BeforeDetail
        /\ req'[r].new => pc'[r] # "commit"
    BY DEF ComesToSignUp, ComesToSignIn, ComesToRead, Rewarding, BeforeDetail
  <1>3. \A u : Due(u)' <=> Due(u)
    BY <1>1, <1>2 DEF Due, Rewarding
  <1>4. \A e \in db'["details"] : IsDetail(e, e.user)' => IsDetail(e, e.user)
    BY <1>1 DEF IsDetail, DetailsOf
  <1>5. FirstsFit'
    BY <1>1, <1>3, <1>4, FirstsStayFit DEF TypeInv
  <1>6. RewardFits(r)'
    BY <1>2 DEF RewardFits, Rewarding
  <1>7. ASSUME NEW q \in Requests \ {r}
        PROVE  RewardFits(q)'
    <2>1. RewardFits(q)
      BY <1>1
    <2> QED BY <1>1, <2>1 DEF RewardFits, ReferralsOf
  <1> QED BY <1>5, <1>6, <1>7

(* While requests come one after the other, referral storage is what is due. *)
LEMMA RewardsInvStays ==
  ASSUME TypeInv, StepInv, IdsInv, TxInv, DetailIds, SignUpInv, ReadInv, OneAtATime,
         RewardsInv, Next
  PROVE  RewardsInv'
  <1> SUFFICES ASSUME ~disturbed'
               PROVE  FirstsFit' /\ \A q \in Requests : RewardFits(q)'
    BY DEF RewardsInv
  <1>1. TypeOK /\ ~disturbed /\ FirstsFit /\ \A q \in Requests : RewardFits(q)
    BY Effects DEF ValuesFit, RewardsInv, TypeInv
  <1>2. ASSUME NEW r \in Requests, Comes(r),
               ComesToSignUp(r) \/ ComesToSignIn(r) \/ ComesToRead(r)
        PROVE  FirstsFit' /\ \A q \in Requests : RewardFits(q)'
    BY <1>1, <1>2, RewardsAfterArrival
  <1>3. ASSUME NEW r \in Requests, GoesOn(r)
        PROVE  FirstsFit' /\ \A q \in Requests : RewardFits(q)'
    <2>1. FirstsFit'
      BY <1>1, <1>3, FirstsKeepFit
    <2>2. RewardFits(r)'
      BY <1>1, <1>3, RewardStaysFit
    <2>3. ASSUME NEW q \in Requests \ {r}
          PROVE  RewardFits(q)'
      <3>1. pc'[q] \notin Steps
        BY <1>1, <1>3, DueOfOne
      <3>2. BeforeDetail \cup {"commit", "count", "saveDetail"} \subseteq Steps
        BY DEF BeforeDetail, Steps
      <3> QED BY <3>1, <3>2 DEF RewardFits
    <2> QED BY <2>1, <2>2, <2>3
  <1>4. CASE Uploaded
    <2>1. /\ UNCHANGED <<pc, req>> /\ db'["referrals"] = db["referrals"]
          /\ \A q \in Requests : pc[q] \notin Steps
      BY <1>4, Names DEF Uploaded, InFlight
    <2>2. PICK d \in db["details"], e \in DetailRows :
            FirstWritten(d, e) /\ e.bonus = d.bonus
      BY <1>1, <1>4, UploadWrites
    <2>3. /\ DetailsAreUnique /\ IsDetail(d, d.user) /\ e.user = d.user
      BY <2>2 DEF DetailIds, DetailsAreUnique, FirstWritten
    <2>4. \A u : Due(u)' <=> Due(u)
      BY <2>1 DEF Due
    <2>5. FirstsFit'
      <3>1. \A c \in db'["details"] : IsDetail(c, c.user)' =>
              \E b \in db["details"] :
                IsDetail(b, b.user) /\ b.user = c.user /\ b.bonus = c.bonus
        BY <1>1, <2>2, <2>3, FirstsAfterWriting
      <3> QED BY <1>1, <2>1, <2>4, <3>1, FirstsStayFit
    <2>6. BeforeDetail \cup {"commit", "count", "saveDetail"} \subseteq Steps
      BY DEF BeforeDetail, Steps
    <2>7. \A q \in Requests : RewardFits(q)'
      BY <2>1, <2>6 DEF RewardFits
    <2> QED BY <2>5, <2>7
  <1>5. CASE Crashed
    BY <1>5 DEF Crashed
  <1> QED BY <1>2, <1>3, <1>4, <1>5, Effects

(* When nobody is under way, nothing is due. *)
LEMMA RewardsAreExact ==
  ASSUME RewardsInv, TypeInv
  PROVE  BonusIsExact
  <1> SUFFICES ASSUME ~disturbed, InFlight = {}, NEW CONSTANT u,
                      NEW d \in db["details"], d.user = u, IsDetail(d, u)
               PROVE  d.bonus = IF Cardinality(ReferralsOf(u)) < Limit
                                THEN Cardinality(ReferralsOf(u)) ELSE Limit
    BY DEF BonusIsExact
  <1>1. ~Due(u)
    BY DEF Due, InFlight, Rewarding, Steps
  <1>2. Cardinality(ReferralsOf(u)) \in Nat
    BY ReferralsAreCounted
  <1>3. Rewarded(u) = Cardinality(ReferralsOf(u))
    BY <1>1, <1>2 DEF Rewarded
  <1>4. d.bonus = Capped(Rewarded(u))
    BY DEF RewardsInv, FirstsFit
  <1> QED BY <1>3, <1>4 DEF Capped

(* What a detail has been charged is not lost. *)
LEMMA ChargesStay ==
  ASSUME TypeInv, StepInv, IdsInv, TxInv, DetailIds, SignUpInv, ReadInv, RewardsInv, Next,
         ~disturbed'
  PROVE  \A d \in db["details"] : \E e \in db'["details"] :
            e.id = d.id /\ e.user = d.user /\ e.used >= d.used
  <1>1. /\ TypeOK /\ \A q \in Requests : RewardFits(q)
        /\ \A d \in db["details"] : d.used \in Nat
    BY Effects, Values DEF ValuesFit, RewardsInv, TypeInv, DetailRows
  <1>2. ASSUME NEW d \in db["details"], NEW e, FirstWritten(d, e), e.used >= d.used
        PROVE  \A c \in db["details"] : \E b \in db'["details"] :
                  b.id = c.id /\ b.user = c.user /\ b.used >= c.used
    BY <1>1, <1>2 DEF FirstWritten
  <1>3. CASE db'["details"] = db["details"]
    BY <1>1, <1>3
  <1>4. ASSUME NEW r \in Requests, GoesOn(r)
        PROVE  \A d \in db["details"] : \E e \in db'["details"] :
                  e.id = d.id /\ e.user = d.user /\ e.used >= d.used
    <2>1. ASSUME NEW N, DetailsAdded(r, N)
          PROVE  \A d \in db["details"] : \E e \in db'["details"] :
                    e.id = d.id /\ e.user = d.user /\ e.used >= d.used
      BY <1>1, <2>1 DEF DetailsAdded
    <2>2. ASSUME pc[r] = "saveDetail", NEW d \in db["details"], d.id = req[r].read.id,
                 FirstWritten(d, req[r].read)
          PROVE  req[r].read.used >= d.used
      <3>1. PICK c \in db["details"] : c.id = req[r].read.id /\ c.used = req[r].read.used
        BY <1>1, <2>2 DEF RewardFits
      <3>2. c = d
        BY <2>2, <3>1 DEF DetailIds
      <3> QED BY <1>1, <3>1, <3>2
    <2> QED BY <1>2, <1>3, <1>4, <2>1, <2>2, DetailsChange
  <1>5. CASE Uploaded
    <2>1. PICK d \in db["details"], e \in DetailRows : FirstWritten(d, e) /\ e.used = d.used + 1
      BY <1>1, <1>5, UploadWrites
    <2>2. e.used >= d.used
      BY <1>1, <2>1
    <2> QED BY <1>2, <2>1, <2>2
  <1> QED BY <1>3, <1>4, <1>5, Effects DEF Comes, Crashed

-----------------------------------------------------------------------------
(* The first state                                                         *)

OldReferral(n) == [referrer |-> 1, referred |-> n, detail |-> OldDetailId(n)]

(* Users at the start have the numbers from 1 on. *)
LEMMA OldUsersAreNumbered ==
  /\ Len(OldUsers) \in Nat /\ DOMAIN OldUsers = 1..Len(OldUsers)
  /\ \A n \in DOMAIN OldUsers : n \in Nat /\ OldUsers[n] \in Addresses
  /\ Referred = 2..Len(OldUsers)
  <1>1. OldUsers \in Seq(Addresses)
    BY ConstantsAssumption
  <1>2. Len(OldUsers) \in Nat /\ DOMAIN OldUsers = 1..Len(OldUsers)
    BY <1>1
  <1> QED BY <1>1, <1>2 DEF Referred

(* The detail of a user at the start. *)
LEMMA OldDetails ==
  ASSUME NEW n \in DOMAIN OldUsers
  PROVE  /\ OldDetailId(n) \in Nat /\ OldDetailId(n) <= Len(OldUsers)
         /\ OldDetail(n) \in DetailRows
         /\ OldDetail(n).id = OldDetailId(n) /\ OldDetail(n).user = n
         /\ n > 1 => OldDetail(n).by = 1 /\ OldDetail(n).bonus = 0
         /\ n = 1 => OldDetail(n).bonus = Capped(Len(OldUsers) - 1)
         /\ OldDetail(n).used = 0
  <1>0. /\ Len(OldUsers) \in Nat /\ n \in 1..Len(OldUsers) /\ Limit \in Nat
    BY OldUsersAreNumbered, ConstantsAssumption
  <1> DEFINE bonus == CASE n > 1 -> 0
                        [] n = 1 /\ Len(OldUsers) <= Limit -> Len(OldUsers) - 1
                        [] OTHER -> Limit
             by == IF n > 1 THEN 1 ELSE 0
             d == Detail(OldDetailId(n), n, by)
  <1>1. OldDetailId(n) \in Nat /\ OldDetailId(n) <= Len(OldUsers)
    BY <1>0 DEF OldDetailId
  <1>2. /\ bonus \in Nat /\ (n > 1 => bonus = 0)
        /\ n = 1 => bonus = Capped(Len(OldUsers) - 1)
    BY <1>0 DEF Capped
  <1>3. by \in Nat /\ (n > 1 => by = 1)
    OBVIOUS
  <1>4. OldDetail(n) = [d EXCEPT !.bonus = bonus]
    BY DEF OldDetail
  <1> HIDE DEF bonus, by
  <1>5. d \in DetailRows /\ d.id = OldDetailId(n) /\ d.user = n /\ d.by = by /\ d.used = 0
    BY <1>0, <1>1, <1>3, NewDetail
  <1> HIDE DEF d
  <1>6. [d EXCEPT !.bonus = bonus] \in DetailRows
    BY <1>2, <1>5 DEF DetailRows
  <1>7. /\ [d EXCEPT !.bonus = bonus].id = d.id /\ [d EXCEPT !.bonus = bonus].user = d.user
        /\ [d EXCEPT !.bonus = bonus].by = d.by /\ [d EXCEPT !.bonus = bonus].used = d.used
        /\ [d EXCEPT !.bonus = bonus].bonus = bonus
    BY <1>5 DEF DetailRows
  <1> QED BY <1>1, <1>2, <1>3, <1>4, <1>5, <1>6, <1>7

(* All users but the first have been referred. *)
LEMMA OldReferralsAreCounted ==
  LET S == {OldReferral(n) : n \in Referred} IN
    IsFiniteSet(S) /\ (1 \in DOMAIN OldUsers => Cardinality(S) = Len(OldUsers) - 1)
  <1> DEFINE S == {OldReferral(n) : n \in Referred}
             f == [n \in Referred |-> OldReferral(n)]
  <1>1. \A m, n : OldReferral(m) = OldReferral(n) => m = n
    BY DEF OldReferral
  <1>2. f \in Bijection(Referred, S)
    <2>1. f \in [Referred -> S] /\ \A s \in S : \E n \in Referred : f[n] = s
      OBVIOUS
    <2>2. \A m, n \in Referred : f[m] = f[n] => m = n
      BY <1>1
    <2> QED BY <2>1, <2>2 DEF Bijection, Injection, Surjection, IsInjective
  <1>3. ExistsBijection(Referred, S)
    BY <1>2 DEF ExistsBijection
  <1>4. /\ IsFiniteSet(Referred)
        /\ 1 \in DOMAIN OldUsers => Cardinality(Referred) = Len(OldUsers) - 1
    <2>1. /\ IsFiniteSet(2..Len(OldUsers))
          /\ Cardinality(2..Len(OldUsers)) =
                IF 2 > Len(OldUsers) THEN 0 ELSE Len(OldUsers) - 2 + 1
      BY FS_Interval, OldUsersAreNumbered
    <2> QED BY <2>1, OldUsersAreNumbered
  <1> HIDE DEF S, f
  <1>5. IsFiniteSet(S) /\ Cardinality(S) = Cardinality(Referred)
    BY <1>3, <1>4, FS_Bijection
  <1> QED BY <1>4, <1>5 DEF S

(* The tables at the start. *)
LEMMA InitRows ==
  ASSUME Init
  PROVE  /\ db = [t \in Tables |-> db[t]]
         /\ db["users"] = DOMAIN OldUsers
         /\ db["emails"] = {} /\ db["githubs"] = {} /\ db["referred_users"] = {}
         /\ db["wallets"] = {[address |-> OldUsers[n], nonce |-> 0, user |-> n] :
                             n \in DOMAIN OldUsers}
         /\ db["details"] = {OldDetail(n) : n \in DOMAIN OldUsers}
         /\ db["referrals"] = {OldReferral(n) : n \in Referred}
         /\ \A r \in Requests : tx[r] = NoRows /\ pc[r] = "idle"
         /\ nextUser = Len(OldUsers) + 1 /\ nextDetail = Len(OldUsers) + 1
         /\ mailed = {} /\ disturbed = FALSE /\ faults = 0
  <1> DEFINE U == DOMAIN OldUsers
             W == {[address |-> OldUsers[n], nonce |-> 0, user |-> n] : n \in DOMAIN OldUsers}
             D == {OldDetail(n) : n \in DOMAIN OldUsers}
             R == {OldReferral(n) : n \in Referred}
  <1>1. db = [NoRows EXCEPT !["users"] = U, !["wallets"] = W, !["details"] = D,
                            !["referrals"] = R]
    BY DEF Init, OldReferral
  <1> HIDE DEF U, W, D, R
  <1>2. /\ db = [t \in Tables |-> db[t]] /\ db["users"] = U /\ db["wallets"] = W
        /\ db["details"] = D /\ db["referrals"] = R /\ db["emails"] = {}
        /\ db["githubs"] = {} /\ db["referred_users"] = {}
    BY <1>1, Names DEF NoRows
  <1>3. /\ \A r \in Requests : tx[r] = NoRows /\ pc[r] = "idle"
        /\ nextUser = Len(OldUsers) + 1 /\ nextDetail = Len(OldUsers) + 1
        /\ mailed = {} /\ disturbed = FALSE /\ faults = 0
    BY DEF Init
  <1> QED BY <1>2, <1>3 DEF U, W, D, R

(* The requests at the start. *)
LEMMA InitRequests ==
  ASSUME Init
  PROVE  /\ req \in [Requests -> RequestType]
         /\ \A r \in Requests : /\ ~req[r].new /\ ~req[r].wallet /\ req[r].kind = "none"
                                /\ req[r].user = 0 /\ req[r].referrer = 0
  <1> DEFINE q == Request("none", Nobody, Nobody, Nobody, Nobody)
  <1>1. req = [r \in Requests |-> q]
    BY DEF Init
  <1>2. /\ q \in RequestType /\ q.new = FALSE /\ q.wallet = FALSE /\ q.kind = "none"
        /\ q.user = 0 /\ q.referrer = 0
    BY NoDetailIsTyped DEF Request, RequestType, Kinds, Codes
  <1> HIDE DEF q
  <1> QED BY <1>1, <1>2

(* The types at the start. *)
LEMMA InitTypes ==
  ASSUME Init
  PROVE  TypeInv
  <1> USE InitRows, OldUsersAreNumbered
  <1>1. /\ \A d \in db["details"] : d \in DetailRows
        /\ \A w \in db["wallets"] : w \in [address : Addresses, nonce : Nat, user : Nat]
        /\ \A f \in db["referrals"] : f \in [referrer : Nat, referred : Nat, detail : Nat]
    <2>1. \A f \in db["referrals"] : f \in [referrer : Nat, referred : Nat, detail : Nat]
      BY OldDetails DEF OldReferral, Referred
    <2> QED BY <2>1, OldDetails
  <1>2. RowsOK(db)
    <2>1. DOMAIN db = Tables
      OBVIOUS
    <2>2. db["users"] \subseteq Nat
      OBVIOUS
    <2> QED BY <1>1, <2>1, <2>2 DEF RowsOK
  <1>3. tx = [r \in Requests |-> NoRows]
    BY DEF Init
  <1>4. RowsOK(NoRows)
    BY Names, NothingInserted DEF RowsOK, NoRows
  <1>5. /\ DOMAIN tx = Requests
        /\ \A r \in Requests : tx[r] = [t \in Tables |-> tx[r][t]] /\ RowsOK(tx[r])
    BY <1>3, <1>4, NothingInserted
  <1>6. pc \in [Requests -> {"idle"} \cup Steps \cup Ended]
    BY DEF Init
  <1>7. TypeOK
    BY <1>2, <1>5, <1>6, InitRequests DEF TypeOK, RequestType
  <1>8. ReferralsAreFinite
    BY Names, OldReferralsAreCounted DEF ReferralsAreFinite
  <1> QED BY <1>7, <1>8 DEF TypeInv

(* Details and referrals at the start. *)
LEMMA InitDetails ==
  ASSUME Init
  PROVE  /\ DetailIds /\ OneDetailCounts /\ BonusIsBacked /\ ReferralsMatchDetails
         /\ \A d, e \in db["details"] : d.user = e.user => d = e
  <1> USE InitRows, OldUsersAreNumbered
  <1>0. /\ \A d \in db["details"] : d.id = OldDetailId(d.user) /\ d = OldDetail(d.user)
                                    /\ d.user \in DOMAIN OldUsers
        /\ \A n \in DOMAIN OldUsers : OldDetail(n) \in db["details"]
    BY OldDetails
  <1>1. \A d, e \in db["details"] : d.user = e.user => d = e
    BY <1>0
  <1>2. \A m, n \in DOMAIN OldUsers : OldDetailId(m) = OldDetailId(n) => m = n
    BY DEF OldDetailId
  <1>3. DetailIds
    <2>1. \A d, e \in db["details"] : d.id = e.id => d = e
      BY <1>0, <1>1, <1>2
    <2>2. \A r \in Requests : tx[r]["details"] = {}
      BY Names
    <2> QED BY <2>1, <2>2 DEF DetailIds
  <1>4. OneDetailCounts
    <2>1. \A d \in db["details"] : d.id \in Nat
      BY OldDetails
    <2>2. \A d \in db["details"] : ~(d.id < d.id)
      BY <2>1
    <2> QED BY <1>1, <2>2 DEF OneDetailCounts
  <1>5. BonusIsBacked
    <2> SUFFICES ASSUME NEW d \in db["details"]
                 PROVE  d.bonus <= Cardinality(ReferralsOf(d.user))
      BY DEF BonusIsBacked
    <2>1. TypeInv
      BY InitTypes
    <2>2. Cardinality(ReferralsOf(d.user)) \in Nat /\ Limit \in Nat
      BY <2>1, ReferralsAreCounted, ConstantsAssumption
    <2>3. CASE d.user = 1
      <3>1. ReferralsOf(1) = {OldReferral(n) : n \in Referred}
        BY DEF ReferralsOf, OldReferral
      <3>2. Cardinality(ReferralsOf(d.user)) = Len(OldUsers) - 1
        BY <1>0, <2>3, <3>1, OldReferralsAreCounted
      <3>3. d.bonus = Capped(Len(OldUsers) - 1)
        BY <1>0, <2>3, OldDetails
      <3> QED BY <2>2, <3>2, <3>3 DEF Capped
    <2>4. CASE d.user # 1
      <3>1. d.bonus = 0
        BY <1>0, <2>4, OldDetails
      <3> QED BY <2>2, <3>1
    <2> QED BY <2>3, <2>4
  <1>6. ReferralsMatchDetails
    <2>1. ASSUME NEW f \in db["referrals"]
          PROVE  \E d \in db["details"] :
                    d.id = f.detail /\ d.user = f.referred /\ d.by = f.referrer
      <3>1. PICK n \in Referred : f = OldReferral(n)
        OBVIOUS
      <3>2. n \in DOMAIN OldUsers /\ n > 1
        BY DEF Referred
      <3>3. /\ OldDetail(n) \in db["details"] /\ OldDetail(n).id = f.detail
            /\ OldDetail(n).user = f.referred /\ OldDetail(n).by = f.referrer
        BY <1>0, <3>1, <3>2, OldDetails DEF OldReferral
      <3> QED BY <3>3
    <2>2. \A f, g \in db["referrals"] : f.referred = g.referred => f = g
      BY DEF OldReferral
    <2> QED BY <2>1, <2>2 DEF ReferralsMatchDetails
  <1> QED BY <1>1, <1>3, <1>4, <1>5, <1>6

(* Nothing is due at the start. *)
LEMMA InitRewards ==
  ASSUME Init
  PROVE  RewardsInv
  <1>1. \A r \in Requests : RewardFits(r)
    BY InitRows DEF RewardFits, BeforeDetail
  <1>2. \A u : ~Due(u)
    BY InitRows DEF Due, Rewarding
  <1>3. FirstsFit
    <2> SUFFICES ASSUME NEW d \in db["details"]
                 PROVE  d.bonus = Capped(Rewarded(d.user))
      BY DEF FirstsFit
    <2>1. PICK n \in DOMAIN OldUsers : d = OldDetail(n)
      BY InitRows
    <2>2. d.user = n
      BY <2>1, OldDetails
    <2>3. Cardinality(ReferralsOf(n)) \in Nat /\ Len(OldUsers) \in Nat /\ n \in Nat /\ n # 0
      BY InitTypes, ReferralsAreCounted, OldUsersAreNumbered
    <2>4. Rewarded(n) = Cardinality(ReferralsOf(n))
      BY <1>2, <2>3 DEF Rewarded
    <2>5. CASE n = 1
      <3>1. ReferralsOf(1) = {OldReferral(m) : m \in Referred}
        BY InitRows DEF ReferralsOf, OldReferral
      <3>2. Cardinality(ReferralsOf(n)) = Len(OldUsers) - 1
        BY <2>5, <3>1, OldReferralsAreCounted
      <3>3. d.bonus = Capped(Len(OldUsers) - 1)
        BY <2>1, <2>5, OldDetails
      <3> QED BY <2>2, <2>4, <3>2, <3>3
    <2>6. CASE n > 1
      <3>1. ReferralsOf(n) = {}
        BY <2>6, InitRows DEF ReferralsOf, OldReferral
      <3>2. Cardinality(ReferralsOf(n)) = 0
        BY <3>1, FS_EmptySet
      <3>3. d.bonus = 0
        BY <2>1, <2>6, OldDetails
      <3> QED BY <2>2, <2>4, <3>2, <3>3, CappedNumbers
    <2> QED BY <2>3, <2>5, <2>6
  <1> QED BY <1>1, <1>3 DEF RewardsInv

-----------------------------------------------------------------------------
(* The inductive invariant                                                 *)

(* what the rows and the requests are *)
RowsInv ==
    /\ TypeInv /\ StepInv /\ IdsInv /\ OwnersDiffer /\ TxInv /\ DetailIds
    /\ SignUpInv /\ ReadInv /\ OneDetailCounts

(* who has been let in *)
LetInInv ==
    /\ AnsweredSignUpsAreWhole /\ EmailsInv /\ WalletsInv /\ UnseenInv
    /\ TokenHoldersHaveWallet

(* what referrals are worth *)
CountInv == BonusIsBacked /\ ReferralsMatchDetails

(* what holds while requests come one after the other *)
CalmInv == BeginInOrder /\ OneAtATime /\ NewestInv /\ RewardsInv

IndInv == RowsInv /\ LetInInv /\ CountInv /\ CalmInv

(* The first state satisfies the invariant. *)
LEMMA InitInv == Init => IndInv
  <1> SUFFICES ASSUME Init
               PROVE  IndInv
    OBVIOUS
  <1> USE InitRows, InitRequests
  <1>0. /\ TypeInv /\ DetailIds /\ OneDetailCounts /\ BonusIsBacked /\ ReferralsMatchDetails
        /\ RewardsInv
    BY InitTypes, InitDetails, InitRewards
  <1>1. StepInv
    BY DEF StepInv, StepFits, KindFits, KeysFit, SignUpSteps, BeforeDetail, Rewarding
  <1>2. IdsInv
    <2>1. \A d \in db["details"] : d.user \in DOMAIN OldUsers /\ d.id \in Nat
                                   /\ d.id <= Len(OldUsers)
      BY OldDetails
    <2>2. \A f \in db["referrals"] : f.referrer = 1 /\ f.referred \in DOMAIN OldUsers
                                     /\ 1 \in DOMAIN OldUsers
      BY OldUsersAreNumbered DEF OldReferral
    <2>3. \A w \in db["wallets"] : w.user \in DOMAIN OldUsers
      OBVIOUS
    <2>4. \A n \in DOMAIN OldUsers : Known(n)
      BY OldUsersAreNumbered DEF Known
    <2>5. "idle" \notin Steps
      BY DEF Steps
    <2> QED BY <2>1, <2>2, <2>3, <2>4, <2>5, OldUsersAreNumbered DEF IdsInv
  <1>3. OwnersDiffer /\ UnseenInv
    BY DEF OwnersDiffer, UnseenInv
  <1>4. TxInv
    BY Names DEF TxInv, TxFits
  <1>5. SignUpInv /\ ReadInv
    BY DEF SignUpInv, UserFits, DetailFits, MarkFits, ReferralFits, ReadInv, ReadFits
  <1>6. AnsweredSignUpsAreWhole
    BY DEF AnsweredSignUpsAreWhole
  <1>7. EmailsInv
    BY DEF EmailsInv, EmailRows, MailFits, Steps
  <1>8. WalletsInv
    BY DEF WalletsInv, WalletFits
  <1>9. TokenHoldersHaveWallet
    BY DEF TokenHoldersHaveWallet, TokenHolders, Answered
  <1>10. BeginInOrder /\ OneAtATime
    BY DEF BeginInOrder, OneAtATime, Steps
  <1>11. NewestInv
    BY DEF NewestInv, NonceFits, SecretFits, Steps
  <1> QED BY <1>0, <1>1, <1>2, <1>3, <1>4, <1>5, <1>6, <1>7, <1>8, <1>9, <1>10, <1>11
          DEF IndInv, RowsInv, LetInInv, CountInv, CalmInv

(* A step that changes nothing. *)
LEMMA StutterKeeps ==
  ASSUME IndInv, UNCHANGED vars
  PROVE  IndInv'
  <1> USE DEF vars
  <1>1. TypeInv'
    BY DEF IndInv, RowsInv, TypeInv, TypeOK, ReferralsAreFinite
  <1>2. StepInv' /\ IdsInv' /\ OwnersDiffer' /\ TxInv' /\ DetailIds'
    BY DEF IndInv, RowsInv, StepInv, StepFits, KindFits, KeysFit, IdsInv, Known, OwnersDiffer,
       TxInv, TxFits, InTx, DetailIds
  <1>3. SignUpInv' /\ ReadInv' /\ OneDetailCounts'
    BY DEF IndInv, RowsInv, SignUpInv, UserFits, DetailFits, MarkFits, ReferralFits, ReadInv,
       ReadFits, OneDetailCounts, HasWallet, DetailsOf, IsDetail, ReferralsOf
  <1>4. LetInInv'
    BY DEF IndInv, LetInInv, AnsweredSignUpsAreWhole, SignedUp, EmailsInv, EmailRows, MailFits,
       WalletsInv, WalletFits, UnseenInv, TokenHoldersHaveWallet, TokenHolders, HasWallet,
       DetailsOf, UsersOfEmail
  <1>5. CountInv'
    BY DEF IndInv, CountInv, BonusIsBacked, ReferralsMatchDetails, ReferralsOf
  <1>6. CalmInv'
    BY DEF IndInv, CalmInv, BeginInOrder, OneAtATime, NewestInv, NonceFits, SecretFits,
       RewardsInv, FirstsFit, RewardFits, Rewarded, Due, IsDetail, DetailsOf, ReferralsOf
  <1> QED BY <1>1, <1>2, <1>3, <1>4, <1>5, <1>6 DEF IndInv, RowsInv

(* Every step keeps the invariant, conjunct by conjunct. *)
LEMMA NextKeeps ==
  ASSUME IndInv, Next
  PROVE  IndInv'
  <1> USE DEF IndInv, RowsInv, LetInInv, CountInv, CalmInv
  <1>1. TypeInv' /\ TypeOK
    BY TypeStays DEF TypeInv
  <1>2. StepInv'
    BY StepInvStays, OnlyCodesRefer
  <1>3. IdsInv'
    BY <1>1, IdsInvStays, ReadIsKnown
  <1>4. OwnersDiffer' /\ TxInv' /\ DetailIds' /\ OneDetailCounts'
    BY OwnersStayDifferent, TxInvStays, DetailIdsStay, DetailsKeep
  <1>5. SignUpInv' /\ ReadInv'
    BY <1>1, SignUpInvStays, ReadInvStays
  <1>6. AnsweredSignUpsAreWhole'
    BY AnswersAreWhole
  <1>7. EmailsInv' /\ WalletsInv' /\ UnseenInv' /\ TokenHoldersHaveWallet'
    BY EmailsInvStays, WalletsInvStays, UnseenInvStays, TokenHoldersKeepWallet
  <1>8. BonusIsBacked' /\ ReferralsMatchDetails'
    BY <1>1, BonusStaysBacked, ReferralsStayMatched
  <1>9. BeginInOrder' /\ OneAtATime' /\ NewestInv' /\ RewardsInv'
    BY OrderStays, NewestStays, RewardsInvStays
  <1> QED BY <1>1, <1>2, <1>3, <1>4, <1>5, <1>6, <1>7, <1>8, <1>9

(* The invariant always holds. *)
LEMMA AlwaysIndInv == Spec => []IndInv
  <1>1. IndInv /\ [Next]_vars => IndInv'
    BY NextKeeps, StutterKeeps
  <1> QED BY <1>1, InitInv, PTL DEF Spec

-----------------------------------------------------------------------------
(* Who has been let in can go on (otp_auth.go, oauth.go, nonce.go): a token
   holder has a wallet, the rows of an answered sign-up are there, one detail
   stands for a user, the newest nonce or code is accepted.  However many
   requests overlap, fail, or are cut off by a crash.  *)
THEOREM SignUpsHold == Spec => []SignUpsInv
  <1>1. IndInv => SignUpsInv
    BY NewestAreAccepted DEF IndInv, RowsInv, LetInInv, CalmInv, TypeInv, SignUpsInv
  <1> QED BY <1>1, AlwaysIndInv, PTL

(* Referral storage is never more than the referrals that back it, a referral
   is the one that the detail of its user names, and requests that come one
   after the other are counted exactly (query/referral.go,
   UpdateReferralStorage).  *)
THEOREM ReferralsHold == Spec => []ReferralsInv
  <1>1. IndInv => ReferralsInv
    BY RewardsAreExact DEF IndInv, RowsInv, CountInv, CalmInv, ReferralsInv
  <1> QED BY <1>1, AlwaysIndInv, PTL

(* UpdateReferralStorage, which writes all columns of the row that it has read,
   takes no charged storage back unless requests overlap or fail.  *)
THEOREM ChargesHold == Spec => StorageUsedIsKept
  <1> DEFINE Kept == disturbed' \/ \A d \in db["details"] : \E e \in db'["details"] :
                        e.id = d.id /\ e.user = d.user /\ e.used >= d.used
  <1>1. IndInv /\ Next => Kept
    BY ChargesStay DEF IndInv, RowsInv, CalmInv
  <1>2. IndInv /\ [Next]_vars => [Kept]_vars
    BY <1>1
  <1> QED BY <1>2, AlwaysIndInv, PTL DEF Spec, StorageUsedIsKept
=============================================================================
