-------------------------- MODULE ApiKeyFilesProofs --------------------------
(* The files of API keys, for any users, contents, sizes and kinds of requests:
   their list, rows and objects, what the requests leave behind, the counters
   of the keys and the storage.  *)
EXTENDS ApiKeyFiles, FiniteSetTheorems, WellFoundedInduction, TLAPS

-----------------------------------------------------------------------------
(* Sums over finite sets, from the definition that the community modules give
   them; and the induction over finite sets that they need.                *)

(* Every non-empty set of natural numbers has a least element. *)
LEMMA LeastNumber ==
  ASSUME NEW S \in SUBSET Nat, S # {}
  PROVE  \E n \in S : \A m \in S : n <= m
  <1>1. IsWellFoundedOn(OpToRel(<, Nat), Nat)
    BY NatLessThanWellFounded
  <1>2. PICK n \in S : \A m \in S : ~ (<<m, n>> \in OpToRel(<, Nat))
    BY <1>1, WFMin
  <1>3. \A m \in S : ~(m < n)
    BY <1>2 DEF OpToRel
  <1> QED BY <1>3

(* Induction over the subsets of a finite set: what holds of a set if it holds
   of the set less any one element, holds of the set.  *)
LEMMA SubsetInduction ==
  ASSUME NEW S, IsFiniteSet(S), NEW Good,
         \A T \in SUBSET S : (\A x \in T : T \ {x} \in Good) => T \in Good
  PROVE  \A T \in SUBSET S : T \in Good
  <1> DEFINE Bad == {T \in SUBSET S : T \notin Good}
             Sizes == {Cardinality(T) : T \in Bad}
  <1> SUFFICES ASSUME Bad # {} PROVE FALSE
    OBVIOUS
  <1>1. \A T \in SUBSET S : IsFiniteSet(T) /\ Cardinality(T) \in Nat
    BY FS_Subset, FS_CardinalityType
  <1>2. Sizes \in SUBSET Nat /\ Sizes # {}
    BY <1>1
  <1>3. PICK n \in Sizes : \A m \in Sizes : n <= m
    <2> HIDE DEF Sizes
    <2> QED BY <1>2, LeastNumber
  <1>4. PICK T \in Bad : Cardinality(T) = n
    BY <1>3
  <1>5. PICK x \in T : T \ {x} \notin Good
    BY <1>4
  <1>6. T \ {x} \in Bad
    BY <1>4, <1>5
  <1>7. Cardinality(T \ {x}) = n - 1
    BY <1>1, <1>4, <1>5, FS_RemoveElement
  <1>8. n \in Nat /\ n <= n - 1
    BY <1>2, <1>3, <1>6, <1>7
  <1> QED BY <1>8

(* iter adds up fun over each subset of S, as SumFunctionOnSet does it *)
Adds(iter, fun, S) ==
  iter = [s \in SUBSET S |-> IF s = {} THEN 0
            ELSE LET x == CHOOSE x \in s : TRUE IN fun[x] + iter[s \ {x}]]

LEMMA SumIs == ASSUME NEW fun, NEW S
  PROVE SumFunctionOnSet(fun, S) = (CHOOSE iter : Adds(iter, fun, S))[S]
  BY DEF SumFunctionOnSet, FoldFunctionOnSet, MapThenFoldSet, Adds

(* Such an iter exists: it is built for sets of 0, 1, ... elements. *)
LEMMA SumExists ==
  ASSUME NEW fun, NEW S, IsFiniteSet(S)
  PROVE  \E iter : Adds(iter, fun, S)
  <1> DEFINE Small(n) == {s \in SUBSET S : Cardinality(s) <= n}
             First(s) == CHOOSE x \in s : TRUE
             IsSum(h, n) == h = [s \in Small(n) |-> IF s = {} THEN 0
                                   ELSE fun[First(s)] + h[s \ {First(s)}]]
             Known == {n \in Nat : \E h : IsSum(h, n)}
  <1>1. \A T \in SUBSET S : /\ IsFiniteSet(T) /\ Cardinality(T) \in Nat
                            /\ Cardinality(T) <= Cardinality(S)
    BY FS_Subset, FS_CardinalityType
  <1>2. 0 \in Known
    <2>1. \A s \in Small(0) : s = {}
      BY <1>1, FS_EmptySet
    <2>2. IsSum([s \in Small(0) |-> 0], 0)
      BY <2>1
    <2> QED BY <2>2
  <1>3. ASSUME NEW n \in Known PROVE n + 1 \in Known
    <2>1. PICK h : IsSum(h, n)
      OBVIOUS
    <2> DEFINE g == [s \in Small(n + 1) |-> IF s = {} THEN 0
                       ELSE fun[First(s)] + h[s \ {First(s)}]]
    <2>2. ASSUME NEW s \in Small(n + 1), s # {}
          PROVE  /\ s \ {First(s)} \in Small(n)
                 /\ s \ {First(s)} \in Small(n + 1)
      <3>1. First(s) \in s
        BY <2>2
      <3>2. Cardinality(s \ {First(s)}) = Cardinality(s) - 1
        BY <1>1, <3>1, FS_RemoveElement
      <3>3. Cardinality(s) \in Nat /\ n \in Nat
        BY <1>1
      <3> QED BY <3>2, <3>3
    <2>3. \A s \in Small(n) : s \in Small(n + 1) /\ g[s] = h[s]
      <3>1. \A s \in Small(n) : s \in Small(n + 1)
        BY <1>1
      <3>2. \A s \in Small(n) : h[s] = IF s = {} THEN 0 ELSE fun[First(s)] + h[s \ {First(s)}]
        BY <2>1
      <3> HIDE DEF Small, First
      <3> QED BY <3>1, <3>2
    <2>4. IsSum(g, n + 1)
      <3> HIDE DEF Small, First
      <3>1. \A s \in Small(n + 1) : g[s] = IF s = {} THEN 0 ELSE fun[First(s)] + g[s \ {First(s)}]
        BY <2>2, <2>3
      <3> QED BY <3>1
    <2>5. \E k : IsSum(k, n + 1)
      BY <2>4
    <2>6. n + 1 \in Nat
      OBVIOUS
    <2> HIDE DEF IsSum
    <2> QED BY <2>5, <2>6
  <1>4. Cardinality(S) \in Known
    <2> HIDE DEF Known
    <2> SUFFICES ASSUME Nat \ Known # {} PROVE FALSE
      BY <1>1
    <2>1. PICK n \in Nat \ Known : \A m \in Nat \ Known : n <= m
      BY LeastNumber
    <2>2. n # 0
      BY <1>2, <2>1
    <2>3. n - 1 \in Nat /\ ~(n <= n - 1)
      BY <2>1, <2>2
    <2>4. n - 1 \in Known
      BY <2>1, <2>3
    <2>5. (n - 1) + 1 \in Known
      BY <1>3, <2>4
    <2>6. n \in Known
      BY <2>1, <2>5
    <2> QED BY <2>1, <2>6
  <1>5. Small(Cardinality(S)) = SUBSET S
    BY <1>1
  <1>6. PICK h : IsSum(h, Cardinality(S))
    BY <1>4
  <1>7. Adds(h, fun, S)
    BY <1>5, <1>6 DEF Adds
  <1> QED BY <1>7

(* What iter says of a set does not depend on the set that it was built for. *)
LEMMA SumsAgree ==
  ASSUME NEW fun, NEW S, IsFiniteSet(S), NEW T \in SUBSET S,
         NEW h, Adds(h, fun, S), NEW g, Adds(g, fun, T)
  PROVE  h[T] = g[T]
  <1> DEFINE Good == {s \in SUBSET T : h[s] = g[s]}
  <1>1. ASSUME NEW s \in SUBSET T, \A x \in s : s \ {x} \in Good
        PROVE  s \in Good
    <2>1. CASE s = {}
      BY <2>1 DEF Adds
    <2>2. CASE s # {}
      <3> DEFINE x == CHOOSE x \in s : TRUE
      <3>1. x \in s
        BY <2>2
      <3>2. h[s] = fun[x] + h[s \ {x}]
        BY <2>2 DEF Adds
      <3>3. g[s] = fun[x] + g[s \ {x}]
        BY <2>2 DEF Adds
      <3>4. h[s \ {x}] = g[s \ {x}]
        BY <1>1, <3>1
      <3> QED BY <3>2, <3>3, <3>4
    <2> QED BY <2>1, <2>2
  <1>2. IsFiniteSet(T)
    BY FS_Subset
  <1>3. T \in Good
    <2> HIDE DEF Good
    <2> QED BY <1>1, <1>2, SubsetInduction
  <1> QED BY <1>3

(* A sum over no elements, and one over the elements that CHOOSE takes first. *)
LEMMA SumUnfolds ==
  ASSUME NEW fun, NEW S, IsFiniteSet(S)
  PROVE  /\ S = {} => SumFunctionOnSet(fun, S) = 0
         /\ S # {} => LET x == CHOOSE x \in S : TRUE
                      IN  SumFunctionOnSet(fun, S)
                            = fun[x] + SumFunctionOnSet(fun, S \ {x})
  <1> DEFINE h == CHOOSE iter : Adds(iter, fun, S)
             x == CHOOSE x \in S : TRUE
             g == CHOOSE iter : Adds(iter, fun, S \ {x})
  <1>1. Adds(h, fun, S)
    BY SumExists
  <1>2. Adds(g, fun, S \ {x})
    <2>1. IsFiniteSet(S \ {x})
      BY FS_RemoveElement
    <2> QED BY <2>1, SumExists
  <1>3. h[S \ {x}] = g[S \ {x}]
    <2> HIDE DEF h, g, x
    <2> QED BY <1>1, <1>2, SumsAgree
  <1>4. SumFunctionOnSet(fun, S) = h[S] /\ SumFunctionOnSet(fun, S \ {x}) = g[S \ {x}]
    BY SumIs
  <1>5. h[S] = IF S = {} THEN 0 ELSE fun[x] + h[S \ {x}]
    <2> HIDE DEF h
    <2> QED BY <1>1 DEF Adds
  <1> HIDE DEF h, g
  <1> QED BY <1>3, <1>4, <1>5

(* A sum of natural numbers is one. *)
LEMMA SumIsNatural ==
  ASSUME NEW S, IsFiniteSet(S), NEW fun, \A x \in S : fun[x] \in Nat
  PROVE  SumFunctionOnSet(fun, S) \in Nat
  <1> DEFINE Good == {T \in SUBSET S : SumFunctionOnSet(fun, T) \in Nat}
  <1>1. ASSUME NEW T \in SUBSET S, \A x \in T : T \ {x} \in Good
        PROVE  T \in Good
    <2>1. IsFiniteSet(T)
      BY FS_Subset
    <2>2. CASE T = {}
      <3>1. SumFunctionOnSet(fun, T) = 0
        BY <2>1, <2>2, SumUnfolds
      <3> QED BY <3>1
    <2>3. CASE T # {}
      <3> DEFINE x == CHOOSE x \in T : TRUE
      <3>1. x \in T
        BY <2>3
      <3>2. SumFunctionOnSet(fun, T) = fun[x] + SumFunctionOnSet(fun, T \ {x})
        BY <2>1, <2>3, SumUnfolds
      <3>3. fun[x] \in Nat /\ SumFunctionOnSet(fun, T \ {x}) \in Nat
        BY <1>1, <3>1
      <3> QED BY <3>2, <3>3
    <2> QED BY <2>2, <2>3
  <1> HIDE DEF Good
  <1>2. \A T \in SUBSET S : T \in Good
    BY <1>1, SubsetInduction
  <1>3. S \in Good
    BY <1>2
  <1> QED BY <1>3 DEF Good

(* Any element may be added last. *)
LEMMA SumWithout ==
  ASSUME NEW S, IsFiniteSet(S), NEW fun, \A x \in S : fun[x] \in Nat, NEW x \in S
  PROVE  SumFunctionOnSet(fun, S) = fun[x] + SumFunctionOnSet(fun, S \ {x})
  <1> DEFINE Sum(T) == SumFunctionOnSet(fun, T)
             Good == {T \in SUBSET S : \A y \in T : Sum(T) = fun[y] + Sum(T \ {y})}
  <1>1. \A T \in SUBSET S : IsFiniteSet(T) /\ Sum(T) \in Nat
    BY FS_Subset, SumIsNatural
  <1>2. ASSUME NEW T \in SUBSET S, \A y \in T : T \ {y} \in Good
        PROVE  T \in Good
    <2> SUFFICES ASSUME NEW y \in T PROVE Sum(T) = fun[y] + Sum(T \ {y})
      OBVIOUS
    <2> DEFINE z == CHOOSE z \in T : TRUE
    <2>1. z \in T
      OBVIOUS
    <2>2. Sum(T) = fun[z] + Sum(T \ {z})
      BY <1>1, SumUnfolds
    <2> HIDE DEF z
    <2>3. CASE y = z
      BY <2>2, <2>3
    <2>4. CASE y # z
      <3> DEFINE a == Sum((T \ {y}) \ {z})
      <3>1. (T \ {z}) \ {y} = (T \ {y}) \ {z}
        OBVIOUS
      <3>2. Sum(T \ {z}) = fun[y] + a
        BY <1>2, <2>1, <2>4, <3>1
      <3>3. Sum(T \ {y}) = fun[z] + a
        BY <1>2, <2>1, <2>4
      <3>4. a \in Nat /\ fun[y] \in Nat /\ fun[z] \in Nat
        BY <1>1, <2>1
      <3> HIDE DEF Sum, a
      <3> QED BY <2>2, <3>2, <3>3, <3>4
    <2> QED BY <2>3, <2>4
  <1> HIDE DEF Good, Sum
  <1>3. \A T \in SUBSET S : T \in Good
    BY <1>2, SubsetInduction
  <1>4. S \in Good
    BY <1>3
  <1> QED BY <1>4 DEF Good, Sum

(* A sum depends on the summands alone. *)
LEMMA SumOfSame ==
  ASSUME NEW S, IsFiniteSet(S), NEW fun, NEW other, \A x \in S : fun[x] = other[x]
  PROVE  SumFunctionOnSet(fun, S) = SumFunctionOnSet(other, S)
  <1> DEFINE Good == {T \in SUBSET S :
                        SumFunctionOnSet(fun, T) = SumFunctionOnSet(other, T)}
  <1>1. ASSUME NEW T \in SUBSET S, \A x \in T : T \ {x} \in Good
        PROVE  T \in Good
    <2>1. IsFiniteSet(T)
      BY FS_Subset
    <2>2. CASE T = {}
      BY <2>1, <2>2, SumUnfolds
    <2>3. CASE T # {}
      <3> DEFINE x == CHOOSE x \in T : TRUE
      <3>1. x \in T
        BY <2>3
      <3>2. SumFunctionOnSet(fun, T) = fun[x] + SumFunctionOnSet(fun, T \ {x})
        BY <2>1, <2>3, SumUnfolds
      <3>3. SumFunctionOnSet(other, T) = other[x] + SumFunctionOnSet(other, T \ {x})
        BY <2>1, <2>3, SumUnfolds
      <3>4. fun[x] = other[x] /\ SumFunctionOnSet(fun, T \ {x}) = SumFunctionOnSet(other, T \ {x})
        BY <1>1, <3>1
      <3> QED BY <3>2, <3>3, <3>4
    <2> QED BY <2>2, <2>3
  <1> HIDE DEF Good
  <1>2. \A T \in SUBSET S : T \in Good
    BY <1>1, SubsetInduction
  <1>3. S \in Good
    BY <1>2
  <1> QED BY <1>3 DEF Good

(* The values of a function on a finite set are finitely many. *)
LEMMA ImageIsFinite ==
  ASSUME NEW S, IsFiniteSet(S), NEW fun
  PROVE  IsFiniteSet({fun[x] : x \in S})
  <1> DEFINE T == {fun[x] : x \in S}
             h == [x \in S |-> fun[x]]
  <1>1. h \in [S -> T] /\ \A t \in T : \E x \in S : h[x] = t
    OBVIOUS
  <1>2. h \in Surjection(S, T)
    BY <1>1 DEF Surjection
  <1> HIDE DEF h
  <1> QED BY <1>2, FS_Surjection

(* The sum of two sets that share nothing. *)
LEMMA SumOfBoth ==
  ASSUME NEW S, IsFiniteSet(S), NEW R, IsFiniteSet(R), S \cap R = {},
         NEW fun, \A x \in S \cup R : fun[x] \in Nat
  PROVE  SumFunctionOnSet(fun, S \cup R)
            = SumFunctionOnSet(fun, S) + SumFunctionOnSet(fun, R)
  <1> DEFINE Sum(T) == SumFunctionOnSet(fun, T)
             Good == {T \in SUBSET R : Sum(S \cup T) = Sum(S) + Sum(T)}
  <1>1. \A T \in SUBSET R : /\ IsFiniteSet(T) /\ IsFiniteSet(S \cup T)
                            /\ Sum(T) \in Nat /\ Sum(S \cup T) \in Nat
    BY FS_Subset, FS_Union, SumIsNatural
  <1>2. Sum(S) \in Nat
    BY SumIsNatural
  <1>3. ASSUME NEW T \in SUBSET R, \A x \in T : T \ {x} \in Good
        PROVE  T \in Good
    <2>1. CASE T = {}
      <3>1. Sum(T) = 0 /\ S \cup T = S
        BY <1>1, <2>1, SumUnfolds
      <3> HIDE DEF Sum
      <3>2. Sum(S \cup T) = Sum(S)
        BY <3>1
      <3>3. Sum(S \cup T) = Sum(S) + Sum(T)
        BY <1>2, <3>1, <3>2
      <3> QED BY <3>3
    <2>2. ASSUME NEW x \in T PROVE T \in Good
      <3>1. x \notin S /\ (S \cup T) \ {x} = S \cup (T \ {x})
        BY <2>2
      <3>2. Sum(T) = fun[x] + Sum(T \ {x})
        BY <1>1, SumWithout
      <3>3. \A y \in S \cup T : fun[y] \in Nat
        OBVIOUS
      <3>4. Sum(S \cup T) = fun[x] + Sum((S \cup T) \ {x})
        BY <1>1, <3>3, SumWithout
      <3>5. Sum(S \cup (T \ {x})) = Sum(S) + Sum(T \ {x})
        BY <1>3
      <3>6. fun[x] \in Nat /\ Sum(T \ {x}) \in Nat
        BY <1>1
      <3> HIDE DEF Sum
      <3>7. Sum(S \cup T) = Sum(S) + Sum(T)
        BY <1>2, <3>1, <3>2, <3>4, <3>5, <3>6
      <3> QED BY <3>7
    <2> QED BY <2>1, <2>2
  <1> HIDE DEF Good, Sum
  <1>4. \A T \in SUBSET R : T \in Good
    BY <1>3, SubsetInduction
  <1>5. R \in Good
    BY <1>4
  <1> QED BY <1>5 DEF Good, Sum

-----------------------------------------------------------------------------
(* Where a request is, for its kind, and what its transaction holds        *)

(* the kinds that are about a file that is there *)
Finding == {"delete", "update", "download"}

KindsAt(step) ==
    CASE step = "file" -> {"create"}
      [] step \in {"object", "readUsed", "rows"} -> {"delete"}
      [] step \in {"writeUsed", "commit"} -> {"create", "delete"}
      [] step = "find" -> {"delete", "update", "download"}
      [] step = "save" -> {"update"}
      [] step = "fetch" -> {"download"}
      [] step = "list" -> {"list"}
      [] step = "idle" -> {"none"}
      [] OTHER -> AllKinds

StepFits(r) ==
    /\ req[r].kind \in KindsAt(pc[r])
    /\ req[r].kind \in Finding =>
         req[r].file \in Files /\ row[req[r].file].state # "none"

(* after the row has been found *)
Found == {"object", "readUsed", "writeUsed", "rows", "save", "fetch", "commit"}

TxFits(r) ==
    /\ pc[r] = "idle" \/ ~tx[r].open => tx[r] = NoTx
    /\ tx[r].inserted # {} => req[r].kind = "create"
    /\ tx[r].used # NoWrite => pc[r] \in {"rows", "commit"}
    /\ tx[r].deleted # {} => /\ pc[r] = "commit" /\ req[r].kind = "delete"
                             /\ tx[r].deleted = {req[r].file}
    /\ req[r].kind = "delete" /\ pc[r] \in Found => tx[r].open

StepInv ==
    /\ \A r \in Requests : StepFits(r) /\ TxFits(r)
    /\ \A f \in uploads : req[f[1]].kind = "create"

-----------------------------------------------------------------------------
(* Types                                                                   *)

ReqType == [kind : AllKinds \cup {"none"}, user : Users, contents : SUBSET Contents,
            todo : SUBSET Contents, file : Files \cup {NoFile}, size : Nat, seen : Nat]
TxType == [open : BOOLEAN, inserted : SUBSET Files, deleted : SUBSET Files,
           used : Nat \cup {NoWrite}]

ContentsAreFinite == \A r \in Requests : IsFiniteSet(req[r].contents)

TypeInv == TypeOK /\ ContentsAreFinite

(* The variables that are functions of requests. *)
LEMMA Types ==
  ASSUME TypeOK
  PROVE  /\ req \in [Requests -> ReqType] /\ tx \in [Requests -> TxType]
         /\ pc \in [Requests -> {"idle"} \cup Steps \cup Ended]
  BY DEF TypeOK, ReqType, TxType

(* Empty transactions. *)
LEMMA TxTypes == /\ NoTx \in TxType /\ NewTx \in TxType
                 /\ NoTx = [open |-> FALSE, inserted |-> {}, deleted |-> {}, used |-> NoWrite]
                 /\ NewTx = [open |-> TRUE, inserted |-> {}, deleted |-> {}, used |-> NoWrite]
  <1>1. NoTx = [open |-> FALSE, inserted |-> {}, deleted |-> {}, used |-> NoWrite]
    BY DEF NoTx
  <1>2. NewTx = [open |-> TRUE, inserted |-> {}, deleted |-> {}, used |-> NoWrite]
    <2>1. NewTx \in [open : {TRUE}, inserted : {{}}, deleted : {{}}, used : {NoWrite}]
      BY DEF NewTx, NoTx
    <2> QED BY <2>1
  <1> QED BY <1>1, <1>2 DEF TxType

(* Everything starts with a value of its type. *)
LEMMA InitTypeInv == Init => TypeInv
  <1> SUFFICES ASSUME Init PROVE TypeInv
    OBVIOUS
  <1>1. (CHOOSE u \in Users : TRUE) \in Users
    BY ConstantsAssumption
  <1> DEFINE q == Request("none", CHOOSE u \in Users : TRUE, {}, NoFile, 0)
  <1>2. q \in ReqType /\ q.contents = {}
    BY <1>1 DEF Request, ReqType
  <1> HIDE DEF q
  <1>3. req = [r \in Requests |-> q]
    BY DEF Init, q
  <1>4. ContentsAreFinite
    BY <1>2, <1>3, FS_EmptySet DEF ContentsAreFinite
  <1>5. req \in [Requests -> ReqType] /\ tx \in [Requests -> TxType]
    BY <1>2, <1>3, TxTypes DEF Init
  <1>6. TypeOK
    BY <1>5, ConstantsAssumption DEF Init, TypeOK, ReqType, TxType, Row
  <1> QED BY <1>4, <1>6 DEF TypeInv

(* r begins as the request q with the transaction t *)
Begun(r, q, t) ==
    /\ pc[r] = "idle" /\ pc' = [pc EXCEPT ![r] = "readKey"]
    /\ req' = [req EXCEPT ![r] = q] /\ tx' = [tx EXCEPT ![r] = t]
    /\ q.kind \in AllKinds /\ q.todo = q.contents /\ q.seen = 0
    /\ q.kind = "create" => q.contents \in Uploads[q.user]
    /\ q.kind # "create" => q.contents = {}
    /\ q.kind \in Finding => /\ q.file \in Files /\ row[q.file].state # "none"
                             /\ q.user = UserOf(q.file)
    /\ ~Resizes /\ q.kind = "update" => q.size = row[q.file].size
    /\ q.kind \in {"create", "update"} <=> t = NewTx
    /\ calm' = (calm /\ InFlight = {})
    /\ UNCHANGED <<row, permission, listed, used, counted, objects, uploads, lost,
                   faults>>

(* A request begins with the fields of its kind, and nothing else happens. *)
LEMMA Arrival ==
  ASSUME TypeOK, NEW r \in Requests, Arrives(r)
  PROVE  \E q \in ReqType, t \in {NoTx, NewTx} : Begun(r, q, t)
  <1>1. NoTx # NewTx
    BY TxTypes
  <1>2. \A f \in Files : f[1] \in Requests /\ UserOf(f) \in Users
    BY Types DEF Files, UserOf, ReqType
  <1> USE DEF Begun, Begins, Goes, rows, Request, ReqType, AllKinds, Finding
  <1>3. ASSUME NEW u \in Users, NEW cs \in Uploads[u], FileCreate(r, u, cs)
        PROVE  \E q \in ReqType, t \in {NoTx, NewTx} : Begun(r, q, t)
    <2>1. cs \in SUBSET Contents
      BY ConstantsAssumption
    <2>2. Request("create", u, cs, NoFile, 0) \in ReqType
      BY <2>1
    <2>3. Begun(r, Request("create", u, cs, NoFile, 0), NewTx)
      BY <1>3, <2>1 DEF FileCreate
    <2> QED BY <2>2, <2>3
  <1>4. ASSUME NEW u \in Users, GetFiles(r, u)
        PROVE  \E q \in ReqType, t \in {NoTx, NewTx} : Begun(r, q, t)
    <2>1. Request("list", u, {}, NoFile, 0) \in ReqType
      OBVIOUS
    <2>2. Begun(r, Request("list", u, {}, NoFile, 0), NoTx)
      BY <1>1, <1>4 DEF GetFiles
    <2> QED BY <2>1, <2>2
  <1>5. ASSUME NEW f \in Files, DeleteFile(r, f)
        PROVE  \E q \in ReqType, t \in {NoTx, NewTx} : Begun(r, q, t)
    <2>1. Request("delete", UserOf(f), {}, f, 0) \in ReqType
      BY <1>2
    <2>2. Begun(r, Request("delete", UserOf(f), {}, f, 0), NoTx)
      BY <1>1, <1>5 DEF DeleteFile
    <2> QED BY <2>1, <2>2
  <1>6. ASSUME NEW f \in Files, DownloadFile(r, f)
        PROVE  \E q \in ReqType, t \in {NoTx, NewTx} : Begun(r, q, t)
    <2>1. Request("download", UserOf(f), {}, f, 0) \in ReqType
      BY <1>2
    <2>2. Begun(r, Request("download", UserOf(f), {}, f, 0), NoTx)
      BY <1>1, <1>6 DEF DownloadFile
    <2> QED BY <2>1, <2>2
  <1>7. ASSUME NEW f \in Files, NEW c \in Contents, FileUpdate(r, f, SizeOf[c])
        PROVE  \E q \in ReqType, t \in {NoTx, NewTx} : Begun(r, q, t)
    <2>1. SizeOf[c] \in Nat
      BY ConstantsAssumption
    <2> DEFINE n == SizeOf[c]
    <2>2. n \in Nat
      BY <2>1
    <2>3. FileUpdate(r, f, n)
      BY <1>7
    <2> HIDE DEF n
    <2>4. Request("update", UserOf(f), {}, f, n) \in ReqType
      BY <1>2, <2>2
    <2>5. Begun(r, Request("update", UserOf(f), {}, f, n), NewTx)
      BY <2>3 DEF FileUpdate
    <2> QED BY <2>4, <2>5
  <1> QED BY <1>3, <1>4, <1>5, <1>6, <1>7 DEF Arrives

(* A statement of r that fails: how the request goes on. *)
LEMMA Failure ==
  ASSUME NEW r \in Requests, StatementFails(r)
  PROVE  /\ pc[r] \in Steps \ {"commit"} /\ calm' = FALSE /\ faults' = faults + 1
         /\ faults < MaxFaults
         /\ \/ /\ pc[r] \in {"readKey", "saveKey"} /\ tx' = tx
               /\ pc' = [pc EXCEPT ![r] = AfterKey(r)]
            \/ pc[r] = "object" /\ tx' = tx /\ pc' = [pc EXCEPT ![r] = "readUsed"]
            \/ /\ pc[r] = "save" /\ pc' = [pc EXCEPT ![r] = "ok"]
               /\ tx' = [tx EXCEPT ![r] = NoTx]
            \/ /\ \/ pc' = [pc EXCEPT ![r] = "left"]
                  \/ pc' = [pc EXCEPT ![r] = "failed"]
               /\ pc[r] \notin {"readKey", "saveKey", "object", "save"}
               /\ tx' \in {tx, [tx EXCEPT ![r] = NoTx]}
               /\ pc[r] = "rows" => tx' = [tx EXCEPT ![r] = NoTx]
         /\ req' = [req EXCEPT ![r].seen = 0]
         /\ UNCHANGED <<row, permission, listed, used, counted, objects, uploads, lost>>
  BY DEF StatementFails, Fault, Goes, Rollback, DeleteFails, Forgets, rows, Steps

(* A commit of r that fails, which r does not notice. *)
LEMMA CommitLost ==
  ASSUME TypeOK, NEW r \in Requests, CommitFails(r)
  PROVE  /\ pc[r] = "commit" /\ pc'[r] = "ok" /\ tx'[r] = NoTx
         /\ \A q \in Requests \ {r} : pc'[q] = pc[q] /\ tx'[q] = tx[q]
         /\ pc' = [pc EXCEPT ![r] = "ok"] /\ tx' = [tx EXCEPT ![r] = NoTx]
         /\ lost' = lost \cup tx[r].inserted /\ calm' = FALSE /\ Fault
         /\ UNCHANGED <<row, permission, listed, used, counted, objects, req, uploads>>
  BY Types DEF CommitFails, Fault, Goes, Rollback, rows

(* A fault is counted, and nothing is calm after it. *)
LEMMA FaultTypes ==
  ASSUME TypeOK, Fault
  PROVE  calm' = FALSE /\ calm' \in BOOLEAN /\ faults' \in 0..MaxFaults
  <1>1. faults \in 0..MaxFaults /\ faults < MaxFaults /\ faults' = faults + 1
    BY DEF TypeOK, Fault
  <1>2. faults' \in 0..MaxFaults
    BY <1>1, ConstantsAssumption
  <1> QED BY <1>2 DEF Fault

(* The sizes of the files of a request can be added. *)
LEMMA TotalSizeIsNatural ==
  ASSUME TypeInv, NEW r \in Requests
  PROVE  TotalSize(r) \in Nat
  <1>1. IsFiniteSet(req[r].contents)
    BY DEF TypeInv, ContentsAreFinite
  <1>2. req[r].contents \subseteq Contents
    BY DEF TypeInv, TypeOK
  <1>3. \A c \in req[r].contents : SizeOf[c] \in Nat
    BY <1>2, ConstantsAssumption
  <1> QED BY <1>1, <1>3, SumIsNatural DEF TotalSize

(* A step changes the fields of one request, and those by which it is known not. *)
LEMMA OneRequest ==
  ASSUME TypeOK, StepInv, NEW r \in Requests, Step(r) \/ StatementFails(r)
  PROVE  /\ \A q \in Requests \ {r} : /\ pc'[q] = pc[q] /\ req'[q] = req[q]
                                      /\ tx'[q] = tx[q]
         /\ \A q \in Requests : /\ req'[q].kind = req[q].kind /\ req'[q].user = req[q].user
                                /\ req'[q].contents = req[q].contents
                                /\ req'[q].file = req[q].file
         /\ \A f \in Files : f[1] \in Requests /\ UserOf(f)' = UserOf(f)
                              /\ KeyOf(f)' = KeyOf(f)
         /\ pc[r] \in Steps /\ pc'[r] \in Steps \cup Ended
         /\ \A f \in Files : DeleteAsked(f)' <=> DeleteAsked(f)
  <1> DEFINE Same(q) == /\ req'[q].kind = req[q].kind /\ req'[q].user = req[q].user
                        /\ req'[q].contents = req[q].contents
                        /\ req'[q].file = req[q].file
             Only == /\ \A q \in Requests \ {r} : /\ pc'[q] = pc[q] /\ req'[q] = req[q]
                                                  /\ tx'[q] = tx[q]
                     /\ Same(r) /\ pc[r] \in Steps /\ pc'[r] \in Steps \cup Ended
  <1>1. /\ req \in [Requests -> ReqType] /\ tx \in [Requests -> TxType]
        /\ pc \in [Requests -> {"idle"} \cup Steps \cup Ended]
        /\ AfterKey(r) \in Steps
    BY Types DEF AfterKey, Steps
  <1> USE DEF At, Goes, Forgets, Steps, Ended, ReqType
  <1>2. ASSUME ReadKey(r) \/ SaveKey(r) PROVE Only
    BY <1>1, <1>2 DEF ReadKey, SaveKey
  <1>3. ASSUME CreateFile(r) PROVE Only
    BY <1>1, <1>3 DEF CreateFile
  <1>4. ASSUME ReadUsed(r) PROVE Only
    BY <1>1, <1>4 DEF ReadUsed
  <1>5. ASSUME WriteUsed(r) PROVE Only
    BY <1>1, <1>5 DEF WriteUsed
  <1>6. ASSUME FindFile(r) PROVE Only
    <2>1. pc[r] = "find"
      BY <1>6 DEF FindFile
    <2>2. req[r].kind \in {"delete", "update", "download"}
      BY <2>1 DEF StepInv, StepFits, KindsAt
    <2>3. AfterFind(r) \in Steps
      BY <2>2 DEF AfterFind
    <2> QED BY <1>1, <1>6, <2>3 DEF FindFile
  <1>7. ASSUME DeleteFileFromS3(r) \/ DeleteRows(r) \/ SaveFile(r) PROVE Only
    BY <1>1, <1>7 DEF DeleteFileFromS3, DeleteRows, SaveFile
  <1>8. ASSUME FetchObject(r) \/ ListFiles(r) \/ Commit(r) PROVE Only
    <2>1. CASE FetchObject(r) \/ ListFiles(r)
      BY <1>1, <2>1 DEF FetchObject, ListFiles
    <2>2. CASE Commit(r)
      <3>1. /\ pc[r] = "commit" /\ pc' = [pc EXCEPT ![r] = "ok"]
            /\ tx' = [tx EXCEPT ![r] = NoTx] /\ req' = req
        BY <2>2 DEF Commit
      <3> QED BY <1>1, <3>1
    <2> QED BY <1>8, <2>1, <2>2
  <1>9. ASSUME StatementFails(r) PROVE Only
    <2>1. PICK s \in Steps \cup Ended : pc' = [pc EXCEPT ![r] = s]
      BY <1>1, <1>9, Failure
    <2>2. /\ pc[r] \in Steps /\ tx' \in {tx, [tx EXCEPT ![r] = NoTx]}
          /\ req' = [req EXCEPT ![r].seen = 0]
      BY <1>9, Failure
    <2>3. \A q \in Requests \ {r} : pc'[q] = pc[q] /\ req'[q] = req[q] /\ tx'[q] = tx[q]
      BY <1>1, <2>1, <2>2
    <2>4. Same(r) /\ pc'[r] = s
      BY <1>1, <2>1, <2>2
    <2> QED BY <2>2, <2>3, <2>4
  <1> HIDE DEF At, Goes, Forgets, Steps, Ended, ReqType
  <1>10. Only
    BY <1>2, <1>3, <1>4, <1>5, <1>6, <1>7, <1>8, <1>9 DEF Step
  <1>11. \A q \in Requests : Same(q)
    BY <1>10
  <1>12. \A f \in Files : f[1] \in Requests
    BY DEF Files
  <1> QED BY <1>10, <1>11, <1>12 DEF UserOf, KeyOf, KeyPath, DeleteAsked

(* What a commit leaves of each file. *)
LEMMA Committed ==
  ASSUME TypeOK, NEW r \in Requests, TxFits(r), Commit(r)
  PROVE  /\ \A f \in Files :
              /\ f \in tx[r].inserted =>
                   /\ row'[f] = Row("live", SizeOf[ContentOf(f)])
                   /\ permission'[f] = "owner"
              /\ f \in tx[r].deleted =>
                   /\ row'[f] = [row[f] EXCEPT !.state = "deleted"]
                   /\ permission'[f] = "deleted"
              /\ f \notin tx[r].inserted \cup tx[r].deleted =>
                   row'[f] = row[f] /\ permission'[f] = permission[f]
         /\ DOMAIN row' = Files /\ DOMAIN permission' = Files
         /\ tx[r].inserted = {} \/ tx[r].deleted = {}
         /\ listed' = (listed \ tx[r].deleted) \cup tx[r].inserted
         /\ pc[r] = "commit" /\ pc' = [pc EXCEPT ![r] = "ok"] /\ req' = req
         /\ tx' = [tx EXCEPT ![r] = NoTx]
         /\ UNCHANGED <<counted, objects, uploads, lost, calm, faults>>
  <1>1. tx[r].inserted = {} \/ tx[r].deleted = {}
    BY DEF TxFits
  <1>2. row' = [f \in Files |->
                CASE f \in tx[r].inserted -> Row("live", SizeOf[ContentOf(f)])
                  [] f \in tx[r].deleted -> [row[f] EXCEPT !.state = "deleted"]
                  [] OTHER -> row[f]]
    BY DEF Commit
  <1>3. permission' = [f \in Files |->
                        CASE f \in tx[r].inserted -> "owner"
                          [] f \in tx[r].deleted -> "deleted"
                          [] OTHER -> permission[f]]
    BY DEF Commit
  <1>4. \A f \in Files :
              /\ f \in tx[r].inserted => row'[f] = Row("live", SizeOf[ContentOf(f)])
              /\ f \in tx[r].deleted => row'[f] = [row[f] EXCEPT !.state = "deleted"]
              /\ f \notin tx[r].inserted \cup tx[r].deleted => row'[f] = row[f]
    BY <1>1, <1>2
  <1>5. \A f \in Files :
              /\ f \in tx[r].inserted => permission'[f] = "owner"
              /\ f \in tx[r].deleted => permission'[f] = "deleted"
              /\ f \notin tx[r].inserted \cup tx[r].deleted =>
                    permission'[f] = permission[f]
    BY <1>1, <1>3
  <1>6. DOMAIN row' = Files /\ DOMAIN permission' = Files
    BY <1>2, <1>3
  <1>7. /\ listed' = (listed \ tx[r].deleted) \cup tx[r].inserted
        /\ pc[r] = "commit" /\ pc' = [pc EXCEPT ![r] = "ok"] /\ req' = req
        /\ tx' = [tx EXCEPT ![r] = NoTx]
        /\ UNCHANGED <<counted, objects, uploads, lost, calm, faults>>
    BY DEF Commit, At, Goes
  <1> QED BY <1>1, <1>4, <1>5, <1>6, <1>7

(* The type of req, pc and tx is kept by a change of one request. *)
LEMMA TypesKept ==
  ASSUME TypeOK, NEW r \in Requests, NEW s \in {"idle"} \cup Steps \cup Ended,
         NEW q \in ReqType, NEW t \in TxType,
         pc' = [pc EXCEPT ![r] = s], req' = [req EXCEPT ![r] = q],
         tx' = [tx EXCEPT ![r] = t],
         row' \in [Files -> [state : {"none", "live", "deleted"}, size : Nat]],
         permission' \in [Files -> {"none", "owner", "deleted"}],
         listed' \subseteq Files, used' \in [Users -> Nat], counted' \in [Users -> Nat],
         objects' \subseteq Contents \X Users, uploads' \subseteq Files,
         lost' \subseteq Files, calm' \in BOOLEAN, faults' \in 0..MaxFaults
  PROVE  TypeOK'
  <1>1. req' \in [Requests -> ReqType] /\ tx' \in [Requests -> TxType]
    BY Types
  <1>2. pc' \in [Requests -> {"idle"} \cup Steps \cup Ended]
    BY Types
  <1> QED BY <1>1, <1>2 DEF TypeOK, ReqType, TxType

(* No step takes a variable out of its type. *)
LEMMA NextTypeInv == TypeInv /\ StepInv /\ [Next]_vars => TypeInv'
  <1> SUFFICES ASSUME TypeInv, StepInv, [Next]_vars PROVE TypeInv'
    OBVIOUS
  <1>1. /\ TypeOK /\ req \in [Requests -> ReqType] /\ tx \in [Requests -> TxType]
        /\ pc \in [Requests -> {"idle"} \cup Steps \cup Ended]
        /\ NoTx \in TxType /\ NewTx \in TxType
    BY Types, TxTypes DEF TypeInv
  <1>2. ASSUME NEW r \in Requests, Step(r) \/ StatementFails(r)
        PROVE  ContentsAreFinite'
    BY <1>1, <1>2, OneRequest DEF TypeInv, ContentsAreFinite
  <1>3. ASSUME NEW r \in Requests, Arrives(r) PROVE TypeInv'
    <2>1. PICK q \in ReqType, t \in {NoTx, NewTx} : Begun(r, q, t)
      BY <1>1, <1>3, Arrival
    <2>2. /\ pc' = [pc EXCEPT ![r] = "readKey"]
          /\ req' = [req EXCEPT ![r] = q] /\ tx' = [tx EXCEPT ![r] = t]
          /\ q.kind = "create" => q.contents \in Uploads[q.user]
          /\ q.kind # "create" => q.contents = {}
          /\ calm' = (calm /\ InFlight = {})
          /\ UNCHANGED <<row, permission, listed, used, counted, objects, uploads,
                         lost, faults>>
      BY <2>1 DEF Begun
    <2>3. IsFiniteSet(q.contents)
      <3>1. q.user \in Users
        BY DEF ReqType
      <3> QED BY <2>2, <3>1, ConstantsAssumption, FS_EmptySet
    <2>4. ContentsAreFinite'
      BY <1>1, <2>2, <2>3 DEF TypeInv, ContentsAreFinite
    <2>5. calm' \in BOOLEAN
      BY <1>1, <2>2 DEF TypeOK
    <2>6. TypeOK'
      BY <1>1, <2>2, <2>5, TypesKept DEF TypeOK, Steps
    <2> QED BY <2>4, <2>6 DEF TypeInv
  <1>4. ASSUME NEW r \in Requests, Step(r) PROVE TypeOK'
    <2>1. /\ r \in Requests /\ req[r] \in ReqType /\ tx[r] \in TxType
          /\ req[r].user \in Users /\ req[r].seen \in Nat /\ req[r].size \in Nat
      BY <1>1 DEF ReqType
    <2>2. AfterKey(r) \in Steps
      BY DEF AfterKey, Steps
    <2>3. CASE ReadKey(r) \/ SaveKey(r)
      <3>1. counted[req[r].user] \in Nat
        BY <1>1, <2>1 DEF TypeOK
      <3>2. [req[r] EXCEPT !.seen = counted[req[r].user]] \in ReqType
        BY <2>1, <3>1 DEF ReqType
      <3>3. [req[r] EXCEPT !.seen = 0] \in ReqType
        BY <2>1 DEF ReqType
      <3>4. tx' = [tx EXCEPT ![r] = tx[r]]
        BY <1>1, <2>3 DEF ReadKey, SaveKey
      <3>5. CASE ReadKey(r)
        <4>1. /\ pc' = [pc EXCEPT ![r] = "saveKey"]
              /\ req' = [req EXCEPT ![r] = [req[r] EXCEPT !.seen = counted[req[r].user]]]
          BY <1>1, <3>5 DEF ReadKey, Goes
        <4>2. UNCHANGED <<row, permission, listed, used, counted, objects, uploads,
                          lost, calm, faults>>
          BY <3>5 DEF ReadKey, At, rows
        <4> QED BY <1>1, <2>1, <3>2, <3>4, <4>1, <4>2, TypesKept DEF TypeOK, Steps
      <3>6. CASE SaveKey(r)
        <4>1. /\ pc' = [pc EXCEPT ![r] = AfterKey(r)]
              /\ req' = [req EXCEPT ![r] = [req[r] EXCEPT !.seen = 0]]
              /\ counted' \in [Users -> Nat]
          BY <1>1, <2>1, <3>6 DEF SaveKey, Goes, Forgets, TypeOK
        <4>2. UNCHANGED <<row, permission, listed, used, objects, uploads, lost, calm,
                          faults>>
          BY <3>6 DEF SaveKey, At, rows
        <4> QED BY <1>1, <2>1, <2>2, <3>3, <3>4, <4>1, <4>2, TypesKept DEF TypeOK
      <3> QED BY <2>3, <3>5, <3>6
    <2>4. CASE CreateFile(r)
      <3>1. UNCHANGED <<row, permission, listed, used, counted, objects, lost, calm,
                        faults>>
        BY <2>4 DEF CreateFile, At, rows
      <3>2. CASE tx[r].open
        <4>1. PICK c \in req[r].todo :
                /\ req' = [req EXCEPT ![r] = [req[r] EXCEPT !.todo = req[r].todo \ {c}]]
                /\ tx' = [tx EXCEPT ![r] =
                        [tx[r] EXCEPT !.inserted = tx[r].inserted \cup {<<r, c>>}]]
                /\ uploads' = uploads \cup {<<r, c>>} /\ pc' = [pc EXCEPT ![r] = pc[r]]
          BY <1>1, <2>4, <3>2 DEF CreateFile
        <4>2. c \in Contents /\ <<r, c>> \in Files
          BY <2>1 DEF ReqType, Files
        <4>3. [req[r] EXCEPT !.todo = req[r].todo \ {c}] \in ReqType
          BY <2>1 DEF ReqType
        <4>4. [tx[r] EXCEPT !.inserted = tx[r].inserted \cup {<<r, c>>}] \in TxType
          BY <2>1, <4>2 DEF TxType
        <4>5. uploads' \subseteq Files
          BY <1>1, <4>1, <4>2 DEF TypeOK
        <4> QED BY <1>1, <2>1, <3>1, <4>1, <4>3, <4>4, <4>5, TypesKept DEF TypeOK
      <3>3. CASE ~tx[r].open
        <4>1. /\ req' = [req EXCEPT ![r] = req[r]] /\ tx' = [tx EXCEPT ![r] = tx[r]]
              /\ uploads' = uploads /\ pc' = [pc EXCEPT ![r] = "failed"]
          BY <1>1, <2>4, <3>3 DEF CreateFile, Goes
        <4> QED BY <1>1, <2>1, <3>1, <4>1, TypesKept DEF TypeOK, Ended
      <3> QED BY <3>2, <3>3
    <2>5. CASE ReadUsed(r)
      <3>1. used[req[r].user] \in Nat
        BY <1>1, <2>1 DEF TypeOK
      <3>2. [req[r] EXCEPT !.seen = used[req[r].user]] \in ReqType
        BY <2>1, <3>1 DEF ReqType
      <3>3. /\ req' = [req EXCEPT ![r] = [req[r] EXCEPT !.seen = used[req[r].user]]]
            /\ tx' = [tx EXCEPT ![r] = tx[r]] /\ pc' = [pc EXCEPT ![r] = "writeUsed"]
            /\ UNCHANGED <<row, permission, listed, used, counted, objects, uploads, lost,
                           calm, faults>>
        BY <1>1, <2>5 DEF ReadUsed, At, Goes, rows
      <3> QED BY <1>1, <2>1, <3>2, <3>3, TypesKept DEF TypeOK, Steps
    <2>6. CASE WriteUsed(r)
      <3>1. [req[r] EXCEPT !.seen = 0] \in ReqType
        BY <2>1 DEF ReqType
      <3>2. /\ req' = [req EXCEPT ![r] = [req[r] EXCEPT !.seen = 0]]
            /\ UNCHANGED <<row, permission, listed, used, counted, objects, uploads, lost,
                           calm, faults>>
        BY <1>1, <2>6 DEF WriteUsed, At, Forgets, rows
      <3>3. PICK s \in Steps \cup Ended : pc' = [pc EXCEPT ![r] = s]
        BY <2>6 DEF WriteUsed, Goes, Steps, Ended
      <3>4. PICK n \in Nat : \/ tx' = [tx EXCEPT ![r] = tx[r]]
                             \/ tx' = [tx EXCEPT ![r] = [tx[r] EXCEPT !.used = n]]
        <4>1. req[r].seen + TotalSize(r) \in Nat
          BY <2>1, TotalSizeIsNatural
        <4>2. Debited(req[r].seen, req[r].size) \in Nat
          BY <2>1 DEF Debited
        <4> QED BY <1>1, <2>6, <4>1, <4>2 DEF WriteUsed
      <3>5. [tx[r] EXCEPT !.used = n] \in TxType
        BY <2>1 DEF TxType
      <3>6. PICK t \in TxType : tx' = [tx EXCEPT ![r] = t]
        BY <2>1, <3>4, <3>5
      <3> QED BY <1>1, <2>1, <3>1, <3>2, <3>3, <3>6, TypesKept DEF TypeOK
    <2>7. CASE FindFile(r)
      <3>1. pc[r] = "find" /\ req[r].kind \in Finding
        BY <2>7 DEF FindFile, At, StepInv, StepFits, KindsAt, Finding
      <3>2. req[r].file \in Files
        BY <3>1 DEF StepInv, StepFits
      <3>3. row[req[r].file].size \in Nat
        BY <1>1, <3>2 DEF TypeOK
      <3>4. PICK s \in Steps \cup Ended : pc' = [pc EXCEPT ![r] = s]
        <4>1. AfterFind(r) \in Steps
          BY <3>1 DEF AfterFind, Finding, Steps
        <4> QED BY <2>7, <4>1 DEF FindFile, Goes, Ended
      <3>5. PICK n \in Nat : req' = [req EXCEPT ![r] = [req[r] EXCEPT !.size = n]]
        <4>1. req[r] = [req[r] EXCEPT !.size = req[r].size]
          BY <2>1 DEF ReqType
        <4>2. \/ req' = [req EXCEPT ![r] = [req[r] EXCEPT !.size = row[req[r].file].size]]
              \/ req' = [req EXCEPT ![r] = [req[r] EXCEPT !.size = req[r].size]]
          BY <1>1, <2>7, <4>1 DEF FindFile
        <4> QED BY <2>1, <3>3, <4>2
      <3>6. [req[r] EXCEPT !.size = n] \in ReqType
        BY <2>1 DEF ReqType
      <3>7. PICK t \in TxType : tx' = [tx EXCEPT ![r] = t]
        BY <1>1, <2>1, <2>7 DEF FindFile
      <3>8. UNCHANGED <<row, permission, listed, used, counted, objects, uploads, lost,
                        calm, faults>>
        BY <2>7 DEF FindFile, At, rows
      <3> QED BY <1>1, <3>4, <3>5, <3>6, <3>7, <3>8, TypesKept DEF TypeOK
    <2>8. CASE DeleteFileFromS3(r) \/ DeleteRows(r)
      <3>1. PICK s \in Steps \cup Ended : pc' = [pc EXCEPT ![r] = s]
        BY <2>8 DEF DeleteFileFromS3, DeleteRows, Goes, Steps
      <3>2. req' = [req EXCEPT ![r] = req[r]] /\ objects' \subseteq objects
        BY <1>1, <2>8 DEF DeleteFileFromS3, DeleteRows
      <3>3. PICK t \in TxType : tx' = [tx EXCEPT ![r] = t]
        <4>1. CASE DeleteFileFromS3(r)
          BY <1>1, <2>1, <4>1 DEF DeleteFileFromS3
        <4>2. CASE DeleteRows(r)
          <5>1. pc[r] = "rows"
            BY <4>2 DEF DeleteRows, At
          <5>2. req[r].file \in Files
            BY <5>1 DEF StepInv, StepFits, KindsAt, Finding
          <5>3. [tx[r] EXCEPT !.deleted = {req[r].file}] \in TxType
            BY <2>1, <5>2 DEF TxType
          <5>4. tx' = [tx EXCEPT ![r] = [tx[r] EXCEPT !.deleted = {req[r].file}]]
            BY <4>2 DEF DeleteRows
          <5> QED BY <5>3, <5>4
        <4> QED BY <2>8, <4>1, <4>2
      <3>4. UNCHANGED <<row, permission, listed, used, counted, uploads, lost, calm,
                        faults>>
        BY <2>8 DEF DeleteFileFromS3, DeleteRows, At, rows
      <3> QED BY <1>1, <2>1, <3>1, <3>2, <3>3, <3>4, TypesKept DEF TypeOK
    <2>9. CASE SaveFile(r)
      <3>1. pc[r] = "save"
        BY <2>9 DEF SaveFile, At
      <3>2. req[r].file \in Files
        BY <3>1 DEF StepInv, StepFits, KindsAt, Finding
      <3>3. row' = [row EXCEPT ![req[r].file] = Row("live", req[r].size)]
        BY <2>9 DEF SaveFile
      <3>4. row' \in [Files -> [state : {"none", "live", "deleted"}, size : Nat]]
        BY <1>1, <2>1, <3>2, <3>3 DEF TypeOK, Row
      <3>5. /\ pc' = [pc EXCEPT ![r] = "ok"] /\ req' = [req EXCEPT ![r] = req[r]]
            /\ tx' = [tx EXCEPT ![r] = NoTx]
            /\ UNCHANGED <<permission, listed, used, counted, objects, uploads, lost,
                           calm, faults>>
        BY <1>1, <2>9 DEF SaveFile, At, Goes
      <3> QED BY <1>1, <2>1, <3>4, <3>5, TypesKept DEF TypeOK, Ended
    <2>10. CASE FetchObject(r) \/ ListFiles(r)
      <3>1. PICK s \in Steps \cup Ended : pc' = [pc EXCEPT ![r] = s]
        BY <2>10 DEF FetchObject, ListFiles, Goes, Ended
      <3>2. /\ req' = [req EXCEPT ![r] = req[r]] /\ tx' = [tx EXCEPT ![r] = tx[r]]
            /\ UNCHANGED <<row, permission, listed, used, counted, objects, uploads, lost,
                           calm, faults>>
        BY <1>1, <2>10 DEF FetchObject, ListFiles, At, rows
      <3> QED BY <1>1, <2>1, <3>1, <3>2, TypesKept DEF TypeOK
    <2>11. TxFits(r)
      BY DEF StepInv
    <2>12. CASE Commit(r)
      <3>1. /\ pc' = [pc EXCEPT ![r] = "ok"] /\ req' = [req EXCEPT ![r] = req[r]]
            /\ tx' = [tx EXCEPT ![r] = NoTx]
            /\ UNCHANGED <<counted, objects, uploads, lost, calm, faults>>
        BY <1>1, <2>12 DEF Commit, At, Goes
      <3>2. row' \in [Files -> [state : {"none", "live", "deleted"}, size : Nat]]
        <4>1. \A f \in Files : ContentOf(f) \in Contents /\ SizeOf[ContentOf(f)] \in Nat
          BY ConstantsAssumption DEF Files, ContentOf
        <4>2. ASSUME NEW f \in Files
              PROVE  row'[f] \in [state : {"none", "live", "deleted"}, size : Nat]
          <5>1. row[f] \in [state : {"none", "live", "deleted"}, size : Nat]
            BY <1>1 DEF TypeOK
          <5>2. \/ row'[f] = Row("live", SizeOf[ContentOf(f)])
                \/ row'[f] = [row[f] EXCEPT !.state = "deleted"] \/ row'[f] = row[f]
            BY <1>1, <2>12, <2>11, Committed
          <5>3. CASE row'[f] = Row("live", SizeOf[ContentOf(f)])
            BY <4>1, <5>3 DEF Row
          <5> QED BY <5>1, <5>2, <5>3
        <4>3. row' = [f \in Files |-> row'[f]]
          BY <2>12 DEF Commit
        <4> QED BY <4>2, <4>3
      <3>3. permission' \in [Files -> {"none", "owner", "deleted"}]
        <4>1. \A f \in Files : permission'[f] \in {"none", "owner", "deleted"}
          BY <1>1, <2>12, <2>11, Committed DEF TypeOK
        <4>2. permission' = [f \in Files |-> permission'[f]]
          BY <2>12 DEF Commit
        <4> QED BY <4>1, <4>2
      <3>4. listed' \subseteq Files
        BY <1>1, <2>1, <2>12 DEF Commit, TypeOK, TxType
      <3>5. used' \in [Users -> Nat]
        BY <1>1, <2>1, <2>12 DEF Commit, TypeOK, TxType
      <3> QED BY <1>1, <2>1, <3>1, <3>2, <3>3, <3>4, <3>5, TypesKept DEF TypeOK, Ended
    <2> QED BY <1>4, <2>3, <2>4, <2>5, <2>6, <2>7, <2>8, <2>9, <2>10, <2>12 DEF Step
  <1>5. ASSUME NEW r \in Requests, StatementFails(r) PROVE TypeOK'
    <2>1. PICK s \in {"idle"} \cup Steps \cup Ended : pc' = [pc EXCEPT ![r] = s]
      <3>1. AfterKey(r) \in Steps
        BY DEF AfterKey, Steps
      <3> QED BY <1>5, <3>1, Failure DEF Steps, Ended
    <2>2. PICK t \in TxType : tx' = [tx EXCEPT ![r] = t]
      <3>1. tx' = [tx EXCEPT ![r] = tx[r]] \/ tx' = [tx EXCEPT ![r] = NoTx]
        BY <1>1, <1>5, Failure
      <3> QED BY <1>1, <3>1
    <2>3. PICK q \in ReqType : req' = [req EXCEPT ![r] = q]
      <3>1. [req[r] EXCEPT !.seen = 0] \in ReqType
        BY <1>1 DEF ReqType
      <3>2. req' = [req EXCEPT ![r] = [req[r] EXCEPT !.seen = 0]]
        BY <1>5, Failure
      <3> QED BY <3>1, <3>2
    <2>4. calm' \in BOOLEAN /\ faults' \in 0..MaxFaults
      BY <1>1, <1>5, FaultTypes DEF StatementFails
    <2>5. UNCHANGED <<row, permission, listed, used, counted, objects, uploads, lost>>
      BY <1>5, Failure
    <2> QED BY <1>1, <2>1, <2>2, <2>3, <2>4, <2>5, TypesKept DEF TypeOK
  <1>6. ASSUME NEW f \in Files, UploadSucceeds(f) \/ UploadFails(f) PROVE TypeInv'
    <2>1. f[1] \in Requests /\ KeyOf(f) \in Contents \X Users
      BY <1>1 DEF Files, KeyOf, KeyPath, ContentOf, UserOf, ReqType
    <2>2. /\ tx' \in {tx, [tx EXCEPT ![f[1]] = NoTx]} /\ req' = req /\ pc' = pc
          /\ uploads' \subseteq uploads /\ lost' \subseteq lost \cup {f}
          /\ objects' \subseteq objects \cup {KeyOf(f)}
          /\ UNCHANGED <<row, permission, listed, used, counted>>
      BY <1>1, <1>6 DEF UploadSucceeds, UploadFails, Rollback, rows
    <2>3. calm' \in BOOLEAN /\ faults' \in 0..MaxFaults
      BY <1>1, <1>6, FaultTypes DEF UploadSucceeds, UploadFails, TypeOK
    <2>4. tx' \in [Requests -> TxType]
      BY <1>1, <2>1, <2>2
    <2>5. TypeOK'
      BY <1>1, <2>1, <2>2, <2>4, <2>3 DEF TypeOK, TxType
    <2> QED BY <2>2, <2>5 DEF TypeInv, ContentsAreFinite
  <1>7. CASE Crash
    <2>1. req' = [r \in Requests |-> [req[r] EXCEPT !.seen = 0]]
      BY <1>7 DEF Crash
    <2>2. req' \in [Requests -> ReqType]
      BY <1>1, <2>1 DEF ReqType
    <2>3. tx' \in [Requests -> TxType]
      BY <1>1, <1>7 DEF Crash
    <2>4. pc' \in [Requests -> {"idle"} \cup Steps \cup Ended]
      BY <1>1, <1>7 DEF Crash, Ended
    <2>5. /\ uploads' = {} /\ lost' = lost \cup uploads
          /\ UNCHANGED <<row, permission, listed, used, counted, objects>>
          /\ calm' \in BOOLEAN /\ faults' \in 0..MaxFaults
      BY <1>1, <1>7, FaultTypes DEF Crash, rows
    <2>6. TypeOK'
      BY <1>1, <2>2, <2>3, <2>4, <2>5 DEF TypeOK, ReqType, TxType
    <2>7. \A r \in Requests : req'[r].contents = req[r].contents
      BY <1>1, <2>1 DEF ReqType
    <2> QED BY <2>6, <2>7 DEF TypeInv, ContentsAreFinite
  <1>8. CASE UNCHANGED vars
    BY <1>1, <1>8 DEF TypeInv, TypeOK, ContentsAreFinite, vars
  <1>9. ASSUME NEW r \in Requests, CommitFails(r) PROVE TypeInv'
    <2>1. /\ pc' = [pc EXCEPT ![r] = "ok"] /\ tx' = [tx EXCEPT ![r] = NoTx]
          /\ req' = [req EXCEPT ![r] = req[r]] /\ req' = req
          /\ lost' = lost \cup tx[r].inserted /\ Fault
          /\ UNCHANGED <<row, permission, listed, used, counted, objects, uploads>>
      BY <1>1, <1>9, CommitLost
    <2>2. lost' \subseteq Files
      BY <1>1, <2>1 DEF TypeOK, TxType
    <2>3. calm' \in BOOLEAN /\ faults' \in 0..MaxFaults
      BY <1>1, <2>1, FaultTypes
    <2>4. TypeOK'
      BY <1>1, <2>1, <2>2, <2>3, TypesKept DEF TypeOK, Ended
    <2> QED BY <2>1, <2>4 DEF TypeInv, ContentsAreFinite
  <1> QED BY <1>2, <1>3, <1>4, <1>5, <1>6, <1>7, <1>8, <1>9 DEF Next, TypeInv

-----------------------------------------------------------------------------
(* Steps and transactions                                                  *)

(* What a step of r does to the row of a file. *)
LEMMA RowsOfStep ==
  ASSUME TypeOK, StepInv, NEW r \in Requests, Step(r), NEW f \in Files
  PROVE  \/ row'[f] = row[f]
         \/ pc[r] = "save" /\ f = req[r].file /\ row'[f] = Row("live", req[r].size)
         \/ /\ pc[r] = "commit" /\ f \in tx[r].inserted
            /\ row'[f] = Row("live", SizeOf[ContentOf(f)])
         \/ /\ pc[r] = "commit" /\ f \in tx[r].deleted
            /\ row'[f] = [row[f] EXCEPT !.state = "deleted"]
  <1>1. CASE row' = row
    BY <1>1
  <1>2. CASE SaveFile(r)
    <2>1. pc[r] = "save" /\ row' = [row EXCEPT ![req[r].file] = Row("live", req[r].size)]
      BY <1>2 DEF SaveFile, At
    <2> QED BY <2>1 DEF TypeOK
  <1>3. CASE Commit(r)
    BY <1>3, Committed DEF StepInv
  <1>4. SaveFile(r) \/ Commit(r) \/ row' = row
    BY DEF Step, ReadKey, SaveKey, CreateFile, ReadUsed, WriteUsed, FindFile,
           DeleteFileFromS3, DeleteRows, FetchObject, ListFiles, rows
  <1> QED BY <1>1, <1>2, <1>3, <1>4

(* A row that is there stays there. *)
LEMMA RowsStay ==
  ASSUME TypeOK, StepInv, [Next]_vars
  PROVE  \A f \in Files : row[f].state # "none" => row'[f].state # "none"
  <1>1. ASSUME NEW r \in Requests, Step(r), NEW f \in Files, row[f].state # "none"
        PROVE  row'[f].state # "none"
    <2>1. row[f] \in [state : {"none", "live", "deleted"}, size : Nat]
      BY DEF TypeOK
    <2>2. Row("live", req[r].size).state = "live"
          /\ Row("live", SizeOf[ContentOf(f)]).state = "live"
      BY DEF Row
    <2>3. [row[f] EXCEPT !.state = "deleted"].state = "deleted"
      BY <2>1
    <2> QED BY <1>1, <2>2, <2>3, RowsOfStep
  <1>2. ASSUME NEW r \in Requests, Arrives(r) PROVE row' = row
    BY <1>2, Arrival DEF Begun
  <1>3. ASSUME NEW r \in Requests, StatementFails(r) PROVE row' = row
    BY <1>3, Failure
  <1>4. ASSUME NEW f \in Files, UploadSucceeds(f) \/ UploadFails(f) PROVE row' = row
    BY <1>4 DEF UploadSucceeds, UploadFails, rows
  <1>5. ASSUME Crash \/ UNCHANGED vars PROVE row' = row
    BY <1>5 DEF Crash, rows, vars
  <1>6. ASSUME NEW r \in Requests, CommitFails(r) PROVE row' = row
    BY <1>6, CommitLost
  <1> QED BY <1>1, <1>2, <1>3, <1>4, <1>5, <1>6 DEF Next

(* A request that does not move fits, with its transaction or without. *)
LEMMA FitsKept ==
  ASSUME TypeOK, NEW q \in Requests, StepFits(q), TxFits(q), pc'[q] = pc[q],
         req'[q].kind = req[q].kind, req'[q].file = req[q].file,
         tx'[q] = tx[q] \/ (tx'[q] = NoTx /\ (req[q].kind = "create" \/ pc[q] \notin Found)),
         \A f \in Files : row[f].state # "none" => row'[f].state # "none"
  PROVE  StepFits(q)' /\ TxFits(q)'
  <1>1. StepFits(q)'
    BY DEF StepFits
  <1>2. ASSUME tx'[q] = tx[q] PROVE TxFits(q)'
    BY <1>2 DEF TxFits
  <1>3. ASSUME tx'[q] = NoTx, req[q].kind = "create" \/ pc[q] \notin Found
        PROVE  TxFits(q)'
    BY <1>3, TxTypes DEF TxFits
  <1> QED BY <1>1, <1>2, <1>3

(* The next step of a request is one of its kind. *)
LEMMA StepKinds ==
  ASSUME TypeOK, StepInv, NEW r \in Requests, Step(r) \/ StatementFails(r)
  PROVE  req[r].kind \in KindsAt(pc'[r])
  <1> DEFINE k == req[r].kind
  <1> SUFFICES k \in KindsAt(pc'[r])
    OBVIOUS
  <1>1. pc \in [Requests -> {"idle"} \cup Steps \cup Ended] /\ k \in KindsAt(pc[r])
    BY Types DEF StepInv, StepFits
  <1>2. k \in AllKinds
    <2>1. pc[r] \in Steps
      BY OneRequest
    <2> QED BY <1>1, <2>1 DEF KindsAt, AllKinds, Steps
  <1>3. \A s \in Ended \cup {"saveKey"} : k \in KindsAt(s)
    BY <1>2 DEF Ended, KindsAt
  <1>4. k \in KindsAt(AfterKey(r))
    BY <1>2 DEF AfterKey, KindsAt, AllKinds
  <1> HIDE DEF k
  <1>5. CASE ReadKey(r) \/ SaveKey(r)
    <2>1. pc'[r] \in {"saveKey", AfterKey(r)}
      BY <1>1, <1>5 DEF ReadKey, SaveKey, Goes
    <2> QED BY <1>3, <1>4, <2>1
  <1>6. CASE CreateFile(r)
    <2>1. pc'[r] \in {pc[r], "failed"}
      BY <1>1, <1>6 DEF CreateFile, Goes
    <2> QED BY <1>1, <1>3, <2>1 DEF Ended
  <1>7. CASE ReadUsed(r)
    <2>1. pc[r] \in {"readUsed", "file"} /\ pc'[r] = "writeUsed"
      BY <1>1, <1>7 DEF ReadUsed, At, Goes
    <2> QED BY <1>1, <2>1 DEF KindsAt
  <1>8. CASE WriteUsed(r)
    <2>1. \/ pc'[r] = "failed" \/ (pc'[r] = "commit" /\ k = "create")
          \/ (pc'[r] = "rows" /\ k = "delete")
      BY <1>1, <1>8 DEF WriteUsed, Goes, k
    <2> QED BY <1>3, <2>1 DEF KindsAt, Ended
  <1>9. CASE FindFile(r)
    <2>1. pc[r] = "find" /\ pc'[r] \in {AfterFind(r), "left", "failed"}
      BY <1>1, <1>9 DEF FindFile, At, Goes
    <2>2. k \in {"delete", "update", "download"}
      BY <1>1, <2>1 DEF KindsAt
    <2>3. k \in KindsAt(AfterFind(r))
      BY <2>2 DEF AfterFind, KindsAt, k
    <2> QED BY <1>3, <2>1, <2>3 DEF Ended
  <1>10. CASE DeleteFileFromS3(r) \/ DeleteRows(r)
    <2>1. pc[r] \in {"object", "rows"} /\ pc'[r] \in {"readUsed", "commit"}
      BY <1>1, <1>10 DEF DeleteFileFromS3, DeleteRows, At, Goes
    <2> QED BY <1>1, <2>1 DEF KindsAt
  <1>11. CASE SaveFile(r) \/ FetchObject(r) \/ ListFiles(r) \/ Commit(r)
    <2>1. pc'[r] \in Ended
      BY <1>1, <1>11 DEF SaveFile, FetchObject, ListFiles, Commit, Goes, Ended
    <2> QED BY <1>3, <2>1
  <1>12. CASE StatementFails(r)
    <2>1. \/ pc'[r] = AfterKey(r) \/ (pc[r] = "object" /\ pc'[r] = "readUsed")
          \/ pc'[r] \in Ended
      BY <1>1, <1>12, Failure DEF Ended
    <2>2. CASE pc[r] = "object" /\ pc'[r] = "readUsed"
      BY <1>1, <2>2 DEF KindsAt
    <2> QED BY <1>3, <1>4, <2>1, <2>2
  <1> QED BY <1>5, <1>6, <1>7, <1>8, <1>9, <1>10, <1>11, <1>12 DEF Step

(* A transaction holds the storage and the files of its request until it ends. *)
LEMMA StepTx ==
  ASSUME TypeOK, StepInv, NEW r \in Requests, Step(r) \/ StatementFails(r)
  PROVE  TxFits(r)'
  <1>1. /\ req \in [Requests -> ReqType] /\ tx \in [Requests -> TxType]
        /\ pc \in [Requests -> {"idle"} \cup Steps \cup Ended]
        /\ TxFits(r) /\ req[r].kind \in KindsAt(pc[r])
    BY Types DEF StepInv, StepFits
  <1>2. /\ pc[r] \in Steps /\ pc'[r] \in Steps \cup Ended
        /\ req'[r].kind = req[r].kind /\ req'[r].file = req[r].file
    BY OneRequest
  <1>3. pc'[r] # "idle"
    BY <1>2 DEF Steps, Ended
  <1>4. /\ AfterKey(r) \notin Found /\ \A s \in Ended : s \notin Found
        /\ {"object", "readUsed", "writeUsed"} \subseteq Found
    BY DEF AfterKey, Found, Ended
  <1>5. ASSUME tx'[r] = tx[r], pc[r] \notin {"rows", "commit"},
               req[r].kind # "delete" \/ pc[r] \in Found \/ pc'[r] \notin Found
        PROVE  TxFits(r)'
    BY <1>1, <1>2, <1>3, <1>5 DEF TxFits
  <1>6. ASSUME tx'[r] = NewTx \/ (tx'[r] = NoTx /\ (pc'[r] \notin Found \/ req[r].kind # "delete"))
        PROVE  TxFits(r)'
    <2>1. /\ tx'[r].inserted = {} /\ tx'[r].deleted = {} /\ tx'[r].used = NoWrite
          /\ tx'[r].open \/ tx'[r] = NoTx
          /\ req[r].kind = "delete" /\ pc'[r] \in Found => tx'[r].open
      BY <1>6, TxTypes
    <2> QED BY <1>2, <1>3, <2>1 DEF TxFits
  <1>7. CASE ReadKey(r) \/ SaveKey(r)
    <2>1. /\ tx'[r] = tx[r] /\ pc[r] \in {"readKey", "saveKey"}
          /\ pc'[r] \in {"saveKey", AfterKey(r)}
      BY <1>1, <1>7 DEF ReadKey, SaveKey, At, Goes
    <2> QED BY <1>4, <1>5, <2>1 DEF Found
  <1>8. CASE CreateFile(r)
    <2>1. pc[r] = "file"
      BY <1>8 DEF CreateFile, At
    <2>2. req[r].kind = "create" /\ tx[r].used = NoWrite /\ tx[r].deleted = {}
      BY <1>1, <2>1 DEF TxFits, KindsAt
    <2>3. CASE tx[r].open
      <3>1. PICK c \in req[r].todo :
              tx' = [tx EXCEPT ![r].inserted = @ \cup {<<r, c>>}]
        BY <1>8, <2>3 DEF CreateFile
      <3>2. tx'[r].open /\ tx'[r].used = NoWrite /\ tx'[r].deleted = {}
        BY <1>1, <2>2, <2>3, <3>1 DEF TxType
      <3> QED BY <1>2, <1>3, <2>2, <3>2 DEF TxFits
    <2>4. CASE ~tx[r].open
      BY <1>5, <1>8, <2>1, <2>2, <2>4 DEF CreateFile
    <2> QED BY <2>3, <2>4
  <1>9. CASE ReadUsed(r)
    <2>1. tx'[r] = tx[r] /\ pc[r] \in {"readUsed", "file"}
      BY <1>9 DEF ReadUsed, At
    <2>2. pc[r] = "file" => req[r].kind = "create"
      BY <1>1 DEF KindsAt
    <2> QED BY <1>4, <1>5, <2>1, <2>2
  <1>10. CASE WriteUsed(r)
    <2>1. pc[r] = "writeUsed"
      BY <1>10 DEF WriteUsed, At
    <2>2. CASE tx[r].open
      <3>1. PICK n : tx' = [tx EXCEPT ![r].used = n]
        BY <1>10, <2>2 DEF WriteUsed
      <3>2. pc'[r] \in {"rows", "commit"}
        BY <1>1, <1>10, <2>2 DEF WriteUsed, Goes
      <3>3. tx'[r].open /\ tx'[r].deleted = {} /\ tx'[r].inserted = tx[r].inserted
        BY <1>1, <2>1, <2>2, <3>1 DEF TxFits, TxType
      <3> QED BY <1>1, <1>2, <1>3, <3>2, <3>3 DEF TxFits
    <2>3. CASE ~tx[r].open
      BY <1>4, <1>5, <1>10, <2>1, <2>3 DEF WriteUsed
    <2> QED BY <2>2, <2>3
  <1>11. CASE FindFile(r)
    <2>1. /\ pc[r] = "find"
          /\ \/ tx'[r] = NewTx
             \/ /\ tx'[r] = tx[r]
                /\ req[r].kind # "delete" \/ pc'[r] \in {"left", "failed"}
      BY <1>1, <1>11 DEF FindFile, At, Goes
    <2> QED BY <1>4, <1>5, <1>6, <2>1 DEF Ended
  <1>12. CASE DeleteFileFromS3(r)
    BY <1>4, <1>5, <1>12 DEF DeleteFileFromS3, At
  <1>13. CASE DeleteRows(r)
    <2>1. /\ pc[r] = "rows" /\ pc'[r] = "commit"
          /\ tx' = [tx EXCEPT ![r].deleted = {req[r].file}]
      BY <1>1, <1>13 DEF DeleteRows, At, Goes
    <2>2. req[r].kind = "delete"
      BY <1>1, <2>1 DEF KindsAt
    <2>3. /\ tx'[r].deleted = {req[r].file} /\ tx'[r].inserted = {}
          /\ tx'[r].open = tx[r].open
      BY <1>1, <2>1, <2>2 DEF TxFits, TxType
    <2>4. tx[r].open
      BY <1>1, <2>1, <2>2 DEF TxFits, Found
    <2> QED BY <1>2, <2>1, <2>2, <2>3, <2>4 DEF TxFits
  <1>14. CASE SaveFile(r) \/ Commit(r)
    <2>1. tx'[r] = NoTx /\ pc'[r] = "ok"
      BY <1>1, <1>14 DEF SaveFile, Commit, Goes
    <2> QED BY <1>4, <1>6, <2>1 DEF Ended
  <1>15. CASE FetchObject(r) \/ ListFiles(r)
    <2>1. /\ tx'[r] = tx[r] /\ pc[r] \in {"fetch", "list"}
          /\ pc'[r] \in {"ok", "failed"}
      BY <1>1, <1>15 DEF FetchObject, ListFiles, At, Goes
    <2> QED BY <1>4, <1>5, <2>1 DEF Ended
  <1>16. CASE StatementFails(r)
    <2>1. /\ pc[r] # "commit" /\ (tx'[r] = NoTx \/ (tx'[r] = tx[r] /\ pc[r] # "rows"))
          /\ pc[r] = "object" \/ pc'[r] = AfterKey(r) \/ pc'[r] \in Ended
          /\ pc[r] = "object" => tx'[r] = tx[r]
      BY <1>1, <1>16, Failure DEF Ended
    <2> QED BY <1>4, <1>5, <1>6, <2>1
  <1> QED BY <1>7, <1>8, <1>9, <1>10, <1>11, <1>12, <1>13, <1>14, <1>15, <1>16 DEF Step

(* At the start nobody has asked. *)
LEMMA InitStepInv == Init => StepInv
  <1> SUFFICES ASSUME Init, NEW r \in Requests PROVE StepFits(r) /\ TxFits(r)
    BY DEF StepInv, Init
  <1>1. pc[r] = "idle" /\ req[r].kind = "none" /\ tx[r] = NoTx
    BY DEF Init, Request
  <1> QED BY <1>1, TxTypes DEF StepFits, TxFits, KindsAt, Finding

(* Only requests that create files upload them. *)
LEMMA UploadsOfCreates ==
  ASSUME TypeOK, StepInv, [Next]_vars
  PROVE  \A f \in uploads' : req'[f[1]].kind = "create"
  <1>1. \A f \in uploads : /\ f[1] \in Requests /\ req[f[1]].kind = "create"
                           /\ pc[f[1]] # "idle"
    <2>1. ASSUME NEW f \in uploads PROVE f[1] \in Requests /\ pc[f[1]] # "idle"
      <3>1. f[1] \in Requests
        BY DEF TypeOK, Files
      <3> QED BY <3>1 DEF StepInv, StepFits, KindsAt
    <2> QED BY <2>1 DEF StepInv
  <1>2. ASSUME NEW r \in Requests, Arrives(r) PROVE \A f \in uploads' : req'[f[1]].kind = "create"
    <2>1. PICK q : /\ pc[r] = "idle" /\ req' = [req EXCEPT ![r] = q] /\ uploads' = uploads
      BY <1>2, Arrival DEF Begun
    <2> QED BY <1>1, <2>1, Types
  <1>3. ASSUME NEW r \in Requests, Step(r) \/ StatementFails(r)
        PROVE  \A f \in uploads' : req'[f[1]].kind = "create"
    <2>1. \A f \in uploads : req'[f[1]].kind = "create"
      BY <1>1, <1>3, OneRequest
    <2>2. uploads' = uploads \/ CreateFile(r)
      BY <1>3, Failure, Committed
         DEF Step, StepInv, ReadKey, SaveKey, ReadUsed, WriteUsed, FindFile,
             DeleteFileFromS3, DeleteRows, SaveFile, FetchObject, ListFiles
    <2>3. ASSUME CreateFile(r) PROVE \A f \in uploads' : req'[f[1]].kind = "create"
      <3>1. pc[r] = "file" /\ \A f \in uploads' : f \in uploads \/ f[1] = r
        BY <2>3 DEF CreateFile, At
      <3>2. req'[r].kind = "create"
        BY <1>3, <3>1, OneRequest DEF StepInv, StepFits, KindsAt
      <3> QED BY <2>1, <3>1, <3>2
    <2> QED BY <2>1, <2>2, <2>3
  <1>4. ASSUME NEW f \in Files, UploadSucceeds(f) \/ UploadFails(f)
        PROVE  uploads' \subseteq uploads /\ req' = req
    BY <1>4 DEF UploadSucceeds, UploadFails
  <1>5. ASSUME Crash PROVE uploads' = {}
    BY <1>5 DEF Crash
  <1>6. ASSUME UNCHANGED vars PROVE uploads' = uploads /\ req' = req
    BY <1>6 DEF vars
  <1>7. ASSUME NEW r \in Requests, CommitFails(r) PROVE uploads' = uploads /\ req' = req
    BY <1>7, CommitLost
  <1> QED BY <1>1, <1>2, <1>3, <1>4, <1>5, <1>6, <1>7 DEF Next

(* Every request goes from step to step as its kind says. *)
LEMMA NextStepInv == TypeInv /\ StepInv /\ [Next]_vars => StepInv'
  <1> SUFFICES ASSUME TypeInv, StepInv, [Next]_vars PROVE StepInv'
    OBVIOUS
  <1>1. /\ TypeOK /\ req \in [Requests -> ReqType] /\ tx \in [Requests -> TxType]
        /\ pc \in [Requests -> {"idle"} \cup Steps \cup Ended]
    BY Types DEF TypeInv
  <1>2. \A f \in Files : row[f].state # "none" => row'[f].state # "none"
    BY <1>1, RowsStay
  <1>3. \A q \in Requests : StepFits(q) /\ TxFits(q)
    BY DEF StepInv
  <1>4. \A f \in uploads' : req'[f[1]].kind = "create"
    BY <1>1, UploadsOfCreates
  <1>5. ASSUME NEW r \in Requests, Arrives(r) PROVE StepInv'
    <2>1. PICK q \in ReqType, t \in {NoTx, NewTx} : Begun(r, q, t)
      BY <1>1, <1>5, Arrival
    <2>2. /\ pc' = [pc EXCEPT ![r] = "readKey"] /\ req' = [req EXCEPT ![r] = q]
          /\ tx' = [tx EXCEPT ![r] = t] /\ q.kind \in AllKinds
          /\ q.kind \in Finding => q.file \in Files /\ row[q.file].state # "none"
      BY <2>1 DEF Begun
    <2>3. ASSUME NEW p \in Requests \ {r} PROVE StepFits(p)' /\ TxFits(p)'
      <3>1. pc'[p] = pc[p] /\ req'[p] = req[p] /\ tx'[p] = tx[p]
        BY <1>1, <2>2
      <3> QED BY <1>1, <1>2, <1>3, <3>1, FitsKept
    <2>4. pc'[r] = "readKey" /\ req'[r] = q /\ tx'[r] = t
      BY <1>1, <2>2
    <2>5. StepFits(r)'
      BY <1>2, <2>2, <2>4 DEF StepFits, KindsAt
    <2>6. TxFits(r)'
      BY <2>4, TxTypes DEF TxFits, Found
    <2> QED BY <1>4, <2>3, <2>5, <2>6 DEF StepInv
  <1>6. ASSUME NEW r \in Requests, Step(r) \/ StatementFails(r) PROVE StepInv'
    <2>1. ASSUME NEW p \in Requests \ {r} PROVE StepFits(p)' /\ TxFits(p)'
      <3>1. pc'[p] = pc[p] /\ req'[p] = req[p] /\ tx'[p] = tx[p]
        BY <1>1, <1>6, OneRequest
      <3> QED BY <1>1, <1>2, <1>3, <3>1, FitsKept
    <2>2. /\ req'[r].kind = req[r].kind /\ req'[r].file = req[r].file
          /\ req[r].kind \in KindsAt(pc[r]) /\ pc[r] \in Steps
          /\ req[r].kind \in Finding => req[r].file \in Files /\ row[req[r].file].state # "none"
      BY <1>1, <1>3, <1>6, OneRequest DEF StepFits
    <2>3. req'[r].kind \in KindsAt(pc'[r])
      BY <1>1, <1>6, <2>2, StepKinds
    <2>4. StepFits(r)'
      BY <1>2, <2>2, <2>3 DEF StepFits
    <2>5. TxFits(r)'
      BY <1>1, <1>3, <1>6, StepTx
    <2> QED BY <1>4, <2>1, <2>4, <2>5 DEF StepInv
  <1>7. ASSUME NEW f \in Files, UploadSucceeds(f) \/ UploadFails(f) PROVE StepInv'
    <2>1. /\ pc' = pc /\ req' = req
          /\ tx' = tx \/ tx' = [tx EXCEPT ![f[1]] = NoTx]
      BY <1>7 DEF UploadSucceeds, UploadFails, Rollback
    <2>2. UploadFails(f) => req[f[1]].kind = "create"
      BY DEF UploadFails, StepInv
    <2>3. tx' # tx => UploadFails(f)
      BY <1>7 DEF UploadSucceeds
    <2>4. ASSUME NEW p \in Requests PROVE StepFits(p)' /\ TxFits(p)'
      <3>1. tx'[p] = tx[p] \/ (tx'[p] = NoTx /\ req[p].kind = "create")
        BY <1>1, <2>1, <2>2, <2>3
      <3> QED BY <1>1, <1>2, <1>3, <2>1, <3>1, FitsKept
    <2> QED BY <1>4, <2>4 DEF StepInv
  <1>8. ASSUME Crash PROVE StepInv'
    <2>1. ASSUME NEW p \in Requests PROVE StepFits(p)' /\ TxFits(p)'
      <3>1. /\ tx'[p] = NoTx /\ req'[p].kind = req[p].kind /\ req'[p].file = req[p].file
            /\ pc'[p] = pc[p] \/ (pc[p] \in Steps /\ pc'[p] = "lost")
        BY <1>1, <1>8 DEF Crash, ReqType, InFlight
      <3>2. CASE pc'[p] = pc[p]
        <4>1. pc[p] \notin Found
          BY <1>1, <1>8, <3>2 DEF Crash, InFlight, Found, Steps
        <4> QED BY <1>1, <1>2, <1>3, <3>1, <3>2, <4>1, FitsKept
      <3>3. CASE pc[p] \in Steps /\ pc'[p] = "lost"
        <4>1. req[p].kind \in AllKinds
          BY <1>3, <3>3 DEF StepFits, KindsAt, AllKinds, Steps
        <4>2. StepFits(p)'
          BY <1>2, <1>3, <3>1, <3>3, <4>1 DEF StepFits, KindsAt
        <4> QED BY <3>1, <3>3, <4>2, TxTypes DEF TxFits, Found
      <3> QED BY <3>1, <3>2, <3>3
    <2> QED BY <1>4, <2>1 DEF StepInv
  <1>9. CASE UNCHANGED vars
    <2>1. UNCHANGED <<pc, req, tx>>
      BY <1>9 DEF vars
    <2>2. \A p \in Requests : StepFits(p)' /\ TxFits(p)'
      BY <1>1, <1>2, <1>3, <2>1, FitsKept
    <2> QED BY <1>4, <2>2 DEF StepInv
  <1>10. ASSUME NEW r \in Requests, CommitFails(r) PROVE StepInv'
    <2>1. /\ pc[r] = "commit" /\ pc'[r] = "ok" /\ tx'[r] = NoTx /\ req' = req
          /\ \A q \in Requests \ {r} : pc'[q] = pc[q] /\ tx'[q] = tx[q]
      BY <1>1, <1>10, CommitLost
    <2>2. ASSUME NEW p \in Requests \ {r} PROVE StepFits(p)' /\ TxFits(p)'
      BY <1>1, <1>2, <1>3, <2>1, FitsKept
    <2>3. req[r].kind \in AllKinds
      BY <1>3, <2>1 DEF StepFits, KindsAt, AllKinds
    <2>4. StepFits(r)'
      BY <1>2, <1>3, <2>1, <2>3 DEF StepFits, KindsAt
    <2>5. TxFits(r)'
      BY <2>1, TxTypes DEF TxFits, Found
    <2> QED BY <1>4, <2>2, <2>4, <2>5 DEF StepInv
  <1> QED BY <1>5, <1>6, <1>7, <1>8, <1>9, <1>10 DEF Next

-----------------------------------------------------------------------------
(* The files that a request creates *)

FilesOf(r, cs) == {<<r, c>> : c \in cs}

HasLost(r) == \E c \in req[r].contents : <<r, c>> \in lost

Creates(r) ==
    /\ req[r].todo \subseteq req[r].contents
    /\ pc[r] \in Steps =>
         \/ tx[r].open /\ tx[r].inserted = FilesOf(r, req[r].contents \ req[r].todo)
         \/ ~tx[r].open /\ HasLost(r)
    /\ pc[r] \in {"writeUsed", "commit"} => req[r].todo = {}
    /\ pc[r] # "ok" => \A c \in Contents : row[<<r, c>>].state = "none"
    /\ pc[r] = "ok" => \/ \A c \in req[r].contents : row[<<r, c>>].state # "none"
                       \/ /\ \A c \in Contents : row[<<r, c>>].state = "none"
                          /\ HasLost(r)

FileFits(f) ==
    row[f].state # "none" \/ f \in uploads \cup lost \cup tx[f[1]].inserted =>
        req[f[1]].kind = "create" /\ f[2] \in req[f[1]].contents

CreateInv ==
    /\ \A r \in Requests :
        /\ req[r].kind = "create" => Creates(r)
        /\ tx[r].inserted \subseteq FilesOf(r, Contents)
        /\ req[r].kind \in Finding => UserOf(req[r].file) = req[r].user
    /\ \A f \in Files : FileFits(f)

(* A row that was not there comes with the commit of the request that inserts it. *)
LEMMA NewRows ==
  ASSUME TypeOK, StepInv, NEW r \in Requests, Step(r), NEW f \in Files
  PROVE  row'[f].state # "none" <=>
            row[f].state # "none" \/ (pc[r] = "commit" /\ f \in tx[r].inserted)
  <1>1. row[f] \in [state : {"none", "live", "deleted"}, size : Nat]
    BY DEF TypeOK
  <1>2. pc[r] = "save" => row[req[r].file].state # "none"
    BY DEF StepInv, StepFits, KindsAt, Finding
  <1>3. /\ Row("live", req[r].size).state = "live"
        /\ Row("live", SizeOf[ContentOf(f)]).state = "live"
    BY DEF Row
  <1>4. [row[f] EXCEPT !.state = "deleted"].state = "deleted"
    BY <1>1
  <1>5. ASSUME pc[r] = "commit"
        PROVE  /\ f \in tx[r].inserted => row'[f] = Row("live", SizeOf[ContentOf(f)])
               /\ f \in tx[r].deleted => row[f].state # "none"
    <2>1. Commit(r)
      BY <1>5 DEF Step, ReadKey, SaveKey, CreateFile, ReadUsed, WriteUsed, FindFile,
           DeleteFileFromS3, DeleteRows, SaveFile, FetchObject, ListFiles, At
    <2>2. f \in tx[r].deleted => row[f].state # "none"
      BY DEF StepInv, StepFits, TxFits, Finding
    <2> QED BY <2>1, <2>2, Committed DEF StepInv
  <1> QED BY <1>2, <1>3, <1>4, <1>5, RowsOfStep

(* A request of which no row appears, and that loses its transaction only with a
   file.  *)
LEMMA CreatesKept ==
  ASSUME TypeOK, NEW q \in Requests, Creates(q), pc'[q] = pc[q],
         req'[q].todo = req[q].todo, req'[q].contents = req[q].contents,
         lost \subseteq lost', tx'[q] = tx[q] \/ (tx'[q] = NoTx /\ HasLost(q)'),
         \A c \in Contents : row'[<<q, c>>].state = "none" <=> row[<<q, c>>].state = "none"
  PROVE  Creates(q)'
  <1>1. HasLost(q) => HasLost(q)'
    BY DEF HasLost
  <1>2. req[q].contents \subseteq Contents
    BY DEF TypeOK
  <1>3. tx'[q] = NoTx => ~tx'[q].open
    BY TxTypes
  <1> QED BY <1>1, <1>2, <1>3 DEF Creates

(* A step of a request that creates files: all of its rows come at once. *)
LEMMA CreateSteps ==
  ASSUME TypeOK, StepInv, CreateInv, NEW r \in Requests, req[r].kind = "create",
         Step(r) \/ StatementFails(r)
  PROVE  Creates(r)'
  <1>1. /\ req \in [Requests -> ReqType] /\ tx \in [Requests -> TxType]
        /\ pc \in [Requests -> {"idle"} \cup Steps \cup Ended]
        /\ NoTx.inserted = {} /\ ~NoTx.open
    BY Types, TxTypes
  <1>2. /\ Creates(r) /\ pc[r] \in Steps /\ "create" \in KindsAt(pc[r])
        /\ req'[r].contents = req[r].contents /\ req[r].contents \subseteq Contents
    BY <1>1, OneRequest DEF CreateInv, StepInv, StepFits, ReqType
  <1>3. \A c \in Contents : <<r, c>> \in Files
    BY DEF Files
  <1>4. \A c \in Contents : row[<<r, c>>].state = "none"
    <2>1. pc[r] # "ok"
      BY <1>2 DEF Steps
    <2> QED BY <1>2, <2>1 DEF Creates
  <1>5. pc[r] \in {"readKey", "saveKey", "file", "writeUsed", "commit"}
    BY <1>2 DEF KindsAt, Steps
  <1>6. ASSUME lost' = lost, req'[r].todo = req[r].todo, pc'[r] # "ok",
               pc'[r] \in {"writeUsed", "commit"} => req[r].todo = {},
               pc'[r] \in Steps => tx'[r].open = tx[r].open
                                   /\ tx'[r].inserted = tx[r].inserted,
               \A c \in Contents : row'[<<r, c>>].state = "none"
        PROVE  Creates(r)'
    BY <1>2, <1>6 DEF Creates, HasLost
  <1>7. pc[r] # "commit" /\ Step(r) => \A c \in Contents : row'[<<r, c>>].state = "none"
    BY <1>3, <1>4, NewRows
  <1>8. AfterKey(r) = "file"
    BY DEF AfterKey
  <1>9. CASE ReadKey(r) \/ SaveKey(r)
    <2>1. /\ pc[r] # "commit" /\ lost' = lost /\ tx' = tx /\ req'[r].todo = req[r].todo
          /\ pc'[r] \in {"saveKey", "file"} /\ Step(r)
      BY <1>1, <1>8, <1>9 DEF ReadKey, SaveKey, At, Goes, Forgets, ReqType, Step
    <2> QED BY <1>6, <1>7, <2>1
  <1>10. CASE CreateFile(r)
    <2>1. pc[r] = "file" /\ lost' = lost /\ Step(r)
      BY <1>10 DEF CreateFile, At, Step
    <2>2. CASE tx[r].open
      <3>1. PICK c \in req[r].todo :
              /\ req' = [req EXCEPT ![r].todo = @ \ {c}]
              /\ tx' = [tx EXCEPT ![r].inserted = @ \cup {<<r, c>>}]
              /\ pc' = pc
        BY <1>10, <2>2 DEF CreateFile
      <3>2. /\ req'[r].todo = req[r].todo \ {c} /\ tx'[r].open
            /\ tx'[r].inserted = tx[r].inserted \cup {<<r, c>>}
        BY <1>1, <2>2, <3>1 DEF ReqType, TxType
      <3>3. tx[r].inserted = FilesOf(r, req[r].contents \ req[r].todo)
            /\ req[r].todo \subseteq req[r].contents
        BY <1>2, <2>2 DEF Creates
      <3>4. tx'[r].inserted = FilesOf(r, req[r].contents \ (req[r].todo \ {c}))
        BY <3>2, <3>3 DEF FilesOf
      <3> QED BY <1>2, <1>7, <2>1, <3>1, <3>2, <3>3, <3>4 DEF Creates
    <2>3. CASE ~tx[r].open
      <3>1. pc'[r] = "failed" /\ req' = req /\ tx' = tx
        BY <1>1, <1>10, <2>3 DEF CreateFile, Goes
      <3> QED BY <1>6, <1>7, <2>1, <3>1
    <2> QED BY <2>2, <2>3
  <1>11. CASE ReadUsed(r)
    <2>1. /\ pc[r] # "commit" /\ lost' = lost /\ tx' = tx /\ req'[r].todo = req[r].todo
          /\ pc'[r] = "writeUsed" /\ req[r].todo = {} /\ Step(r)
      BY <1>1, <1>5, <1>11 DEF ReadUsed, At, Goes, ReqType, Step
    <2> QED BY <1>6, <1>7, <2>1
  <1>12. CASE WriteUsed(r)
    <2>1. /\ pc[r] = "writeUsed" /\ lost' = lost /\ req'[r].todo = req[r].todo
          /\ pc'[r] \in {"commit", "failed"} /\ req[r].todo = {} /\ Step(r)
      BY <1>1, <1>2, <1>12 DEF WriteUsed, At, Goes, Forgets, ReqType, Step, Creates
    <2>2. tx'[r].open = tx[r].open /\ tx'[r].inserted = tx[r].inserted
      BY <1>1, <1>12 DEF WriteUsed, TxType
    <2> QED BY <1>6, <1>7, <2>1, <2>2
  <1>13. CASE Commit(r)
    <2>1. /\ pc[r] = "commit" /\ pc'[r] = "ok" /\ req' = req /\ lost' = lost /\ Step(r)
      BY <1>1, <1>13 DEF Commit, At, Goes, Step
    <2>2. req[r].todo = {} /\ req[r].contents \ req[r].todo = req[r].contents
      BY <1>2, <2>1 DEF Creates
    <2>3. \A c \in Contents : row'[<<r, c>>].state # "none" <=> <<r, c>> \in tx[r].inserted
      BY <1>3, <1>4, <2>1, NewRows
    <2>4. CASE tx[r].open
      <3>1. tx[r].inserted = FilesOf(r, req[r].contents)
        BY <1>2, <2>1, <2>2, <2>4 DEF Creates, Steps
      <3>2. \A c \in req[r].contents : row'[<<r, c>>].state # "none"
        BY <1>2, <2>3, <3>1 DEF FilesOf
      <3> QED BY <2>1, <2>2, <3>2 DEF Creates, Steps
    <2>5. CASE ~tx[r].open
      <3>1. HasLost(r) /\ tx[r].inserted = {}
        BY <1>1, <1>2, <2>1, <2>5 DEF Creates, Steps, StepInv, TxFits
      <3>2. HasLost(r)'
        BY <2>1, <3>1 DEF HasLost
      <3>3. \A c \in Contents : row'[<<r, c>>].state = "none"
        BY <2>3, <3>1
      <3> QED BY <2>1, <2>2, <3>2, <3>3 DEF Creates, Steps
    <2> QED BY <2>4, <2>5
  <1>14. CASE StatementFails(r)
    <2>1. row' = row /\ lost' = lost /\ req' = [req EXCEPT ![r].seen = 0]
      BY <1>14, Failure
    <2>2. req'[r].todo = req[r].todo
      BY <1>1, <2>1 DEF ReqType
    <2>3. \/ pc' = [pc EXCEPT ![r] = "file"] /\ tx' = tx
          \/ pc' = [pc EXCEPT ![r] = "left"] \/ pc' = [pc EXCEPT ![r] = "failed"]
      BY <1>5, <1>8, <1>14, Failure
    <2>4. (pc'[r] = "file" /\ tx' = tx) \/ pc'[r] \in {"left", "failed"}
      BY <1>1, <2>3
    <2> QED BY <1>4, <1>6, <2>1, <2>2, <2>4 DEF Steps
  <1>15. ~(FindFile(r) \/ DeleteFileFromS3(r) \/ DeleteRows(r) \/ SaveFile(r)
           \/ FetchObject(r) \/ ListFiles(r))
    BY <1>5 DEF FindFile, DeleteFileFromS3, DeleteRows, SaveFile, FetchObject, ListFiles, At
  <1> QED BY <1>9, <1>10, <1>11, <1>12, <1>13, <1>14, <1>15 DEF Step

(* Files come one by one, each with its upload. *)
LEMMA StepFiles ==
  ASSUME TypeOK, StepInv, NEW r \in Requests, Step(r) \/ StatementFails(r)
  PROVE  /\ lost' = lost
         /\ \/ uploads' = uploads /\ tx'[r].inserted \subseteq tx[r].inserted
            \/ /\ req[r].kind = "create"
               /\ \E c \in req[r].todo : /\ uploads' = uploads \cup {<<r, c>>}
                                         /\ tx'[r].inserted = tx[r].inserted \cup {<<r, c>>}
  <1>1. /\ tx \in [Requests -> TxType] /\ NoTx.inserted = {} /\ NewTx.inserted = {}
    BY Types, TxTypes
  <1>2. CASE CreateFile(r)
    <2>1. req[r].kind = "create"
      BY <1>2 DEF CreateFile, At, StepInv, StepFits, KindsAt
    <2>2. CASE tx[r].open
      <3>1. PICK c \in req[r].todo :
              /\ tx' = [tx EXCEPT ![r].inserted = @ \cup {<<r, c>>}]
              /\ uploads' = uploads \cup {<<r, c>>} /\ lost' = lost
        BY <1>2, <2>2 DEF CreateFile
      <3>2. tx'[r].inserted = tx[r].inserted \cup {<<r, c>>}
        BY <1>1, <3>1 DEF TxType
      <3> QED BY <2>1, <3>1, <3>2
    <2>3. CASE ~tx[r].open
      BY <1>2, <2>3 DEF CreateFile
    <2> QED BY <2>2, <2>3
  <1>3. CASE ReadKey(r) \/ SaveKey(r) \/ ReadUsed(r)
    BY <1>3 DEF ReadKey, SaveKey, ReadUsed
  <1>4. CASE WriteUsed(r)
    <2>1. lost' = lost /\ uploads' = uploads
      BY <1>4 DEF WriteUsed
    <2>2. tx' = tx \/ \E n : tx' = [tx EXCEPT ![r].used = n]
      BY <1>4 DEF WriteUsed
    <2>3. tx'[r].inserted = tx[r].inserted
      BY <1>1, <2>2 DEF TxType
    <2> QED BY <2>1, <2>3
  <1>5. CASE FindFile(r)
    <2>1. lost' = lost /\ uploads' = uploads /\ (tx'[r] = tx[r] \/ tx'[r] = NewTx)
      BY <1>1, <1>5 DEF FindFile
    <2> QED BY <1>1, <2>1
  <1>6. CASE DeleteFileFromS3(r) \/ FetchObject(r) \/ ListFiles(r)
    BY <1>6 DEF DeleteFileFromS3, FetchObject, ListFiles
  <1>7. CASE DeleteRows(r)
    <2>1. /\ lost' = lost /\ uploads' = uploads
          /\ tx' = [tx EXCEPT ![r].deleted = {req[r].file}]
      BY <1>7 DEF DeleteRows
    <2>2. tx'[r].inserted = tx[r].inserted
      BY <1>1, <2>1 DEF TxType
    <2> QED BY <2>1, <2>2
  <1>8. CASE SaveFile(r) \/ Commit(r)
    <2>1. lost' = lost /\ uploads' = uploads /\ tx'[r] = NoTx
      BY <1>1, <1>8 DEF SaveFile, Commit
    <2> QED BY <1>1, <2>1
  <1>9. CASE StatementFails(r)
    <2>1. lost' = lost /\ uploads' = uploads /\ (tx'[r] = tx[r] \/ tx'[r] = NoTx)
      BY <1>1, <1>9, Failure
    <2> QED BY <1>1, <2>1
  <1> QED BY <1>2, <1>3, <1>4, <1>5, <1>6, <1>7, <1>8, <1>9 DEF Step

(* A file belongs to the request that creates it, which does not change. *)
LEMMA FileKept ==
  ASSUME TypeOK, CreateInv, NEW f \in Files,
         row[f].state # "none" \/ f \in uploads \cup lost \cup tx[f[1]].inserted,
         req'[f[1]].kind = req[f[1]].kind, req'[f[1]].contents = req[f[1]].contents
  PROVE  FileFits(f)'
  BY DEF CreateInv, FileFits

(* At the start there are no files. *)
LEMMA InitCreateInv == Init => CreateInv
  <1> SUFFICES ASSUME Init PROVE CreateInv
    OBVIOUS
  <1>1. ASSUME NEW r \in Requests
        PROVE  req[r].kind = "none" /\ tx[r] = NoTx
    BY DEF Init, Request
  <1>2. ASSUME NEW f \in Files PROVE FileFits(f)
    <2>1. row[f].state = "none" /\ uploads = {} /\ lost = {} /\ f[1] \in Requests
      BY DEF Init, Row, Files
    <2> QED BY <1>1, <2>1, TxTypes DEF FileFits
  <1>3. ASSUME NEW r \in Requests
        PROVE  /\ req[r].kind # "create" /\ req[r].kind \notin Finding
               /\ tx[r].inserted \subseteq FilesOf(r, Contents)
    BY <1>1, TxTypes DEF Finding
  <1> QED BY <1>2, <1>3 DEF CreateInv

(* Whatever fails, the files of a request are all there or none. *)
LEMMA NextCreateInv == TypeInv /\ StepInv /\ CreateInv /\ [Next]_vars => CreateInv'
  <1> SUFFICES ASSUME TypeInv, StepInv, CreateInv, [Next]_vars PROVE CreateInv'
    OBVIOUS
  <1>1. /\ TypeOK /\ req \in [Requests -> ReqType] /\ tx \in [Requests -> TxType]
        /\ pc \in [Requests -> {"idle"} \cup Steps \cup Ended]
        /\ NoTx.inserted = {} /\ NewTx.inserted = {}
    BY Types, TxTypes DEF TypeInv
  <1> DEFINE Rest(q) == /\ tx'[q].inserted \subseteq FilesOf(q, Contents)
                        /\ req'[q].kind \in Finding =>
                              req'[req'[q].file[1]].user = req'[q].user
  <1>2. \A f \in Files : f[1] \in Requests /\ f = <<f[1], f[2]>>
    BY DEF Files
  <1>3. ASSUME NEW r \in Requests, Arrives(r) PROVE CreateInv'
    <2>1. PICK p \in ReqType, t \in {NoTx, NewTx} : Begun(r, p, t)
      BY <1>1, <1>3, Arrival
    <2>2. /\ pc[r] = "idle" /\ pc' = [pc EXCEPT ![r] = "readKey"]
          /\ req' = [req EXCEPT ![r] = p] /\ tx' = [tx EXCEPT ![r] = t]
          /\ p.todo = p.contents /\ (p.kind = "create" => t = NewTx)
          /\ p.kind \in Finding => /\ p.file \in Files /\ row[p.file].state # "none"
                                   /\ p.user = UserOf(p.file)
          /\ row' = row /\ uploads' = uploads /\ lost' = lost
      BY <2>1 DEF Begun
    <2>3. pc'[r] = "readKey" /\ req'[r] = p /\ tx'[r] = t /\ tx'[r].inserted = {}
      BY <1>1, <2>2
    <2>4. \A q \in Requests \ {r} : pc'[q] = pc[q] /\ req'[q] = req[q] /\ tx'[q] = tx[q]
      BY <1>1, <2>2
    <2>5. req[r].kind # "create"
      BY <2>2 DEF StepInv, StepFits, KindsAt
    <2>6. \A f \in Files : row[f].state # "none" \/ f \in uploads \cup lost => f[1] # r
      BY <2>5 DEF CreateInv, FileFits
    <2>7. ASSUME NEW q \in Requests \ {r}, req[q].kind = "create" PROVE Creates(q)'
      BY <1>1, <2>2, <2>4, <2>7, CreatesKept DEF CreateInv
    <2>8. ASSUME p.kind = "create" PROVE Creates(r)'
      <3>1. \A c \in Contents : row[<<r, c>>].state = "none"
        BY <2>6 DEF Files
      <3>2. tx'[r].open /\ tx'[r].inserted = FilesOf(r, p.contents \ p.todo)
        BY <2>2, <2>3, <2>8, TxTypes DEF FilesOf
      <3> QED BY <2>2, <2>3, <3>1, <3>2 DEF Creates
    <2>9. ASSUME NEW q \in Requests PROVE Rest(q)
      <3>1. CASE q = r
        BY <1>2, <2>2, <2>3, <2>4, <2>6, <3>1 DEF UserOf
      <3>2. CASE q # r
        <4>1. req[q].kind \in Finding => req[q].file \in Files /\ row[req[q].file].state # "none"
          BY DEF StepInv, StepFits
        <4>2. req[q].kind \in Finding => req'[req[q].file[1]] = req[req[q].file[1]]
          BY <1>2, <2>4, <2>6, <4>1 DEF UserOf
        <4> QED BY <2>4, <3>2, <4>2 DEF CreateInv, UserOf
      <3> QED BY <3>1, <3>2
    <2>10. ASSUME NEW f \in Files PROVE FileFits(f)'
      <3>1. CASE f[1] = r
        BY <2>2, <2>3, <2>6, <3>1 DEF FileFits
      <3>2. CASE f[1] # r
        <4>1. /\ req'[f[1]] = req[f[1]] /\ tx'[f[1]] = tx[f[1]] /\ FileFits(f)
          BY <1>2, <2>4, <3>2 DEF CreateInv
        <4> QED BY <2>2, <4>1 DEF FileFits
      <3> QED BY <3>1, <3>2
    <2>11. ASSUME NEW q \in Requests, req'[q].kind = "create" PROVE Creates(q)'
      BY <2>3, <2>4, <2>7, <2>8, <2>11
    <2> QED BY <2>9, <2>10, <2>11 DEF CreateInv, UserOf
  <1>4. ASSUME NEW r \in Requests, Step(r) \/ StatementFails(r) PROVE CreateInv'
    <2>1. /\ \A q \in Requests \ {r} : /\ pc'[q] = pc[q] /\ req'[q] = req[q]
                                       /\ tx'[q] = tx[q]
          /\ \A q \in Requests : /\ req'[q].kind = req[q].kind /\ req'[q].user = req[q].user
                                 /\ req'[q].contents = req[q].contents
                                 /\ req'[q].file = req[q].file
      BY <1>1, <1>4, OneRequest
    <2>2. /\ lost' = lost
          /\ \/ uploads' = uploads /\ tx'[r].inserted \subseteq tx[r].inserted
             \/ /\ req[r].kind = "create"
                /\ \E c \in req[r].todo : /\ uploads' = uploads \cup {<<r, c>>}
                                          /\ tx'[r].inserted = tx[r].inserted \cup {<<r, c>>}
      BY <1>1, <1>4, StepFiles
    <2>3. ASSUME NEW f \in Files
          PROVE  row'[f].state # "none" => row[f].state # "none" \/ f \in tx[f[1]].inserted
      <3>1. f \in tx[r].inserted => f[1] = r
        BY DEF CreateInv, FilesOf
      <3>2. CASE Step(r)
        BY <1>1, <3>1, <3>2, NewRows
      <3>3. CASE StatementFails(r)
        BY <3>3, Failure
      <3> QED BY <1>4, <3>2, <3>3
    <2>4. ASSUME NEW q \in Requests, req[q].kind = "create" PROVE Creates(q)'
      <3>1. CASE q = r
        BY <1>1, <1>4, <2>4, <3>1, CreateSteps
      <3>2. CASE q # r
        <4>1. \A c \in Contents : <<q, c>> \in Files /\ <<q, c>> \notin tx[r].inserted
          BY <3>2 DEF Files, CreateInv, FilesOf
        <4>2. \A c \in Contents : row'[<<q, c>>].state = "none" <=> row[<<q, c>>].state = "none"
          <5>1. CASE Step(r)
            BY <1>1, <4>1, <5>1, NewRows
          <5>2. CASE StatementFails(r)
            BY <5>2, Failure
          <5> QED BY <1>4, <5>1, <5>2
        <4> QED BY <1>1, <2>1, <2>2, <2>4, <3>2, <4>2, CreatesKept DEF CreateInv
      <3> QED BY <3>1, <3>2
    <2>5. ASSUME NEW q \in Requests PROVE Rest(q)
      <3>1. tx'[q].inserted \subseteq FilesOf(q, Contents)
        <4>1. CASE q = r
          <5>1. req[r].todo \subseteq Contents
            BY <1>1 DEF ReqType
          <5> QED BY <2>2, <4>1, <5>1 DEF CreateInv, FilesOf
        <4> QED BY <2>1, <4>1 DEF CreateInv
      <3>2. req[q].kind \in Finding => req[q].file[1] \in Requests
        BY <1>2 DEF StepInv, StepFits
      <3> QED BY <2>1, <3>1, <3>2 DEF CreateInv, UserOf
    <2>6. ASSUME NEW f \in Files PROVE FileFits(f)'
      <3>1. f[1] \in Requests /\ f = <<f[1], f[2]>>
        BY <1>2
      <3>2. CASE row[f].state # "none" \/ f \in uploads \cup lost \cup tx[f[1]].inserted
        BY <1>1, <2>1, <3>1, <3>2, FileKept
      <3>3. CASE ~(row[f].state # "none" \/ f \in uploads \cup lost \cup tx[f[1]].inserted)
        <4>1. row'[f].state = "none" /\ f \notin lost'
          BY <2>2, <2>3, <3>3
        <4>2. ASSUME f \in uploads' \/ f \in tx'[f[1]].inserted
              PROVE  req[f[1]].kind = "create" /\ f[2] \in req[f[1]].contents
          <5>1. f[1] # r => tx'[f[1]] = tx[f[1]]
            BY <2>1, <3>1
          <5>2. PICK c \in req[r].todo : f = <<r, c>> /\ req[r].kind = "create"
            BY <2>2, <3>3, <4>2, <5>1
          <5>3. c \in req[r].contents
            BY <5>2 DEF CreateInv, Creates
          <5> QED BY <5>2, <5>3
        <4> QED BY <2>1, <3>1, <4>1, <4>2 DEF FileFits
      <3> QED BY <3>2, <3>3
    <2> QED BY <2>1, <2>4, <2>5, <2>6 DEF CreateInv, UserOf
  <1>5. ASSUME NEW g \in Files, UploadSucceeds(g) \/ UploadFails(g) PROVE CreateInv'
    <2>1. /\ pc' = pc /\ req' = req /\ row' = row /\ lost \subseteq lost'
          /\ uploads' \cup lost' \subseteq uploads \cup lost
          /\ tx' = tx \/ (tx' = [tx EXCEPT ![g[1]] = NoTx] /\ g \in uploads /\ g \in lost')
      BY <1>5 DEF UploadSucceeds, UploadFails, Rollback, rows
    <2>2. \A q \in Requests : tx'[q] = tx[q] \/ (tx'[q] = NoTx /\ q = g[1] /\ g \in uploads /\ g \in lost')
      BY <1>1, <1>2, <2>1
    <2>3. ASSUME NEW q \in Requests, req[q].kind = "create" PROVE Creates(q)'
      <3>1. tx'[q] = tx[q] \/ (tx'[q] = NoTx /\ HasLost(q)')
        <4>1. g \in uploads => g[2] \in req[g[1]].contents
          BY DEF CreateInv, FileFits
        <4> QED BY <1>2, <2>1, <2>2, <4>1 DEF HasLost
      <3>2. Creates(q)
        BY <2>3 DEF CreateInv
      <3> QED BY <1>1, <2>1, <3>1, <3>2, CreatesKept
    <2>4. ASSUME NEW q \in Requests PROVE Rest(q)
      BY <1>1, <2>1, <2>2 DEF CreateInv, UserOf
    <2>5. ASSUME NEW f \in Files PROVE FileFits(f)'
      <3>1. tx'[f[1]].inserted \subseteq tx[f[1]].inserted
        BY <1>1, <1>2, <2>2
      <3> QED BY <2>1, <3>1 DEF CreateInv, FileFits
    <2> QED BY <2>1, <2>3, <2>4, <2>5 DEF CreateInv, UserOf
  <1>6. ASSUME Crash PROVE CreateInv'
    <2>1. /\ tx' = [r \in Requests |-> NoTx] /\ row' = row /\ lost' = lost \cup uploads
          /\ uploads' = {}
          /\ req' = [r \in Requests |-> [req[r] EXCEPT !.seen = 0]]
          /\ pc' = [r \in Requests |-> IF r \in InFlight THEN "lost" ELSE pc[r]]
      BY <1>6 DEF Crash, rows
    <2>2. \A q \in Requests : /\ tx'[q] = NoTx /\ req'[q].kind = req[q].kind
                              /\ req'[q].contents = req[q].contents
                              /\ req'[q].todo = req[q].todo
                              /\ req'[q].file = req[q].file /\ req'[q].user = req[q].user
                              /\ pc'[q] = IF pc[q] \in Steps THEN "lost" ELSE pc[q]
      BY <1>1, <2>1 DEF ReqType, InFlight
    <2>3. ASSUME NEW q \in Requests, req[q].kind = "create" PROVE Creates(q)'
      <3>1. Creates(q) /\ pc'[q] \notin Steps /\ (pc'[q] = "ok" <=> pc[q] = "ok")
        BY <2>2, <2>3 DEF CreateInv, Steps
      <3>2. HasLost(q) => HasLost(q)'
        BY <2>1, <2>2 DEF HasLost
      <3> QED BY <2>1, <2>2, <3>1, <3>2 DEF Creates, Steps
    <2>4. ASSUME NEW q \in Requests PROVE Rest(q)
      <3>1. req[q].kind \in Finding => req[q].file[1] \in Requests
        BY <1>2 DEF StepInv, StepFits
      <3> QED BY <1>1, <2>2, <3>1 DEF CreateInv, UserOf
    <2>5. ASSUME NEW f \in Files PROVE FileFits(f)'
      <3>1. tx'[f[1]].inserted = {}
        BY <1>1, <1>2, <2>2
      <3> QED BY <1>2, <2>1, <2>2, <3>1 DEF CreateInv, FileFits
    <2> QED BY <2>2, <2>3, <2>4, <2>5 DEF CreateInv, UserOf
  <1>7. CASE UNCHANGED vars
    <2>1. UNCHANGED <<row, pc, req, tx, uploads, lost>>
      BY <1>7 DEF vars
    <2>2. \A q \in Requests : Creates(q) => Creates(q)'
      BY <2>1 DEF Creates, HasLost
    <2>3. \A f \in Files : FileFits(f)'
      BY <2>1 DEF CreateInv, FileFits
    <2> QED BY <2>1, <2>2, <2>3 DEF CreateInv, UserOf
  <1>8. ASSUME NEW r \in Requests, CommitFails(r) PROVE CreateInv'
    <2>1. /\ pc[r] = "commit" /\ pc'[r] = "ok" /\ tx'[r] = NoTx
          /\ req' = req /\ row' = row /\ uploads' = uploads
          /\ lost' = lost \cup tx[r].inserted
          /\ \A q \in Requests \ {r} : pc'[q] = pc[q] /\ tx'[q] = tx[q]
      BY <1>1, <1>8, CommitLost
    <2>2. ASSUME req[r].kind = "create" PROVE Creates(r)'
      <3>1. Creates(r) /\ pc[r] \in Steps /\ req[r].todo = {}
        BY <2>1, <2>2 DEF CreateInv, Creates, Steps
      <3>2. \A c \in Contents : row[<<r, c>>].state = "none"
        BY <2>1, <3>1 DEF Creates
      <3>3. req[r].contents = {} \/ HasLost(r)'
        <4>1. CASE tx[r].open
          <5>1. tx[r].inserted = FilesOf(r, req[r].contents)
            BY <3>1, <4>1 DEF Creates
          <5> QED BY <2>1, <5>1 DEF HasLost, FilesOf
        <4>2. CASE ~tx[r].open
          BY <2>1, <3>1, <4>2 DEF Creates, HasLost
        <4> QED BY <4>1, <4>2
      <3> QED BY <2>1, <3>1, <3>2, <3>3 DEF Creates, Steps
    <2>3. ASSUME NEW q \in Requests, req[q].kind = "create" PROVE Creates(q)'
      <3>1. CASE q = r
        BY <2>2, <2>3, <3>1
      <3>2. CASE q # r
        BY <1>1, <2>1, <2>3, <3>2, CreatesKept DEF CreateInv
      <3> QED BY <3>1, <3>2
    <2>4. ASSUME NEW q \in Requests PROVE Rest(q)
      BY <1>1, <2>1 DEF CreateInv, UserOf
    <2>5. ASSUME NEW f \in Files PROVE FileFits(f)'
      <3>1. f \in tx[r].inserted => f[1] = r
        BY DEF CreateInv, FilesOf
      <3>2. tx'[f[1]].inserted \subseteq tx[f[1]].inserted
        BY <1>1, <1>2, <2>1
      <3> QED BY <2>1, <3>1, <3>2 DEF CreateInv, FileFits
    <2> QED BY <2>1, <2>3, <2>4, <2>5 DEF CreateInv, UserOf
  <1> QED BY <1>3, <1>4, <1>5, <1>6, <1>7, <1>8 DEF Next

(* In every behaviour. *)
LEMMA SpecInv == Spec => [](TypeInv /\ StepInv /\ CreateInv)
  <1>1. TypeInv /\ StepInv /\ CreateInv /\ [Next]_vars => (TypeInv /\ StepInv /\ CreateInv)'
    BY NextTypeInv, NextStepInv, NextCreateInv
  <1> QED BY <1>1, InitTypeInv, InitStepInv, InitCreateInv, PTL DEF Spec

(* Every variable keeps its type. *)
THEOREM TypeCorrect == Spec => []TypeOK
  <1>1. TypeInv => TypeOK
    BY DEF TypeInv
  <1> QED BY <1>1, SpecInv, PTL

(* The files of a request are all there or none, and all if it succeeds and has
   lost none.  *)
LEMMA WholeCreates == TypeInv /\ CreateInv => CreatesAreWhole
  <1> SUFFICES ASSUME TypeInv, CreateInv, NEW r \in Requests, req[r].kind = "create"
               PROVE  LET made == {c \in req[r].contents : row[<<r, c>>].state # "none"} IN
                      /\ made \in {{}, req[r].contents}
                      /\ pc[r] = "ok" => \/ made = req[r].contents
                                         \/ \E c \in req[r].contents : <<r, c>> \in lost
    BY DEF CreatesAreWhole
  <1> DEFINE made == {c \in req[r].contents : row[<<r, c>>].state # "none"}
  <1>1. Creates(r)
    BY DEF CreateInv
  <1>2. CASE \A c \in req[r].contents : row[<<r, c>>].state # "none"
    <2>1. made = req[r].contents
      BY <1>2
    <2> QED BY <2>1
  <1>3. CASE \A c \in Contents : row[<<r, c>>].state = "none"
    <2>1. req[r].contents \subseteq Contents
      BY DEF TypeInv, TypeOK
    <2>2. made = {}
      BY <1>3, <2>1
    <2>3. pc[r] = "ok" => made = req[r].contents \/ HasLost(r)
      BY <1>1, <2>2 DEF Creates
    <2> QED BY <2>2, <2>3 DEF HasLost
  <1> QED BY <1>1, <1>2, <1>3 DEF Creates

(* A request that has ended has no storage and no file in its transaction. *)
LEMMA NoLocks == StepInv => EndedHoldNoLock
  BY DEF StepInv, TxFits, EndedHoldNoLock, Steps

-----------------------------------------------------------------------------
(* The list of a key and the rows of its files                             *)

(* A request that was made stays what it is. *)
LEMMA AskedStay ==
  ASSUME TypeOK, StepInv, [Next]_vars
  PROVE  \A q \in Requests : pc[q] # "idle" =>
            /\ req'[q].kind = req[q].kind /\ req'[q].user = req[q].user
            /\ req'[q].file = req[q].file
  <1>1. req \in [Requests -> ReqType]
    BY Types
  <1>2. ASSUME NEW r \in Requests, Arrives(r), NEW q \in Requests, pc[q] # "idle"
        PROVE  req'[q] = req[q]
    <2>1. PICK p : pc[r] = "idle" /\ req' = [req EXCEPT ![r] = p]
      BY <1>2, Arrival DEF Begun
    <2> QED BY <1>1, <1>2, <2>1
  <1>3. ASSUME NEW r \in Requests, Step(r) \/ StatementFails(r), NEW q \in Requests
        PROVE  /\ req'[q].kind = req[q].kind /\ req'[q].user = req[q].user
               /\ req'[q].file = req[q].file
    BY <1>3, OneRequest
  <1>4. ASSUME NEW f \in Files, UploadSucceeds(f) \/ UploadFails(f) PROVE req' = req
    BY <1>4 DEF UploadSucceeds, UploadFails
  <1>5. ASSUME Crash, NEW q \in Requests
        PROVE  /\ req'[q].kind = req[q].kind /\ req'[q].user = req[q].user
               /\ req'[q].file = req[q].file
    BY <1>1, <1>5 DEF Crash, ReqType
  <1>6. ASSUME UNCHANGED vars PROVE req' = req
    BY <1>6 DEF vars
  <1>7. ASSUME NEW r \in Requests, CommitFails(r) PROVE req' = req
    BY <1>7, CommitLost
  <1> QED BY <1>2, <1>3, <1>4, <1>5, <1>6, <1>7 DEF Next

(* A file whose row is there, or is to be inserted, stays the same user's. *)
LEMMA UsersStay ==
  ASSUME TypeOK, StepInv, CreateInv, [Next]_vars, NEW f \in Files,
         row[f].state # "none" \/ f \in uploads \cup lost \cup tx[f[1]].inserted
  PROVE  UserOf(f)' = UserOf(f) /\ KeyOf(f)' = KeyOf(f)
  <1>1. f[1] \in Requests /\ req[f[1]].kind = "create"
    BY DEF CreateInv, FileFits, Files
  <1>2. pc[f[1]] # "idle"
    BY <1>1 DEF StepInv, StepFits, KindsAt
  <1> QED BY <1>1, <1>2, AskedStay DEF UserOf, KeyOf, KeyPath, ContentOf

(* What is asked to be deleted stays so. *)
LEMMA DeletesStay ==
  ASSUME TypeOK, StepInv, [Next]_vars, NEW f, DeleteAsked(f)
  PROVE  DeleteAsked(f)'
  <1>1. PICK q \in Requests : req[q].kind = "delete" /\ req[q].file = f
    BY DEF DeleteAsked
  <1>2. pc[q] # "idle"
    BY <1>1 DEF StepInv, StepFits, KindsAt
  <1> QED BY <1>1, <1>2, AskedStay DEF DeleteAsked

(* Files are listed while they are live. *)
LEMMA NextListed ==
  TypeOK /\ StepInv /\ ListedFilesAreLive /\ [Next]_vars => ListedFilesAreLive'
  <1> SUFFICES ASSUME TypeOK, StepInv, ListedFilesAreLive, [Next]_vars
               PROVE  ListedFilesAreLive'
    OBVIOUS
  <1>1. CASE UNCHANGED <<row, permission, listed>>
    BY <1>1 DEF ListedFilesAreLive, Live
  <1>2. ASSUME NEW r \in Requests, SaveFile(r) PROVE ListedFilesAreLive'
    <2>1. /\ listed' = listed /\ permission' = permission
          /\ row' = [row EXCEPT ![req[r].file] = Row("live", req[r].size)]
      BY <1>2 DEF SaveFile
    <2>2. \A f \in Files : row'[f] = row[f] \/ row'[f] = Row("live", req[r].size)
      BY <2>1 DEF TypeOK
    <2> QED BY <2>1, <2>2 DEF ListedFilesAreLive, Live, Row, TypeOK
  <1>3. ASSUME NEW r \in Requests, Commit(r) PROVE ListedFilesAreLive'
    <2>1. TxFits(r) /\ tx[r].inserted \subseteq Files
      BY DEF StepInv, TypeOK
    <2>2. ASSUME NEW f \in listed' PROVE Live(f)' /\ permission'[f] = "owner"
      <3>1. CASE f \in tx[r].inserted
        <4>1. row'[f] = Row("live", SizeOf[ContentOf(f)]) /\ permission'[f] = "owner"
          BY <1>3, <2>1, <3>1, Committed
        <4> QED BY <4>1 DEF Live, Row
      <3>2. CASE f \notin tx[r].inserted
        <4>1. f \in listed /\ f \in Files /\ f \notin tx[r].deleted
          BY <1>3, <2>1, <2>2, <3>2, Committed DEF TypeOK
        <4>2. row'[f] = row[f] /\ permission'[f] = permission[f]
          BY <1>3, <2>1, <3>2, <4>1, Committed
        <4> QED BY <4>1, <4>2 DEF ListedFilesAreLive, Live
      <3> QED BY <3>1, <3>2
    <2> QED BY <2>2 DEF ListedFilesAreLive
  <1>4. ASSUME NEW r \in Requests, Arrives(r) PROVE UNCHANGED <<row, permission, listed>>
    BY <1>4, Arrival DEF Begun
  <1>5. ASSUME NEW r \in Requests, Step(r), ~SaveFile(r), ~Commit(r)
        PROVE  UNCHANGED <<row, permission, listed>>
    BY <1>5 DEF Step, ReadKey, SaveKey, CreateFile, ReadUsed, WriteUsed, FindFile,
           DeleteFileFromS3, DeleteRows, FetchObject, ListFiles, rows
  <1>6. ASSUME NEW r \in Requests, StatementFails(r)
        PROVE  UNCHANGED <<row, permission, listed>>
    BY <1>6, Failure
  <1>7. ASSUME NEW f \in Files, UploadSucceeds(f) \/ UploadFails(f)
        PROVE  UNCHANGED <<row, permission, listed>>
    BY <1>7 DEF UploadSucceeds, UploadFails, rows
  <1>8. ASSUME Crash \/ UNCHANGED vars PROVE UNCHANGED <<row, permission, listed>>
    BY <1>8 DEF Crash, rows, vars
  <1>9. ASSUME NEW r \in Requests, CommitFails(r)
        PROVE  UNCHANGED <<row, permission, listed>>
    BY <1>9, CommitLost
  <1> QED BY <1>1, <1>2, <1>3, <1>4, <1>5, <1>6, <1>7, <1>8, <1>9 DEF Next

-----------------------------------------------------------------------------
(* The objects of the files                                                *)

(* Of a file before it is listed, too: from the time its row is inserted.  *)
KeepsObject(f) ==
    row[f].state # "none" \/ f \in tx[f[1]].inserted =>
        \/ ~IsSole(f) \/ DeleteAsked(f)
        \/ KeyOf(f) \in objects \/ f \in uploads \cup lost

ObjectInv == \A f \in Files : KeepsObject(f)

(* There is no object to be kept at the start. *)
LEMMA InitObjectInv == Init => ObjectInv
  <1> SUFFICES ASSUME Init, NEW f \in Files PROVE KeepsObject(f)
    BY DEF ObjectInv
  <1>1. row[f].state = "none" /\ f[1] \in Requests /\ tx[f[1]] = NoTx
    BY DEF Init, Row, Files
  <1> QED BY <1>1, TxTypes DEF KeepsObject

(* What a file has to keep: its object, or an upload. *)
LEMMA ObjectKept ==
  ASSUME TypeOK, StepInv, CreateInv, [Next]_vars, NEW f \in Files,
         row[f].state # "none" \/ f \in tx[f[1]].inserted, KeepsObject(f),
         KeyOf(f) \in objects => \/ KeyOf(f) \in objects' \/ ~IsSole(f) \/ DeleteAsked(f),
         f \in uploads \cup lost =>
            \/ f \in uploads' \cup lost' \/ KeyOf(f) \in objects'
  PROVE  KeepsObject(f)'
  <1>1. UserOf(f)' = UserOf(f) /\ KeyOf(f)' = KeyOf(f)
    BY UsersStay
  <1>2. ~IsSole(f) => ~IsSole(f)'
    <2>1. SUFFICES ASSUME NEW g \in Files, g # f, row[g].state # "none",
                          UserOf(g) = UserOf(f), ContentOf(g) = ContentOf(f)
                   PROVE  ~IsSole(f)'
      BY DEF IsSole
    <2>2. row'[g].state # "none" /\ UserOf(g)' = UserOf(g)
      BY <2>1, RowsStay, UsersStay
    <2> QED BY <1>1, <2>1, <2>2 DEF IsSole, ContentOf
  <1>3. DeleteAsked(f) => DeleteAsked(f)'
    BY DeletesStay
  <1> QED BY <1>1, <1>2, <1>3 DEF KeepsObject

(* Only the delete of a file, or of one with its content and user, takes its
   object; and a file is inserted with its upload.  *)
LEMMA NextObjectInv ==
  TypeOK /\ StepInv /\ CreateInv /\ ObjectInv /\ [Next]_vars => ObjectInv'
  <1> SUFFICES ASSUME TypeOK, StepInv, CreateInv, ObjectInv, [Next]_vars,
                      NEW f \in Files
               PROVE  KeepsObject(f)'
    BY DEF ObjectInv
  <1> DEFINE Old == row[f].state # "none" \/ f \in tx[f[1]].inserted
             Kept == uploads \cup lost \subseteq uploads' \cup lost'
  <1>1. /\ tx \in [Requests -> TxType] /\ NoTx.inserted = {} /\ NewTx.inserted = {}
        /\ f[1] \in Requests
    BY Types, TxTypes DEF Files
  <1>2. ASSUME NEW r \in Requests, Arrives(r) PROVE KeepsObject(f)'
    <2>1. PICK t \in {NoTx, NewTx} :
            tx' = [tx EXCEPT ![r] = t] /\ UNCHANGED <<row, objects, uploads, lost>>
      BY <1>2, Arrival DEF Begun
    <2>2. CASE Old
      BY <2>1, <2>2, ObjectKept DEF ObjectInv
    <2>3. CASE ~Old
      <3>1. row'[f].state = "none" /\ f \notin tx'[f[1]].inserted
        BY <1>1, <2>1, <2>3
      <3> QED BY <3>1 DEF KeepsObject
    <2> QED BY <2>2, <2>3
  <1>3. ASSUME NEW r \in Requests, Step(r) \/ StatementFails(r) PROVE KeepsObject(f)'
    <2>1. /\ lost' = lost
          /\ \/ uploads' = uploads /\ tx'[r].inserted \subseteq tx[r].inserted
             \/ /\ req[r].kind = "create"
                /\ \E c \in req[r].todo : /\ uploads' = uploads \cup {<<r, c>>}
                                          /\ tx'[r].inserted = tx[r].inserted \cup {<<r, c>>}
      BY <1>3, StepFiles
    <2>2. ASSUME KeyOf(f) \in objects, KeyOf(f) \notin objects'
          PROVE  ~IsSole(f) \/ DeleteAsked(f)
      <3> DEFINE g == req[r].file
      <3>1. pc[r] = "object" /\ objects' = objects \ {KeyOf(g)}
        BY <1>3, <2>2, Failure, Committed
           DEF Step, StepInv, ReadKey, SaveKey, CreateFile, ReadUsed, WriteUsed, FindFile,
               DeleteFileFromS3, At, DeleteRows, SaveFile, FetchObject, ListFiles
      <3>2. req[r].kind = "delete"
        BY <3>1 DEF StepInv, StepFits, KindsAt
      <3>3. g \in Files /\ row[g].state # "none"
        BY <3>2 DEF StepInv, StepFits, Finding
      <3>4. KeyOf(g) = KeyOf(f)
        BY <2>2, <3>1
      <3>5. UserOf(g) = UserOf(f) /\ ContentOf(g) = ContentOf(f)
        BY <3>4 DEF KeyOf, KeyPath
      <3> QED BY <3>2, <3>3, <3>5 DEF IsSole, DeleteAsked
    <2>3. CASE Old
      BY <2>1, <2>2, <2>3, ObjectKept DEF ObjectInv
    <2>4. CASE ~Old
      <3>1. f[1] # r => tx'[f[1]] = tx[f[1]]
        BY <1>1, <1>3, OneRequest
      <3>2. row'[f].state = "none"
        <4>1. f \in tx[r].inserted => f[1] = r
          BY DEF CreateInv, FilesOf
        <4>2. CASE Step(r)
          BY <2>4, <4>1, <4>2, NewRows
        <4>3. CASE StatementFails(r)
          BY <2>4, <4>3, Failure
        <4> QED BY <1>3, <4>2, <4>3
      <3>3. f \in tx'[f[1]].inserted => f \in uploads'
        BY <2>1, <2>4, <3>1
      <3> QED BY <3>2, <3>3 DEF KeepsObject
    <2> QED BY <2>3, <2>4
  <1>4. ASSUME NEW g \in Files, UploadSucceeds(g) \/ UploadFails(g) PROVE KeepsObject(f)'
    <2>1. /\ row' = row /\ objects \subseteq objects' /\ lost \subseteq lost'
          /\ tx' = tx \/ tx' = [tx EXCEPT ![g[1]] = NoTx]
          /\ uploads' = uploads \ {g}
          /\ KeyOf(g) \in objects' \/ g \in lost'
      BY <1>4 DEF UploadSucceeds, UploadFails, Rollback, rows
    <2>2. CASE Old
      BY <2>1, <2>2, ObjectKept DEF ObjectInv
    <2>3. CASE ~Old
      <3>1. row'[f].state = "none" /\ f \notin tx'[f[1]].inserted
        BY <1>1, <2>1, <2>3
      <3> QED BY <3>1 DEF KeepsObject
    <2> QED BY <2>2, <2>3
  <1>5. ASSUME Crash PROVE KeepsObject(f)'
    <2>1. /\ row' = row /\ objects' = objects /\ lost' = lost \cup uploads
          /\ tx' = [r \in Requests |-> NoTx]
      BY <1>5 DEF Crash, rows
    <2>2. CASE Old
      BY <2>1, <2>2, ObjectKept DEF ObjectInv
    <2>3. CASE ~Old
      <3>1. row'[f].state = "none" /\ f \notin tx'[f[1]].inserted
        BY <1>1, <2>1, <2>3
      <3> QED BY <3>1 DEF KeepsObject
    <2> QED BY <2>2, <2>3
  <1>6. CASE UNCHANGED vars
    <2>1. UNCHANGED <<row, tx, objects, uploads, lost>>
      BY <1>6 DEF vars
    <2>2. CASE Old
      BY <2>1, <2>2, ObjectKept DEF ObjectInv
    <2>3. CASE ~Old
      BY <2>1, <2>3 DEF KeepsObject
    <2> QED BY <2>2, <2>3
  <1>7. ASSUME NEW r \in Requests, CommitFails(r) PROVE KeepsObject(f)'
    <2>1. /\ row' = row /\ objects' = objects /\ uploads' = uploads
          /\ lost \subseteq lost' /\ tx' = [tx EXCEPT ![r] = NoTx]
      BY <1>7, CommitLost
    <2>2. CASE Old
      BY <2>1, <2>2, ObjectKept DEF ObjectInv
    <2>3. CASE ~Old
      <3>1. row'[f].state = "none" /\ f \notin tx'[f[1]].inserted
        BY <1>1, <2>1, <2>3
      <3> QED BY <3>1 DEF KeepsObject
    <2> QED BY <2>2, <2>3
  <1> QED BY <1>2, <1>3, <1>4, <1>5, <1>6, <1>7 DEF Next

(* The list of a key names live files only, and one that is its user's only file
   of its content has its object, or an upload that runs or failed, until its
   delete is asked for: for any requests, overlaps and failures.  *)
THEOREM KeyFilesAgree == Spec => []KeyFilesInv
  <1>1. Init => ListedFilesAreLive
    BY DEF Init, ListedFilesAreLive
  <1>2. /\ TypeInv /\ StepInv /\ CreateInv /\ ListedFilesAreLive /\ ObjectInv
        /\ [Next]_vars
        => (ListedFilesAreLive /\ ObjectInv)'
    BY NextListed, NextObjectInv DEF TypeInv
  <1>3. TypeInv /\ ListedFilesAreLive /\ ObjectInv => KeyFilesInv
    <2> SUFFICES ASSUME TypeInv, ListedFilesAreLive, ObjectInv
                 PROVE  KeyFilesInv
      OBVIOUS
    <2>1. \A f \in listed : f \in Files /\ row[f].state # "none"
      BY DEF TypeInv, TypeOK, ListedFilesAreLive, Live
    <2>2. SoleFilesKeepObject
      BY <2>1 DEF SoleFilesKeepObject, ObjectInv, KeepsObject
    <2> QED BY <2>2 DEF KeyFilesInv, TypeInv
  <1> QED BY <1>1, <1>2, <1>3, SpecInv, InitObjectInv, PTL DEF Spec

-----------------------------------------------------------------------------
(* Requests that come one by one, of which none fails                      *)

(* what was found is still there *)
FoundIsLive(r) ==
    pc[r] \in Found /\ req[r].kind \in {"delete", "update"} => Live(req[r].file)

CalmInv ==
    calm =>
        /\ \A q, r \in InFlight : q = r
        /\ lost = {}
        /\ \A r \in Requests : FoundIsLive(r)

(* The steps after which requests have come one by one, and none has failed. *)
LEMMA CalmSteps ==
  ASSUME TypeOK, [Next]_vars, calm'
  PROVE  /\ calm
         /\ \/ \E r \in Requests : Arrives(r) /\ InFlight = {}
            \/ \E r \in Requests : Step(r)
            \/ \E f \in Files : UploadSucceeds(f)
            \/ UNCHANGED vars
  <1>1. ASSUME NEW r \in Requests, Arrives(r) PROVE calm /\ InFlight = {}
    BY <1>1, Arrival DEF Begun
  <1>2. ASSUME NEW r \in Requests, Step(r) PROVE calm
    BY <1>2 DEF Step, ReadKey, SaveKey, CreateFile, ReadUsed, WriteUsed, FindFile,
           DeleteFileFromS3, DeleteRows, SaveFile, FetchObject, ListFiles, Commit, At
  <1>3. ASSUME NEW r \in Requests PROVE ~StatementFails(r) /\ ~CommitFails(r)
    BY <1>3, Failure, CommitLost
  <1>4. ASSUME NEW f \in Files PROVE ~UploadFails(f) /\ (UploadSucceeds(f) => calm)
    BY <1>4 DEF UploadFails, Fault, UploadSucceeds
  <1>5. ~Crash /\ (UNCHANGED vars => calm)
    BY DEF Crash, Fault, vars
  <1> QED BY <1>1, <1>2, <1>3, <1>4, <1>5 DEF Next

(* One request at a time finds a file that is there. *)
LEMMA NextCalmInv == TypeOK /\ StepInv /\ CalmInv /\ [Next]_vars => CalmInv'
  <1> SUFFICES ASSUME TypeOK, StepInv, CalmInv, [Next]_vars, calm'
               PROVE  /\ \A q, r \in InFlight' : q = r
                      /\ lost' = {}
                      /\ \A r \in Requests : FoundIsLive(r)'
    BY DEF CalmInv
  <1>1. /\ calm /\ lost = {} /\ \A q, r \in InFlight : q = r
        /\ \A r \in Requests : FoundIsLive(r)
    BY CalmSteps DEF CalmInv
  <1>2. /\ pc \in [Requests -> {"idle"} \cup Steps \cup Ended]
        /\ Found \subseteq Steps /\ "readKey" \notin Found
    BY Types DEF Found, Steps
  <1>3. ASSUME NEW r \in Requests, Arrives(r), InFlight = {}
        PROVE  /\ \A q \in InFlight' : q = r
               /\ lost' = {}
               /\ \A q \in Requests : pc'[q] \notin Found
    <2>1. pc' = [pc EXCEPT ![r] = "readKey"] /\ lost' = lost
      BY <1>3, Arrival DEF Begun
    <2>2. \A q \in Requests : pc[q] \notin Steps
      BY <1>3 DEF InFlight
    <2>3. \A q \in Requests \ {r} : pc'[q] \notin Steps
      BY <1>2, <2>1, <2>2
    <2>4. pc'[r] = "readKey"
      BY <1>2, <2>1
    <2>5. \A q \in Requests : pc'[q] \notin Found
      BY <1>2, <2>3, <2>4
    <2> QED BY <1>1, <2>1, <2>3, <2>5 DEF InFlight
  <1>4. ASSUME NEW r \in Requests, Step(r)
        PROVE  /\ \A q \in InFlight' : q = r
               /\ lost' = {}
               /\ FoundIsLive(r)'
    <2>1. /\ \A q \in Requests \ {r} : pc'[q] = pc[q]
          /\ req'[r].kind = req[r].kind /\ req'[r].file = req[r].file /\ pc[r] \in Steps
      BY <1>4, OneRequest
    <2>2. \A q \in Requests \ {r} : pc[q] \notin Steps
      BY <1>1, <2>1 DEF InFlight
    <2>3. lost' = lost
      BY <1>4, StepFiles
    <2>4. ASSUME pc'[r] \in Found, req[r].kind \in {"delete", "update"}
          PROVE  row' = row /\ Live(req[r].file)
      <3>1. \A s \in Ended \cup {"saveKey", AfterKey(r)} : s \notin Found
        BY DEF Ended, AfterKey, Found
      <3>2. CASE ReadKey(r) \/ SaveKey(r) \/ SaveFile(r) \/ FetchObject(r) \/ ListFiles(r)
                 \/ Commit(r)
        <4>1. pc'[r] \in Ended \cup {"saveKey", AfterKey(r)}
          BY <1>2, <3>2 DEF ReadKey, SaveKey, SaveFile, FetchObject, ListFiles, Commit,
                            Goes, Ended
        <4> QED BY <2>4, <3>1, <4>1
      <3>3. CASE FindFile(r)
        <4>1. row' = row /\ (Live(req[r].file) \/ pc'[r] \in Ended)
          BY <1>2, <3>3 DEF FindFile, Goes, rows, Ended
        <4> QED BY <2>4, <3>1, <4>1
      <3>4. CASE CreateFile(r) \/ ReadUsed(r) \/ WriteUsed(r) \/ DeleteFileFromS3(r)
                 \/ DeleteRows(r)
        <4>1. row' = row /\ pc[r] \in {"file", "readUsed", "writeUsed", "object", "rows"}
          BY <3>4 DEF CreateFile, ReadUsed, WriteUsed, DeleteFileFromS3, DeleteRows, At,
                      rows
        <4>2. pc[r] # "file"
          BY <2>4 DEF StepInv, StepFits, KindsAt
        <4> QED BY <1>1, <2>4, <4>1, <4>2 DEF FoundIsLive, Found
      <3> QED BY <1>4, <3>2, <3>3, <3>4 DEF Step
    <2>5. FoundIsLive(r)'
      BY <2>1, <2>4 DEF FoundIsLive, Live
    <2> QED BY <1>1, <2>2, <2>3, <2>1, <2>5 DEF InFlight
  <1>5. ASSUME NEW f \in Files, UploadSucceeds(f)
        PROVE  UNCHANGED <<row, pc, req, lost>>
    BY <1>5 DEF UploadSucceeds, rows
  <1>6. ASSUME UNCHANGED vars PROVE UNCHANGED <<row, pc, req, lost>>
    BY <1>6 DEF vars
  <1>7. CASE UNCHANGED <<row, pc, req, lost>>
    BY <1>1, <1>7 DEF InFlight, FoundIsLive, Live
  <1>8. CASE \E r \in Requests : Arrives(r) /\ InFlight = {}
    BY <1>3, <1>8 DEF FoundIsLive
  <1>9. CASE \E r \in Requests : Step(r)
    <2>1. PICK r \in Requests : Step(r)
      BY <1>9
    <2>2. \A q \in Requests : pc'[q] \in Found => q \in InFlight'
      BY <1>2 DEF InFlight
    <2> QED BY <1>4, <2>1, <2>2 DEF FoundIsLive
  <1> QED BY <1>5, <1>6, <1>7, <1>8, <1>9, CalmSteps

(* It holds in every behaviour. *)
LEMMA SpecCalm == Spec => []CalmInv
  <1>1. Init => CalmInv
    BY DEF Init, CalmInv, InFlight, FoundIsLive, Found, Steps
  <1>2. TypeInv => TypeOK
    BY DEF TypeInv
  <1> QED BY <1>1, <1>2, NextCalmInv, SpecInv, PTL DEF Spec

(* While requests come one by one and nothing fails, deletes are final. *)
THEOREM DeletesStayFinal == Spec => DeletedStayDeleted
  <1>1. TypeOK /\ StepInv /\ CreateInv /\ CalmInv /\ [Next]_vars
        => [calm' => \A f \in Files :
                row[f].state = "deleted" => row'[f].state = "deleted"]_vars
    <2> SUFFICES ASSUME TypeOK, StepInv, CreateInv, CalmInv, [Next]_vars, calm',
                        NEW f \in Files, row[f].state = "deleted"
                 PROVE  row'[f].state = "deleted"
      OBVIOUS
    <2>1. ASSUME NEW r \in Requests, Step(r) PROVE row'[f].state = "deleted"
      <3>1. row[f] \in [state : {"none", "live", "deleted"}, size : Nat]
        BY DEF TypeOK
      <3>2. pc[r] = "save" => f # req[r].file
        <4>1. calm
          BY CalmSteps
        <4>2. pc[r] = "save" => Live(req[r].file)
          BY <4>1 DEF CalmInv, FoundIsLive, Found, StepInv, StepFits, KindsAt
        <4> QED BY <4>2 DEF Live
      <3>3. pc[r] = "commit" => f \notin tx[r].inserted
        <4>1. ASSUME f \in tx[r].inserted, pc[r] = "commit" PROVE FALSE
          <5>1. f[1] = r /\ f = <<r, f[2]>> /\ f[2] \in Contents
            BY <4>1 DEF CreateInv, FilesOf, Files
          <5>2. Creates(r)
            BY <4>1 DEF CreateInv, StepInv, TxFits
          <5>3. row[<<r, f[2]>>].state = "none"
            BY <4>1, <5>1, <5>2 DEF Creates
          <5> QED BY <5>1, <5>3
        <4> QED BY <4>1
      <3>4. [row[f] EXCEPT !.state = "deleted"].state = "deleted"
        BY <3>1
      <3> QED BY <2>1, <3>2, <3>3, <3>4, RowsOfStep
    <2>2. ASSUME NEW r \in Requests, Arrives(r) PROVE row' = row
      BY <2>2, Arrival DEF Begun
    <2>3. ASSUME NEW g \in Files, UploadSucceeds(g) PROVE row' = row
      BY <2>3 DEF UploadSucceeds, rows
    <2>4. UNCHANGED vars => row' = row
      BY DEF vars
    <2> QED BY <2>1, <2>2, <2>3, <2>4, CalmSteps
  <1>2. TypeInv => TypeOK
    BY DEF TypeInv
  <1> QED BY <1>1, <1>2, SpecInv, SpecCalm, PTL DEF Spec, DeletedStayDeleted

-----------------------------------------------------------------------------
(* The counter of a key                                                    *)

(* the requests that have been through FindApiKeyByUserID and IncrementKeyRequests,
   or have failed there *)
Counted(u) == {r \in Requests : pc[r] \notin {"idle", "readKey", "saveKey"}
                                /\ req[r].user = u}

(* The counter, and the one that a request has read, are not ahead of them. *)
CountInv ==
    /\ \A u \in Users : /\ counted[u] <= Cardinality(Counted(u))
                        /\ calm => counted[u] = Cardinality(Counted(u))
    /\ \A r \in Requests, u \in Users : pc[r] = "saveKey" /\ u = req[r].user =>
         /\ req[r].seen <= Cardinality(Counted(u))
         /\ calm => req[r].seen = Cardinality(Counted(u))

(* Sets of requests are finite, and have numbers of elements. *)
LEMMA CountsAreNumbers ==
  /\ \A S \in SUBSET Requests : IsFiniteSet(S) /\ Cardinality(S) \in Nat
  /\ \A S \in SUBSET Requests, T \in SUBSET Requests :
        S \subseteq T => Cardinality(S) <= Cardinality(T)
  /\ \A S \in SUBSET Requests : \A r \in Requests \ S :
        Cardinality(S \cup {r}) = Cardinality(S) + 1
  <1>1. IsFiniteSet(Requests)
    BY ConstantsAssumption, FS_Interval DEF Requests
  <1>2. \A S \in SUBSET Requests : IsFiniteSet(S) /\ Cardinality(S) \in Nat
    BY <1>1, FS_Subset, FS_CardinalityType
  <1>3. \A S \in SUBSET Requests, T \in SUBSET Requests :
            S \subseteq T => Cardinality(S) <= Cardinality(T)
    BY <1>2, FS_Subset
  <1>4. \A S \in SUBSET Requests : \A r \in Requests \ S :
            Cardinality(S \cup {r}) = Cardinality(S) + 1
    BY <1>2, FS_AddElement
  <1> QED BY <1>2, <1>3, <1>4

(* No request is counted at the start. *)
LEMMA InitCountInv == Init => CountInv
  <1> SUFFICES ASSUME Init PROVE CountInv
    OBVIOUS
  <1>1. \A r \in Requests : pc[r] = "idle"
    BY DEF Init
  <1>2. \A u \in Users : counted[u] = 0 /\ Counted(u) = {}
    BY <1>1 DEF Init, Counted
  <1> QED BY <1>1, <1>2, FS_EmptySet DEF CountInv

(* A step that no counter is written in, and after which no fewer requests have
   gone on.  *)
LEMMA CountKept ==
  ASSUME TypeOK, CountInv, counted' = counted,
         \A u \in Users : /\ Counted(u) \subseteq Counted(u)'
                          /\ calm' => calm /\ Counted(u)' = Counted(u),
         \A q \in Requests : pc'[q] = "saveKey" =>
            /\ pc[q] = "saveKey" /\ req'[q].seen = req[q].seen
            /\ req'[q].user = req[q].user
  PROVE  CountInv'
  <1> DEFINE n == [u \in Users |-> Cardinality(Counted(u))]
             m == [u \in Users |-> Cardinality(Counted(u)')]
  <1>1. \A u \in Users : Counted(u) \in SUBSET Requests /\ Counted(u)' \in SUBSET Requests
    BY DEF Counted
  <1>2. \A u \in Users : n[u] \in Nat /\ m[u] \in Nat /\ n[u] <= m[u]
    BY <1>1, CountsAreNumbers
  <1>3. \A q \in Requests : req[q].user \in Users /\ req[q].seen \in Nat
    BY Types DEF ReqType
  <1>4. \A u \in Users : n[u] = Cardinality(Counted(u)) /\ m[u] = Cardinality(Counted(u)')
    OBVIOUS
  <1>5. \A u \in Users : calm' => calm /\ m[u] = n[u]
    BY <1>4
  <1> HIDE DEF n, m
  <1>6. \A u \in Users : /\ counted[u] \in Nat /\ counted[u] <= n[u]
                         /\ calm => counted[u] = n[u]
    BY <1>4 DEF CountInv, TypeOK
  <1>7. \A u \in Users : counted'[u] <= m[u] /\ (calm' => counted'[u] = m[u])
    BY <1>2, <1>5, <1>6
  <1>8. ASSUME NEW q \in Requests, NEW u \in Users, pc'[q] = "saveKey", u = req'[q].user
        PROVE  req'[q].seen <= m[u] /\ (calm' => req'[q].seen = m[u])
    <2>1. pc[q] = "saveKey" /\ req'[q].seen = req[q].seen /\ u = req[q].user
      BY <1>8
    <2>2. req[q].seen <= n[u] /\ (calm => req[q].seen = n[u])
      BY <1>4, <2>1 DEF CountInv
    <2> QED BY <1>2, <1>3, <1>5, <2>1, <2>2
  <1>9. /\ \A u \in Users : /\ counted'[u] <= Cardinality(Counted(u)')
                            /\ calm' => counted'[u] = Cardinality(Counted(u)')
        /\ \A q \in Requests, u \in Users : pc'[q] = "saveKey" /\ u = req'[q].user =>
             /\ req'[q].seen <= Cardinality(Counted(u)')
             /\ calm' => req'[q].seen = Cardinality(Counted(u)')
    BY <1>4, <1>7, <1>8
  <1> QED BY <1>9 DEF CountInv

(* A step in which nothing fails is as calm as before. *)
LEMMA CalmOfStep ==
  ASSUME NEW r \in Requests, Step(r)
  PROVE  calm' = calm
  BY DEF Step, ReadKey, SaveKey, CreateFile, ReadUsed, WriteUsed, FindFile,
         DeleteFileFromS3, DeleteRows, SaveFile, FetchObject, ListFiles, Commit, At

(* A request counts itself once, unless others do at the same time. *)
LEMMA NextCountInv ==
  TypeOK /\ StepInv /\ CalmInv /\ CountInv /\ [Next]_vars => CountInv'
  <1> SUFFICES ASSUME TypeOK, StepInv, CalmInv, CountInv, [Next]_vars PROVE CountInv'
    OBVIOUS
  <1>1. /\ req \in [Requests -> ReqType]
        /\ pc \in [Requests -> {"idle"} \cup Steps \cup Ended]
    BY Types
  <1> DEFINE Early == {"idle", "readKey", "saveKey"}
  <1>2. ASSUME NEW r \in Requests, Arrives(r) PROVE CountInv'
    <2>1. PICK x \in ReqType, t \in {NoTx, NewTx} : Begun(r, x, t)
      BY <1>2, Arrival
    <2>2. /\ pc[r] = "idle" /\ pc' = [pc EXCEPT ![r] = "readKey"]
          /\ req' = [req EXCEPT ![r] = x]
          /\ counted' = counted /\ (calm' => calm)
      BY <2>1 DEF Begun
    <2>3. /\ pc'[r] = "readKey"
          /\ \A q \in Requests \ {r} : pc'[q] = pc[q] /\ req'[q] = req[q]
      BY <1>1, <2>2
    <2>4. \A u \in Users : Counted(u)' = Counted(u)
      BY <2>2, <2>3 DEF Counted
    <2> QED BY <2>2, <2>3, <2>4, CountKept
  <1>3. ASSUME NEW r \in Requests, Step(r) \/ StatementFails(r),
               pc[r] # "readKey" \/ ~Step(r), ~SaveKey(r)
        PROVE  CountInv'
    <2>1. /\ \A q \in Requests \ {r} : pc'[q] = pc[q] /\ req'[q] = req[q]
          /\ req'[r].user = req[r].user /\ pc[r] \in Steps
      BY <1>3, OneRequest
    <2>2. counted' = counted
      BY <1>3, Failure, Committed
         DEF Step, StepInv, ReadKey, CreateFile, ReadUsed, WriteUsed, FindFile,
             DeleteFileFromS3, DeleteRows, SaveFile, FetchObject, ListFiles
    <2>3. AfterKey(r) \notin Early /\ \A x \in Ended \cup Found : x \notin Early
      BY DEF AfterKey, Ended, Found
    <2>4. pc'[r] \notin Early /\ (Step(r) => pc[r] \notin Early)
      <3>1. Step(r) => pc[r] \notin Early
        <4>1. Step(r) /\ ~ReadKey(r) => pc[r] \notin Early
          BY <1>3 DEF Step, CreateFile, ReadUsed, WriteUsed, FindFile, DeleteFileFromS3,
                      DeleteRows, SaveFile, FetchObject, ListFiles, Commit, At
        <4> QED BY <1>3, <4>1 DEF ReadKey, At
      <3>2. CASE StatementFails(r)
        <4>1. PICK x \in {AfterKey(r), "readUsed", "ok", "left", "failed"} :
                pc' = [pc EXCEPT ![r] = x]
          BY <3>2, Failure
        <4>2. pc'[r] \notin Early
          BY <1>1, <2>3, <4>1 DEF Ended, Found
        <4>3. ~Step(r) \/ pc[r] \notin Early
          BY <3>1
        <4> QED BY <4>2, <4>3
      <3>3. CASE CreateFile(r) \/ ReadUsed(r) \/ WriteUsed(r)
        BY <1>1, <2>1, <3>3 DEF CreateFile, ReadUsed, WriteUsed, At, Goes
      <3>4. CASE FindFile(r)
        <4>1. pc[r] = "find" /\ req[r].kind \in Finding
          BY <3>4 DEF FindFile, At, StepInv, StepFits, KindsAt, Finding
        <4>2. AfterFind(r) \notin Early
          BY <4>1 DEF AfterFind, Finding
        <4> QED BY <1>1, <3>4, <4>1, <4>2 DEF FindFile, Goes
      <3>5. CASE DeleteFileFromS3(r) \/ DeleteRows(r) \/ SaveFile(r) \/ FetchObject(r)
                 \/ ListFiles(r) \/ Commit(r)
        BY <1>1, <3>5 DEF DeleteFileFromS3, DeleteRows, SaveFile, FetchObject, ListFiles,
                          Commit, At, Goes
      <3>6. StatementFails(r) \/ (Step(r) /\ ~ReadKey(r))
        BY <1>3 DEF ReadKey, At
      <3>7. CASE Step(r)
        BY <1>3, <3>2, <3>3, <3>4, <3>5, <3>6 DEF Step
      <3> QED BY <1>3, <3>1, <3>2, <3>7
    <2>5. calm' => calm /\ pc[r] \notin Early
      <3>1. StatementFails(r) => ~calm'
        BY Failure
      <3>2. Step(r) => calm' = calm
        BY <1>3, CalmOfStep
      <3> QED BY <1>3, <2>4, <3>1, <3>2
    <2>6. \A u \in Users : Counted(u) \subseteq Counted(u)'
      BY <2>1, <2>4 DEF Counted
    <2>7. \A u \in Users : calm' => Counted(u)' = Counted(u)
      BY <2>5, <2>1, <2>4 DEF Counted
    <2> QED BY <2>5, <2>1, <2>2, <2>4, <2>6, <2>7, CountKept
  <1>4. ASSUME NEW r \in Requests, ReadKey(r) PROVE CountInv'
    <2>1. /\ pc[r] = "readKey" /\ pc' = [pc EXCEPT ![r] = "saveKey"]
          /\ req' = [req EXCEPT ![r].seen = counted[req[r].user]]
          /\ counted' = counted /\ calm' = calm
      BY <1>4 DEF ReadKey, At, Goes
    <2>2. /\ pc'[r] = "saveKey" /\ req'[r].seen = counted[req[r].user]
          /\ req'[r].user = req[r].user /\ req[r].user \in Users
          /\ \A q \in Requests \ {r} : pc'[q] = pc[q] /\ req'[q] = req[q]
      BY <1>1, <2>1 DEF ReqType
    <2>3. \A u \in Users : Counted(u)' = Counted(u)
      BY <2>1, <2>2 DEF Counted
    <2>4. \A q \in Requests : req[q].user \in Users
      BY <1>1 DEF ReqType
    <2>5. \A u \in Users : /\ counted'[u] <= Cardinality(Counted(u)')
                           /\ calm' => counted'[u] = Cardinality(Counted(u)')
      BY <2>1, <2>3 DEF CountInv
    <2>6. ASSUME NEW q \in Requests, NEW u \in Users, pc'[q] = "saveKey", u = req'[q].user
          PROVE  /\ req'[q].seen <= Cardinality(Counted(u)')
                 /\ calm' => req'[q].seen = Cardinality(Counted(u)')
      <3>1. CASE q = r
        BY <2>1, <2>2, <2>5, <2>6, <3>1
      <3>2. CASE q # r
        <4>1. /\ req[q].seen <= Cardinality(Counted(u))
              /\ calm => req[q].seen = Cardinality(Counted(u))
          BY <2>2, <2>6, <3>2 DEF CountInv
        <4> QED BY <2>1, <2>2, <2>3, <3>2, <4>1
      <3> QED BY <3>1, <3>2
    <2> QED BY <2>5, <2>6 DEF CountInv
  <1>5. ASSUME NEW r \in Requests, SaveKey(r) PROVE CountInv'
    <2>1. /\ pc[r] = "saveKey" /\ pc' = [pc EXCEPT ![r] = AfterKey(r)]
          /\ req' = [req EXCEPT ![r].seen = 0] /\ calm' = calm
          /\ counted' = [counted EXCEPT ![req[r].user] = req[r].seen + 1]
      BY <1>5 DEF SaveKey, At, Goes, Forgets
    <2>2. AfterKey(r) \notin Early
      BY DEF AfterKey
    <2>3. /\ pc'[r] = AfterKey(r) /\ req[r].user \in Users /\ req[r].seen \in Nat
          /\ \A q \in Requests : /\ req'[q].user = req[q].user /\ req[q].user \in Users
                                 /\ req[q].seen \in Nat
          /\ \A q \in Requests \ {r} : pc'[q] = pc[q] /\ req'[q] = req[q]
      BY <1>1, <2>1 DEF ReqType
    <2>4. PICK u \in Users : u = req[r].user
      BY <2>3
    <2>5. /\ Counted(u)' = Counted(u) \cup {r} /\ r \notin Counted(u)
          /\ \A v \in Users \ {u} : Counted(v)' = Counted(v)
      BY <2>1, <2>2, <2>3, <2>4 DEF Counted
    <2>6. \A v \in Users : Counted(v) \in SUBSET Requests
      BY DEF Counted
    <2>7. /\ Cardinality(Counted(u)') = Cardinality(Counted(u)) + 1
          /\ \A v \in Users : Cardinality(Counted(v)) \in Nat
      BY <2>5, <2>6, CountsAreNumbers
    <2>8. /\ counted'[u] = req[r].seen + 1
          /\ \A v \in Users \ {u} : counted'[v] = counted[v]
      BY <2>1, <2>4 DEF TypeOK
    <2>9. /\ req[r].seen <= Cardinality(Counted(u))
          /\ calm => req[r].seen = Cardinality(Counted(u))
      BY <2>1, <2>4 DEF CountInv
    <2>10. \A v \in Users : /\ counted'[v] <= Cardinality(Counted(v)')
                            /\ calm' => counted'[v] = Cardinality(Counted(v)')
      <3>1. counted'[u] <= Cardinality(Counted(u)')
        BY <2>3, <2>7, <2>8, <2>9
      <3>2. calm' => counted'[u] = Cardinality(Counted(u)')
        BY <2>1, <2>7, <2>8, <2>9
      <3>3. \A v \in Users \ {u} : /\ counted'[v] <= Cardinality(Counted(v)')
                                   /\ calm' => counted'[v] = Cardinality(Counted(v)')
        BY <2>1, <2>5, <2>8 DEF CountInv
      <3> QED BY <3>1, <3>2, <3>3
    <2>11. ASSUME NEW q \in Requests, NEW v \in Users, pc'[q] = "saveKey", v = req'[q].user
           PROVE  /\ req'[q].seen <= Cardinality(Counted(v)')
                  /\ calm' => req'[q].seen = Cardinality(Counted(v)')
      <3>1. q # r
        BY <2>2, <2>3, <2>11
      <3>2. req[q].seen <= Cardinality(Counted(v))
        BY <2>3, <2>11, <3>1 DEF CountInv
      <3>3. Cardinality(Counted(v)') = Cardinality(Counted(v)) + (IF v = u THEN 1 ELSE 0)
        BY <2>5, <2>7
      <3>4. ~calm'
        <4>1. q \in InFlight /\ r \in InFlight
          BY <2>1, <2>3, <2>11, <3>1 DEF InFlight, Steps
        <4> QED BY <2>1, <3>1, <4>1 DEF CalmInv
      <3>5. Cardinality(Counted(v)) \in Nat /\ req[q].seen \in Nat
        BY <2>3, <2>7
      <3>6. req'[q].seen = req[q].seen
        BY <2>3, <3>1
      <3> QED BY <3>2, <3>3, <3>4, <3>5, <3>6
    <2> QED BY <2>10, <2>11 DEF CountInv
  <1>6. ASSUME NEW f \in Files, UploadSucceeds(f) \/ UploadFails(f) PROVE CountInv'
    <2>1. counted' = counted /\ pc' = pc /\ req' = req /\ (calm' => calm)
      BY <1>6 DEF UploadSucceeds, UploadFails, Fault
    <2>2. \A u \in Users : Counted(u)' = Counted(u)
      BY <2>1 DEF Counted
    <2> QED BY <2>1, <2>2, CountKept
  <1>7. ASSUME Crash PROVE CountInv'
    <2>1. /\ counted' = counted /\ calm' = FALSE
          /\ pc' = [r \in Requests |-> IF r \in InFlight THEN "lost" ELSE pc[r]]
          /\ req' = [r \in Requests |-> [req[r] EXCEPT !.seen = 0]]
      BY <1>7 DEF Crash, Fault
    <2>2. \A q \in Requests : /\ pc'[q] = IF pc[q] \in Steps THEN "lost" ELSE pc[q]
                              /\ req'[q].user = req[q].user
      BY <1>1, <2>1 DEF ReqType, InFlight
    <2>3. \A u \in Users : Counted(u) \subseteq Counted(u)'
      BY <2>2 DEF Counted
    <2>4. \A q \in Requests : pc'[q] # "saveKey"
      BY <2>2 DEF Steps
    <2> QED BY <2>1, <2>3, <2>4, CountKept
  <1>8. CASE UNCHANGED vars
    <2>1. counted' = counted /\ pc' = pc /\ req' = req /\ calm' = calm
      BY <1>8 DEF vars
    <2>2. \A u \in Users : Counted(u)' = Counted(u)
      BY <2>1 DEF Counted
    <2> QED BY <2>1, <2>2, CountKept
  <1>9. ASSUME NEW r \in Requests, Step(r), pc[r] = "readKey" PROVE ReadKey(r)
    BY <1>9 DEF Step, SaveKey, CreateFile, ReadUsed, WriteUsed, FindFile,
             DeleteFileFromS3, DeleteRows, SaveFile, FetchObject, ListFiles, Commit, At
  <1>10. ASSUME NEW r \in Requests, CommitFails(r) PROVE CountInv'
    <2>1. /\ counted' = counted /\ calm' = FALSE /\ req' = req
          /\ pc[r] = "commit" /\ pc'[r] = "ok"
          /\ \A q \in Requests \ {r} : pc'[q] = pc[q]
      BY <1>10, CommitLost
    <2>2. \A u \in Users : Counted(u) \subseteq Counted(u)'
      BY <2>1 DEF Counted
    <2> QED BY <2>1, <2>2, CountKept
  <1> QED BY <1>2, <1>3, <1>4, <1>5, <1>6, <1>7, <1>8, <1>9, <1>10 DEF Next

(* A key has been charged each request once, or less. *)
LEMMA CountsAreRight == TypeOK /\ StepInv /\ CountInv => RequestsAreCounted
  <1> SUFFICES ASSUME TypeOK, StepInv, CountInv, NEW u \in Users
               PROVE  /\ counted[u] <= RequestsOf(u)
                      /\ calm /\ InFlight = {} => counted[u] = RequestsOf(u)
    BY DEF RequestsAreCounted
  <1> DEFINE Made == {r \in Requests : req[r].kind # "none" /\ req[r].user = u}
  <1>1. /\ counted[u] \in Nat /\ counted[u] <= Cardinality(Counted(u))
        /\ calm => counted[u] = Cardinality(Counted(u))
    BY DEF CountInv, TypeOK
  <1>2. \A r \in Requests : /\ req[r].kind \in KindsAt(pc[r])
                            /\ pc[r] \in {"idle"} \cup Steps \cup Ended
    BY DEF StepInv, StepFits, TypeOK
  <1>3. \A r \in Requests : req[r].kind = "none" <=> pc[r] = "idle"
    BY <1>2 DEF KindsAt, AllKinds, Steps, Ended
  <1>4. Counted(u) \in SUBSET Requests /\ Made \in SUBSET Requests /\ Counted(u) \subseteq Made
    BY <1>3 DEF Counted
  <1>5. /\ Cardinality(Counted(u)) <= Cardinality(Made)
        /\ Cardinality(Counted(u)) \in Nat /\ Cardinality(Made) \in Nat
    BY <1>4, CountsAreNumbers
  <1>6. InFlight = {} => Counted(u) = Made
    <2> SUFFICES ASSUME InFlight = {} PROVE Made \subseteq Counted(u)
      BY <1>4
    <2>1. \A r \in Requests : pc[r] \notin Steps
      BY DEF InFlight
    <2> QED BY <1>3, <2>1 DEF Counted, Steps
  <1> HIDE DEF Made
  <1>7. RequestsOf(u) = Cardinality(Made)
    BY DEF RequestsOf, Made
  <1> QED BY <1>1, <1>5, <1>6, <1>7

-----------------------------------------------------------------------------
(* The sizes that updates and deletes bring, if no update changes one      *)

SizesInv ==
    ~Resizes =>
        /\ \A f \in Files : row[f].state # "none" =>
                row[f].size = SizeOf[ContentOf(f)]
        /\ \A r \in Requests :
            \/ req[r].kind = "update"
            \/ req[r].kind = "delete" /\ pc[r] \in Found
            => req[r].size = SizeOf[ContentOf(req[r].file)]

(* A request that is asked for with the size of its file, and others as before. *)
LEMMA SizesKept ==
  ASSUME SizesInv, NEW r \in Requests, row' = row,
         \A q \in Requests \ {r} : pc'[q] = pc[q] /\ req'[q] = req[q],
         ~Resizes /\ (\/ req'[r].kind = "update"
                      \/ req'[r].kind = "delete" /\ pc'[r] \in Found)
         => req'[r].size = SizeOf[ContentOf(req'[r].file)]
  PROVE  SizesInv'
  BY DEF SizesInv

(* Files keep the sizes of what they were created from. *)
LEMMA NextSizesInv == TypeOK /\ StepInv /\ SizesInv /\ [Next]_vars => SizesInv'
  <1> SUFFICES ASSUME TypeOK, StepInv, SizesInv, [Next]_vars, ~Resizes PROVE SizesInv'
    BY DEF SizesInv
  <1> DEFINE Sized(r) == \/ req[r].kind = "update"
                         \/ req[r].kind = "delete" /\ pc[r] \in Found
                         => req[r].size = SizeOf[ContentOf(req[r].file)]
  <1>1. /\ req \in [Requests -> ReqType]
        /\ pc \in [Requests -> {"idle"} \cup Steps \cup Ended]
        /\ \A r \in Requests : Sized(r)
        /\ \A f \in Files : row[f].state # "none" => row[f].size = SizeOf[ContentOf(f)]
    BY Types DEF SizesInv
  <1>2. /\ \A s \in Ended \cup {"saveKey", "readKey", "file", "list", "find"} : s \notin Found
        /\ \A r : AfterKey(r) \notin Found
    BY DEF Ended, Found, AfterKey
  <1>3. ASSUME NEW r \in Requests, Arrives(r) PROVE SizesInv'
    <2>1. PICK q \in ReqType, t \in {NoTx, NewTx} : Begun(r, q, t)
      BY <1>3, Arrival
    <2>2. /\ pc' = [pc EXCEPT ![r] = "readKey"] /\ req' = [req EXCEPT ![r] = q]
          /\ row' = row
          /\ q.kind = "update" => /\ q.file \in Files /\ row[q.file].state # "none"
                                  /\ q.size = row[q.file].size
      BY <2>1 DEF Begun, Finding
    <2>3. /\ pc'[r] = "readKey" /\ req'[r] = q
          /\ \A p \in Requests \ {r} : pc'[p] = pc[p] /\ req'[p] = req[p]
      BY <1>1, <2>2
    <2>4. q.kind = "update" => q.size = SizeOf[ContentOf(q.file)]
      BY <1>1, <2>2
    <2>5. Sized(r)'
      BY <1>2, <2>3, <2>4
    <2> QED BY <2>2, <2>3, <2>5, SizesKept
  <1>4. ASSUME NEW r \in Requests, Step(r) \/ StatementFails(r) PROVE Sized(r)'
    <2>1. /\ req'[r].kind = req[r].kind /\ req'[r].file = req[r].file
          /\ Sized(r) /\ req[r].kind \in KindsAt(pc[r])
      BY <1>1, <1>4, OneRequest DEF StepInv, StepFits
    <2>2. CASE FindFile(r)
      <3>1. \/ /\ Live(req[r].file)
               /\ req' = [req EXCEPT ![r].size = IF req[r].kind = "delete"
                                                 THEN row[req[r].file].size ELSE @]
            \/ req' = req /\ (pc' = [pc EXCEPT ![r] = "left"]
                              \/ pc' = [pc EXCEPT ![r] = "failed"])
        BY <2>2 DEF FindFile, Goes
      <3>2. CASE req' = req /\ (pc' = [pc EXCEPT ![r] = "left"]
                                \/ pc' = [pc EXCEPT ![r] = "failed"])
        <4>1. pc'[r] \in Ended /\ req'[r] = req[r]
          BY <1>1, <3>2 DEF Ended
        <4> QED BY <1>2, <2>1, <4>1
      <3>3. CASE /\ Live(req[r].file)
                 /\ req' = [req EXCEPT ![r].size = IF req[r].kind = "delete"
                                                   THEN row[req[r].file].size ELSE @]
        <4>1. req'[r].size = IF req[r].kind = "delete" THEN row[req[r].file].size
                             ELSE req[r].size
          BY <1>1, <3>3 DEF ReqType
        <4>2. req[r].kind = "delete" => req[r].file \in Files
          BY DEF StepInv, StepFits, Finding
        <4>3. req[r].kind = "delete" =>
                row[req[r].file].size = SizeOf[ContentOf(req[r].file)]
          BY <1>1, <3>3, <4>2 DEF Live
        <4> QED BY <2>1, <4>1, <4>3
      <3> QED BY <3>1, <3>2, <3>3
    <2>3. CASE ~FindFile(r)
      <3>1. req'[r].size = req[r].size
        <4>1. CASE StatementFails(r)
          <5>1. req' = [req EXCEPT ![r].seen = 0]
            BY <4>1, Failure
          <5> QED BY <1>1, <5>1 DEF ReqType
        <4>2. CASE DeleteFileFromS3(r) \/ DeleteRows(r) \/ SaveFile(r) \/ FetchObject(r)
                   \/ ListFiles(r) \/ Commit(r)
          BY <4>2 DEF DeleteFileFromS3, DeleteRows, SaveFile, FetchObject, ListFiles,
                      Commit
        <4>3. CASE ReadKey(r) \/ SaveKey(r) \/ ReadUsed(r) \/ WriteUsed(r)
          <5>1. \E n : req' = [req EXCEPT ![r].seen = n]
            BY <4>3 DEF ReadKey, SaveKey, ReadUsed, WriteUsed, Forgets
          <5> QED BY <1>1, <5>1 DEF ReqType
        <4>4. CASE CreateFile(r)
          <5>1. req' = req \/ \E cs : req' = [req EXCEPT ![r].todo = cs]
            BY <4>4 DEF CreateFile
          <5> QED BY <1>1, <5>1 DEF ReqType
        <4> QED BY <1>4, <2>3, <4>1, <4>2, <4>3, <4>4 DEF Step
      <3>2. req[r].kind = "delete" /\ pc'[r] \in Found => pc[r] \in Found
        <4>1. pc[r] \in Steps /\ pc'[r] \in Steps \cup Ended
          BY <1>4, OneRequest
        <4>2. CASE pc[r] \in {"readKey", "saveKey"}
          <5>1. pc'[r] \in {"saveKey", AfterKey(r)}
            BY <1>1, <1>4, <4>2, Failure
               DEF Step, ReadKey, SaveKey, CreateFile, ReadUsed, WriteUsed, FindFile,
                   DeleteFileFromS3, DeleteRows, SaveFile, FetchObject, ListFiles,
                   Commit, At, Goes
          <5> QED BY <1>2, <5>1
        <4>3. CASE pc[r] = "find"
          <5>1. StatementFails(r)
            BY <1>4, <2>3, <4>3
               DEF Step, ReadKey, SaveKey, CreateFile, ReadUsed, WriteUsed,
                   DeleteFileFromS3, DeleteRows, SaveFile, FetchObject, ListFiles,
                   Commit, At
          <5>2. pc' = [pc EXCEPT ![r] = "left"] \/ pc' = [pc EXCEPT ![r] = "failed"]
            BY <4>3, <5>1, Failure
          <5>3. pc'[r] \in Ended
            BY <1>1, <5>2 DEF Ended
          <5> QED BY <1>2, <5>3
        <4>4. CASE pc[r] \notin {"readKey", "saveKey", "find"}
          BY <2>1, <4>1, <4>4 DEF KindsAt, Steps, Found
        <4> QED BY <4>2, <4>3, <4>4
      <3> QED BY <2>1, <3>1, <3>2
    <2> QED BY <2>2, <2>3
  <1>5. ASSUME NEW r \in Requests, StatementFails(r) PROVE SizesInv'
    <2>1. row' = row /\ \A q \in Requests \ {r} : pc'[q] = pc[q] /\ req'[q] = req[q]
      BY <1>5, Failure, OneRequest
    <2>2. Sized(r)'
      BY <1>4, <1>5
    <2> QED BY <2>1, <2>2, SizesKept
  <1>6. ASSUME NEW r \in Requests, Step(r) PROVE SizesInv'
    <2>1. \A q \in Requests \ {r} : pc'[q] = pc[q] /\ req'[q] = req[q]
      BY <1>6, OneRequest
    <2>2. \A q \in Requests : Sized(q)'
      BY <1>1, <1>4, <1>6, <2>1
    <2>3. ASSUME NEW f \in Files, row'[f].state # "none"
          PROVE  row'[f].size = SizeOf[ContentOf(f)]
      <3>1. row[f] \in [state : {"none", "live", "deleted"}, size : Nat]
        BY DEF TypeOK
      <3>2. CASE row'[f] = row[f]
        BY <1>1, <2>3, <3>2
      <3>3. CASE pc[r] = "save" /\ f = req[r].file /\ row'[f] = Row("live", req[r].size)
        <4>1. req[r].kind = "update"
          BY <3>3 DEF StepInv, StepFits, KindsAt
        <4>2. req[r].size = SizeOf[ContentOf(f)]
          BY <1>1, <3>3, <4>1
        <4> QED BY <3>3, <4>2 DEF Row
      <3>4. CASE row'[f] = Row("live", SizeOf[ContentOf(f)])
        BY <3>4 DEF Row
      <3>5. CASE /\ pc[r] = "commit" /\ f \in tx[r].deleted
                 /\ row'[f] = [row[f] EXCEPT !.state = "deleted"]
        <4>1. row[f].state # "none"
          BY <3>5 DEF StepInv, StepFits, TxFits, Finding
        <4>2. row'[f].size = row[f].size
          BY <3>1, <3>5
        <4> QED BY <1>1, <4>1, <4>2
      <3> QED BY <1>6, <3>2, <3>3, <3>4, <3>5, RowsOfStep
    <2> QED BY <2>2, <2>3 DEF SizesInv
  <1>7. ASSUME NEW f \in Files, UploadSucceeds(f) \/ UploadFails(f) PROVE SizesInv'
    <2>1. row' = row /\ pc' = pc /\ req' = req
      BY <1>7 DEF UploadSucceeds, UploadFails, rows
    <2> QED BY <2>1 DEF SizesInv
  <1>8. ASSUME Crash PROVE SizesInv'
    <2>1. /\ row' = row
          /\ pc' = [r \in Requests |-> IF r \in InFlight THEN "lost" ELSE pc[r]]
          /\ req' = [r \in Requests |-> [req[r] EXCEPT !.seen = 0]]
      BY <1>8 DEF Crash, rows
    <2>2. \A q \in Requests : /\ pc'[q] = "lost" \/ pc'[q] = pc[q]
                              /\ req'[q].kind = req[q].kind /\ req'[q].file = req[q].file
                              /\ req'[q].size = req[q].size
      BY <1>1, <2>1 DEF ReqType
    <2>3. "lost" \notin Found
      BY DEF Found
    <2>4. \A q \in Requests : Sized(q)'
      BY <1>1, <2>2, <2>3
    <2> QED BY <1>1, <2>1, <2>4 DEF SizesInv
  <1>9. CASE UNCHANGED vars
    BY <1>9 DEF vars, SizesInv
  <1>10. ASSUME NEW r \in Requests, CommitFails(r) PROVE SizesInv'
    <2>1. /\ row' = row /\ req' = req /\ pc'[r] = "ok"
          /\ \A q \in Requests \ {r} : pc'[q] = pc[q]
      BY <1>10, CommitLost
    <2>2. Sized(r)'
      BY <1>1, <2>1 DEF Found
    <2> QED BY <2>1, <2>2, SizesKept
  <1> QED BY <1>3, <1>5, <1>6, <1>7, <1>8, <1>9, <1>10 DEF Next

-----------------------------------------------------------------------------
(* The storage of the users, while requests come one by one                *)

(* what StorageIsExact says that a user has stored *)
LiveSize(u) == SumFunctionOnSet([f \in Files |-> row[f].size], LiveOf(u))

(* what r has read, and what it will write *)
StorageOf(r) ==
    LET n == used[req[r].user] IN
    /\ pc[r] = "writeUsed" => req[r].seen = n
    /\ pc[r] \in {"rows", "commit"} =>
         tx[r].used = IF req[r].kind = "create" THEN n + TotalSize(r)
                      ELSE Debited(n, req[r].size)
    /\ pc[r] = "commit" /\ req[r].kind = "delete" =>
         tx[r].deleted = {req[r].file}

StorageInv ==
    calm /\ ~Resizes =>
        /\ \A u \in Users : used[u] = LiveSize(u)
        /\ \A r \in Requests : StorageOf(r)

(* the size of a file that nobody has changed *)
SizeOfFile == [f \in Files |-> SizeOf[ContentOf(f)]]

(* Sizes of files are natural numbers. *)
LEMMA FileSizes == \A f \in Files : SizeOfFile[f] = SizeOf[f[2]] /\ SizeOfFile[f] \in Nat
  BY ConstantsAssumption DEF SizeOfFile, ContentOf, Files

(* The files that a request creates are finitely many, and as large together as
   their contents.  *)
LEMMA SumOfFiles ==
  ASSUME NEW r \in Requests, NEW cs \in SUBSET Contents, IsFiniteSet(cs)
  PROVE  /\ IsFiniteSet(FilesOf(r, cs)) /\ FilesOf(r, cs) \subseteq Files
         /\ SumFunctionOnSet(SizeOfFile, FilesOf(r, cs)) = SumFunctionOnSet(SizeOf, cs)
  <1> DEFINE Good == {T \in SUBSET cs : SumFunctionOnSet(SizeOfFile, FilesOf(r, T))
                                            = SumFunctionOnSet(SizeOf, T)}
  <1>1. ASSUME NEW T \in SUBSET cs
        PROVE  /\ IsFiniteSet(T) /\ IsFiniteSet(FilesOf(r, T))
               /\ FilesOf(r, T) \subseteq Files
    <2> DEFINE pair == [c \in T |-> <<r, c>>]
    <2>1. IsFiniteSet(T)
      BY FS_Subset
    <2>2. FilesOf(r, T) = {pair[c] : c \in T} /\ FilesOf(r, T) \subseteq Files
      BY DEF FilesOf, Files
    <2> HIDE DEF pair
    <2>3. IsFiniteSet({pair[c] : c \in T})
      BY <2>1, ImageIsFinite
    <2> QED BY <2>1, <2>2, <2>3
  <1>2. ASSUME NEW T \in SUBSET cs, \A c \in T : T \ {c} \in Good
        PROVE  T \in Good
    <2>1. CASE T = {}
      <3>1. FilesOf(r, T) = {}
        BY <2>1 DEF FilesOf
      <3>2. SumFunctionOnSet(SizeOfFile, FilesOf(r, T)) = 0 /\ SumFunctionOnSet(SizeOf, T) = 0
        BY <1>1, <2>1, <3>1, SumUnfolds
      <3> QED BY <3>2
    <2>2. ASSUME NEW c \in T PROVE T \in Good
      <3>1. /\ <<r, c>> \in FilesOf(r, T)
            /\ FilesOf(r, T) \ {<<r, c>>} = FilesOf(r, T \ {c})
        BY DEF FilesOf
      <3>2. \A f \in FilesOf(r, T) : SizeOfFile[f] \in Nat
        BY <1>1, FileSizes
      <3>3. SumFunctionOnSet(SizeOfFile, FilesOf(r, T))
              = SizeOfFile[<<r, c>>]
                + SumFunctionOnSet(SizeOfFile, FilesOf(r, T) \ {<<r, c>>})
        BY <1>1, <3>1, <3>2, SumWithout
      <3>4. \A d \in T : SizeOf[d] \in Nat
        BY ConstantsAssumption
      <3>5. SumFunctionOnSet(SizeOf, T) = SizeOf[c] + SumFunctionOnSet(SizeOf, T \ {c})
        BY <1>1, <3>4, SumWithout
      <3>6. SumFunctionOnSet(SizeOfFile, FilesOf(r, T \ {c}))
              = SumFunctionOnSet(SizeOf, T \ {c})
        BY <1>2 DEF Good
      <3>7. SizeOfFile[<<r, c>>] = SizeOf[c]
        BY <1>1, <3>1, FileSizes
      <3> QED BY <3>1, <3>3, <3>5, <3>6, <3>7
    <2> QED BY <2>1, <2>2
  <1> HIDE DEF Good
  <1>3. \A T \in SUBSET cs : T \in Good
    BY <1>2, SubsetInduction
  <1>4. cs \in Good
    BY <1>3
  <1> QED BY <1>1, <1>4 DEF Good

(* It is the sum of constants, over a finite set. *)
LiveSizesInv ==
    \A u \in Users :
        /\ IsFiniteSet(LiveOf(u)) /\ LiveOf(u) \subseteq Files
        /\ ~Resizes => LiveSize(u) = SumFunctionOnSet(SizeOfFile, LiveOf(u))

(* The files of a user are finitely many, and their sizes those of what they
   were created from.  *)
LEMMA LiveFiles == TypeInv /\ CreateInv /\ SizesInv => LiveSizesInv
  <1> SUFFICES ASSUME TypeInv, CreateInv, SizesInv, NEW u \in Users
               PROVE  /\ IsFiniteSet(LiveOf(u)) /\ LiveOf(u) \subseteq Files
                      /\ ~Resizes =>
                            LiveSize(u) = SumFunctionOnSet(SizeOfFile, LiveOf(u))
    BY DEF LiveSizesInv
  <1> DEFINE made == [r \in Requests |-> FilesOf(r, req[r].contents)]
             All == {made[r] : r \in Requests}
  <1>1. ASSUME NEW r \in Requests PROVE IsFiniteSet(made[r])
    <2>1. IsFiniteSet(req[r].contents) /\ req[r].contents \in SUBSET Contents
      BY DEF TypeInv, ContentsAreFinite, TypeOK
    <2> QED BY <2>1, SumOfFiles
  <1>2. LiveOf(u) \subseteq UNION All
    <2> SUFFICES ASSUME NEW f \in LiveOf(u) PROVE \E r \in Requests : f \in made[r]
      OBVIOUS
    <2>1. f \in Files /\ row[f].state # "none"
      BY DEF LiveOf, Live
    <2>2. f[1] \in Requests /\ f = <<f[1], f[2]>> /\ f[2] \in req[f[1]].contents
      BY <2>1 DEF CreateInv, FileFits, Files
    <2> QED BY <2>2 DEF FilesOf
  <1> HIDE DEF made
  <1>3. IsFiniteSet(Requests)
    BY CountsAreNumbers
  <1>4. IsFiniteSet(All)
    BY <1>3, ImageIsFinite
  <1>5. \A S \in All : IsFiniteSet(S)
    BY <1>1
  <1> HIDE DEF All
  <1>6. IsFiniteSet(UNION All)
    BY <1>4, <1>5, FS_UNION
  <1>7. IsFiniteSet(LiveOf(u)) /\ LiveOf(u) \subseteq Files
    BY <1>2, <1>6, FS_Subset DEF LiveOf
  <1>8. ASSUME ~Resizes
        PROVE  LiveSize(u) = SumFunctionOnSet(SizeOfFile, LiveOf(u))
    <2> DEFINE now == [f \in Files |-> row[f].size]
    <2>1. \A f \in LiveOf(u) : now[f] = SizeOfFile[f]
      BY <1>7, <1>8 DEF SizesInv, LiveOf, Live, SizeOfFile
    <2>2. LiveSize(u) = SumFunctionOnSet(now, LiveOf(u))
      BY DEF LiveSize
    <2> HIDE DEF now
    <2> QED BY <1>7, <2>1, <2>2, SumOfSame
  <1> QED BY <1>7, <1>8

(* Files that come to those of a user, all of one request. *)
LEMMA SumWithNew ==
  ASSUME TypeInv, NEW r \in Requests, NEW S \in SUBSET Files, IsFiniteSet(S),
         S \cap FilesOf(r, req[r].contents) = {}
  PROVE  SumFunctionOnSet(SizeOfFile, S \cup FilesOf(r, req[r].contents))
            = SumFunctionOnSet(SizeOfFile, S) + TotalSize(r)
  <1> DEFINE R == FilesOf(r, req[r].contents)
  <1>1. IsFiniteSet(req[r].contents) /\ req[r].contents \in SUBSET Contents
    BY DEF TypeInv, ContentsAreFinite, TypeOK
  <1>2. /\ IsFiniteSet(R) /\ R \subseteq Files
        /\ SumFunctionOnSet(SizeOfFile, R) = TotalSize(r)
    BY <1>1, SumOfFiles DEF TotalSize
  <1> HIDE DEF R
  <1>3. \A f \in S \cup R : SizeOfFile[f] \in Nat
    BY <1>2, FileSizes
  <1>4. S \cap R = {}
    BY DEF R
  <1>5. SumFunctionOnSet(SizeOfFile, S \cup R)
            = SumFunctionOnSet(SizeOfFile, S) + SumFunctionOnSet(SizeOfFile, R)
    BY <1>2, <1>3, <1>4, SumOfBoth
  <1> QED BY <1>2, <1>5 DEF R

(* The commit of a create, while all is calm: all of its files, and their size. *)
LEMMA CreateStored ==
  ASSUME TypeInv, StepInv, CreateInv, CalmInv, StorageInv, calm, ~Resizes,
         NEW r \in Requests, Commit(r), req[r].kind = "create", NEW u \in Users
  PROVE  /\ u = req[r].user =>
              /\ LiveOf(u)' = LiveOf(u) \cup FilesOf(r, req[r].contents)
              /\ LiveOf(u) \cap FilesOf(r, req[r].contents) = {}
              /\ used'[u] = used[u] + TotalSize(r)
         /\ u # req[r].user => LiveOf(u)' = LiveOf(u) /\ used'[u] = used[u]
  <1>1. /\ TypeOK /\ TxFits(r) /\ Creates(r) /\ pc[r] = "commit" /\ StorageOf(r) /\ Step(r)
        /\ req[r].contents \subseteq Contents /\ TotalSize(r) \in Nat
        /\ used \in [Users -> Nat]
    BY TotalSizeIsNatural
       DEF TypeInv, TypeOK, StepInv, CreateInv, StorageInv, Commit, At, Step
  <1>2. /\ tx[r].inserted = FilesOf(r, req[r].contents) /\ tx[r].deleted = {}
        /\ \A c \in Contents : row[<<r, c>>].state = "none"
    <2>1. ~HasLost(r) /\ req[r].todo = {} /\ pc[r] \in Steps
      BY <1>1 DEF CalmInv, HasLost, Creates, Steps
    <2>2. req[r].contents \ req[r].todo = req[r].contents
      BY <2>1
    <2> QED BY <1>1, <2>1, <2>2 DEF Creates, TxFits
  <1>3. /\ \A f \in Files : /\ f \in FilesOf(r, req[r].contents) => Live(f)'
                            /\ f \notin FilesOf(r, req[r].contents) => row'[f] = row[f]
    <2>1. \A f \in Files :
            /\ f \in tx[r].inserted => row'[f] = Row("live", SizeOf[ContentOf(f)])
            /\ f \notin tx[r].inserted \cup tx[r].deleted => row'[f] = row[f]
      BY <1>1, Committed
    <2>2. \A n : Row("live", n).state = "live"
      BY DEF Row
    <2> QED BY <1>2, <2>1, <2>2 DEF Live
  <1>4. /\ FilesOf(r, req[r].contents) \subseteq Files
        /\ \A f \in FilesOf(r, req[r].contents) : UserOf(f) = req[r].user /\ ~Live(f)
    BY <1>1, <1>2 DEF FilesOf, Files, UserOf, Live
  <1>5. \A f \in Files : UserOf(f)' = UserOf(f)
    BY <1>1, OneRequest
  <1>6. /\ used' = [used EXCEPT ![req[r].user] =
                      IF tx[r].used = NoWrite THEN @ ELSE tx[r].used]
        /\ tx[r].used = used[req[r].user] + TotalSize(r) /\ req[r].user \in Users
    BY <1>1, Types DEF Commit, StorageOf, ReqType
  <1>7. tx[r].used # NoWrite
    BY <1>1, <1>6 DEF NoWrite
  <1>8. used'[u] = IF u = req[r].user THEN used[u] + TotalSize(r) ELSE used[u]
    BY <1>1, <1>6, <1>7
  <1>9. ASSUME u = req[r].user
        PROVE  /\ LiveOf(u)' = LiveOf(u) \cup FilesOf(r, req[r].contents)
               /\ LiveOf(u) \cap FilesOf(r, req[r].contents) = {}
    <2> DEFINE R == FilesOf(r, req[r].contents)
    <2> HIDE DEF R
    <2>1. \A f \in Files : f \notin R => (Live(f)' <=> Live(f))
      BY <1>3 DEF R, Live
    <2>2. R \subseteq Files /\ \A f \in R : UserOf(f) = u /\ ~Live(f) /\ Live(f)'
      BY <1>3, <1>4, <1>9 DEF R
    <2>3. LiveOf(u)' = {f \in Files : UserOf(f) = u /\ Live(f)'}
      BY <1>5 DEF LiveOf
    <2>4. LiveOf(u)' = LiveOf(u) \cup R /\ LiveOf(u) \cap R = {}
      BY <2>1, <2>2, <2>3 DEF LiveOf
    <2> QED BY <2>4 DEF R
  <1>10. ASSUME u # req[r].user PROVE LiveOf(u)' = LiveOf(u)
    <2>1. \A f \in Files : UserOf(f) = u => (Live(f)' <=> Live(f))
      BY <1>3, <1>4, <1>10 DEF Live
    <2>2. LiveOf(u)' = {f \in Files : UserOf(f) = u /\ Live(f)'}
      BY <1>5 DEF LiveOf
    <2> QED BY <2>1, <2>2 DEF LiveOf
  <1> QED BY <1>8, <1>9, <1>10

(* The commit of a delete, while all is calm: one file less, and its size. *)
LEMMA DeleteStored ==
  ASSUME TypeInv, StepInv, CreateInv, CalmInv, StorageInv, calm, ~Resizes,
         NEW r \in Requests, Commit(r), req[r].kind = "delete", NEW u \in Users
  PROVE  /\ u = req[r].user =>
              /\ LiveOf(u)' = LiveOf(u) \ {req[r].file} /\ req[r].file \in LiveOf(u)
              /\ used'[u] = Debited(used[u], req[r].size)
         /\ u # req[r].user => LiveOf(u)' = LiveOf(u) /\ used'[u] = used[u]
  <1>1. /\ TypeOK /\ TxFits(r) /\ pc[r] = "commit" /\ StorageOf(r) /\ Step(r)
        /\ used \in [Users -> Nat] /\ req[r].user \in Users /\ req[r].size \in Nat
    BY Types DEF TypeInv, TypeOK, StepInv, StorageInv, Commit, At, Step, ReqType
  <1>2. /\ tx[r].inserted = {} /\ tx[r].deleted = {req[r].file} /\ req[r].file \in Files
        /\ UserOf(req[r].file) = req[r].user /\ Live(req[r].file)
    BY <1>1 DEF TxFits, StorageOf, StepInv, StepFits, Finding, CreateInv, CalmInv,
                FoundIsLive, Found
  <1>3. \A f \in Files : /\ f # req[r].file => row'[f] = row[f]
                         /\ f = req[r].file => ~Live(f)'
    <2>1. row[req[r].file] \in [state : {"none", "live", "deleted"}, size : Nat]
      BY <1>1, <1>2 DEF TypeOK
    <2>2. [row[req[r].file] EXCEPT !.state = "deleted"].state = "deleted"
      BY <2>1
    <2>3. \A f \in Files :
            /\ f \in tx[r].deleted => row'[f] = [row[f] EXCEPT !.state = "deleted"]
            /\ f \notin tx[r].inserted \cup tx[r].deleted => row'[f] = row[f]
      BY <1>1, Committed
    <2> QED BY <1>2, <2>2, <2>3 DEF Live
  <1>4. \A f \in Files : UserOf(f)' = UserOf(f)
    BY <1>1, OneRequest
  <1>5. /\ used' = [used EXCEPT ![req[r].user] =
                      IF tx[r].used = NoWrite THEN @ ELSE tx[r].used]
        /\ tx[r].used = Debited(used[req[r].user], req[r].size)
    BY <1>1 DEF Commit, StorageOf
  <1>6. tx[r].used # NoWrite
    BY <1>1, <1>5 DEF NoWrite, Debited
  <1>7. used'[u] = IF u = req[r].user THEN Debited(used[u], req[r].size) ELSE used[u]
    BY <1>1, <1>5, <1>6
  <1>8. \A f \in Files : f # req[r].file => (Live(f)' <=> Live(f))
    BY <1>3 DEF Live
  <1>9. LiveOf(u)' = {f \in Files : UserOf(f) = u /\ Live(f)'}
    BY <1>4 DEF LiveOf
  <1>10. u = req[r].user => LiveOf(u)' = LiveOf(u) \ {req[r].file}
                            /\ req[r].file \in LiveOf(u)
    BY <1>2, <1>3, <1>8, <1>9 DEF LiveOf
  <1>11. u # req[r].user => LiveOf(u)' = LiveOf(u)
    BY <1>2, <1>8, <1>9 DEF LiveOf
  <1> QED BY <1>7, <1>10, <1>11

(* A step that leaves the storage, and the files that are live. *)
LEMMA StorageKept ==
  ASSUME LiveSizesInv, LiveSizesInv', StorageInv, calm' => calm, used' = used,
         \A u \in Users : LiveOf(u)' = LiveOf(u),
         calm' /\ ~Resizes => \A r \in Requests : StorageOf(r)'
  PROVE  StorageInv'
  <1> SUFFICES ASSUME calm', ~Resizes, NEW u \in Users PROVE used'[u] = LiveSize(u)'
    BY DEF StorageInv
  <1>1. used[u] = LiveSize(u)
    BY DEF StorageInv
  <1>2. LiveSize(u) = SumFunctionOnSet(SizeOfFile, LiveOf(u))
    BY DEF LiveSizesInv
  <1>3. LiveSize(u)' = SumFunctionOnSet(SizeOfFile, LiveOf(u)')
    BY DEF LiveSizesInv, SizeOfFile, ContentOf
  <1> QED BY <1>1, <1>2, <1>3

(* Where a request has got with the storage, unless others run. *)
LEMMA NextStorageOf ==
  ASSUME TypeOK, StepInv, CalmInv, StorageInv, calm, ~Resizes,
         NEW r \in Requests, Step(r)
  PROVE  \A q \in Requests : StorageOf(q)'
  <1>1. /\ req \in [Requests -> ReqType] /\ tx \in [Requests -> TxType]
        /\ pc \in [Requests -> {"idle"} \cup Steps \cup Ended]
        /\ StorageOf(r) /\ req[r].kind \in KindsAt(pc[r])
    BY Types DEF StorageInv, StepInv, StepFits
  <1>2. /\ \A q \in Requests \ {r} : pc'[q] = pc[q]
        /\ req'[r].user = req[r].user /\ req'[r].kind = req[r].kind
        /\ req'[r].contents = req[r].contents /\ req'[r].file = req[r].file
        /\ pc[r] \in Steps
    BY OneRequest
  <1> DEFINE Late == {"writeUsed", "rows", "commit"}
  <1>3. ASSUME NEW q \in Requests, pc'[q] \notin Late PROVE StorageOf(q)'
    BY <1>3 DEF StorageOf
  <1>4. ASSUME NEW q \in Requests \ {r} PROVE pc'[q] \notin Late
    <2>1. q \notin InFlight
      BY <1>2 DEF CalmInv, InFlight
    <2> QED BY <1>2, <2>1 DEF InFlight, Steps
  <1>5. ASSUME pc'[r] \in Late PROVE StorageOf(r)'
    <2> DEFINE n == used[req[r].user]
    <2>1. /\ \A s \in Ended \cup {"saveKey", AfterKey(r)} : s \notin Late
          /\ req[r].kind \in Finding => AfterFind(r) \notin Late
      BY DEF Ended, AfterKey, AfterFind, Finding
    <2>2. CASE ReadKey(r) \/ SaveKey(r) \/ SaveFile(r) \/ FetchObject(r) \/ ListFiles(r)
               \/ Commit(r)
      <3>1. pc'[r] \in Ended \cup {"saveKey", AfterKey(r)}
        BY <1>1, <2>2 DEF ReadKey, SaveKey, SaveFile, FetchObject, ListFiles, Commit,
                          Goes, Ended
      <3> QED BY <1>5, <2>1, <3>1
    <2>3. CASE FindFile(r)
      <3>1. req[r].kind \in Finding
        BY <1>1, <2>3 DEF FindFile, At, KindsAt, Finding
      <3>2. pc'[r] \in Ended \cup {AfterFind(r)}
        BY <1>1, <2>3 DEF FindFile, Goes, Ended
      <3> QED BY <1>5, <2>1, <3>1, <3>2
    <2>4. CASE CreateFile(r)
      <3>1. pc'[r] \in {"file", "failed"}
        BY <1>1, <2>4 DEF CreateFile, At, Goes
      <3> QED BY <1>5, <3>1
    <2>5. CASE DeleteFileFromS3(r)
      <3>1. pc'[r] = "readUsed"
        BY <1>1, <2>5 DEF DeleteFileFromS3, Goes
      <3> QED BY <1>5, <3>1
    <2>6. CASE ReadUsed(r)
      <3>1. used' = used /\ pc'[r] = "writeUsed" /\ req'[r].seen = n
        BY <1>1, <2>6 DEF ReadUsed, Goes, rows, ReqType
      <3> QED BY <1>2, <3>1 DEF StorageOf
    <2>7. CASE WriteUsed(r)
      <3>1. used' = used /\ req[r].seen = n /\ req'[r].size = req[r].size
        BY <1>1, <2>7 DEF WriteUsed, At, StorageOf, rows, Forgets, ReqType
      <3>2. CASE req[r].kind = "create"
        <4>1. \/ /\ pc' = [pc EXCEPT ![r] = "commit"]
                 /\ tx' = [tx EXCEPT ![r].used = req[r].seen + TotalSize(r)]
              \/ pc' = [pc EXCEPT ![r] = "failed"]
          BY <2>7, <3>2 DEF WriteUsed, Goes
        <4>2. pc'[r] = "commit" /\ tx'[r].used = n + TotalSize(r)
          BY <1>1, <1>5, <3>1, <4>1 DEF TxType
        <4>3. TotalSize(r)' = TotalSize(r)
          BY <1>2 DEF TotalSize
        <4> QED BY <1>2, <3>1, <3>2, <4>2, <4>3 DEF StorageOf
      <3>3. CASE req[r].kind = "delete"
        <4>1. \/ /\ pc' = [pc EXCEPT ![r] = "rows"]
                 /\ tx' = [tx EXCEPT ![r].used = Debited(req[r].seen, req[r].size)]
              \/ pc' = [pc EXCEPT ![r] = "failed"]
          BY <2>7, <3>3 DEF WriteUsed, Goes
        <4>2. pc'[r] = "rows" /\ tx'[r].used = Debited(n, req[r].size)
          BY <1>1, <1>5, <3>1, <4>1 DEF TxType
        <4> QED BY <1>2, <3>1, <3>3, <4>2 DEF StorageOf
      <3>4. req[r].kind \in {"create", "delete"}
        BY <1>1, <2>7 DEF WriteUsed, At, KindsAt
      <3> QED BY <3>2, <3>3, <3>4
    <2>8. CASE DeleteRows(r)
      <3>1. /\ used' = used /\ pc[r] = "rows" /\ pc'[r] = "commit" /\ req' = req
            /\ tx' = [tx EXCEPT ![r].deleted = {req[r].file}]
        BY <1>1, <2>8 DEF DeleteRows, At, Goes, rows
      <3>2. tx'[r].used = tx[r].used /\ tx'[r].deleted = {req[r].file}
        BY <1>1, <3>1 DEF TxType
      <3>3. req[r].kind = "delete" /\ tx[r].used = Debited(n, req[r].size)
        BY <1>1, <3>1 DEF KindsAt, StorageOf
      <3> QED BY <3>1, <3>2, <3>3 DEF StorageOf
    <2> QED BY <2>2, <2>3, <2>4, <2>5, <2>6, <2>7, <2>8 DEF Step
  <1> QED BY <1>3, <1>4, <1>5

(* While requests come one by one, storage is charged what is stored. *)
LEMMA NextStorageInv ==
  /\ TypeInv /\ StepInv /\ CreateInv /\ CalmInv /\ SizesInv /\ StorageInv
  /\ LiveSizesInv /\ LiveSizesInv' /\ [Next]_vars
  => StorageInv'
  <1> SUFFICES ASSUME TypeInv, StepInv, CreateInv, CalmInv, SizesInv, StorageInv,
                      LiveSizesInv, LiveSizesInv', [Next]_vars
               PROVE  StorageInv'
    OBVIOUS
  <1>1. TypeOK /\ used \in [Users -> Nat] /\ req \in [Requests -> ReqType]
    BY Types DEF TypeInv, TypeOK
  <1> SUFFICES ASSUME calm', ~Resizes PROVE StorageInv'
    BY DEF StorageInv
  <1>2. /\ calm
        /\ \/ \E r \in Requests : Arrives(r) /\ InFlight = {}
           \/ \E r \in Requests : Step(r)
           \/ \E f \in Files : UploadSucceeds(f)
           \/ UNCHANGED vars
    BY <1>1, CalmSteps
  <1>3. ASSUME NEW r \in Requests, Arrives(r), InFlight = {} PROVE StorageInv'
    <2>1. PICK x \in ReqType, t \in {NoTx, NewTx} : Begun(r, x, t)
      BY <1>1, <1>3, Arrival
    <2>2. row' = row /\ used' = used /\ pc' = [pc EXCEPT ![r] = "readKey"]
      BY <2>1 DEF Begun
    <2>3. \A q \in Requests : pc'[q] \notin {"writeUsed", "rows", "commit"}
      BY <1>1, <1>3, <2>2 DEF InFlight, Steps, TypeOK
    <2>4. \A q \in Requests : StorageOf(q)'
      BY <2>3 DEF StorageOf
    <2>5. \A f \in Files : Live(f) => UserOf(f)' = UserOf(f)
      BY <1>1, UsersStay DEF Live
    <2>6. \A u \in Users : LiveOf(u)' = LiveOf(u)
      BY <2>2, <2>5 DEF LiveOf, Live
    <2> QED BY <1>2, <2>2, <2>4, <2>6, StorageKept
  <1>4. ASSUME NEW r \in Requests, Step(r) PROVE StorageInv'
    <2>1. \A q \in Requests : StorageOf(q)'
      BY <1>1, <1>2, <1>4, NextStorageOf
    <2>2. \A f \in Files : UserOf(f)' = UserOf(f)
      BY <1>1, <1>4, OneRequest
    <2>3. CASE ~SaveFile(r) /\ ~Commit(r)
      <3>1. row' = row /\ used' = used
        BY <1>4, <2>3 DEF Step, ReadKey, SaveKey, CreateFile, ReadUsed, WriteUsed, FindFile,
           DeleteFileFromS3, DeleteRows, FetchObject, ListFiles, rows
      <3>2. \A u \in Users : LiveOf(u)' = LiveOf(u)
        BY <2>2, <3>1 DEF LiveOf, Live
      <3> QED BY <1>2, <2>1, <3>1, <3>2, StorageKept
    <2>4. CASE SaveFile(r)
      <3>1. /\ row' = [row EXCEPT ![req[r].file] = Row("live", req[r].size)]
            /\ used' = used /\ pc[r] = "save"
        BY <2>4 DEF SaveFile, At
      <3>2. Live(req[r].file)
        BY <1>2, <3>1 DEF CalmInv, FoundIsLive, Found, StepInv, StepFits, KindsAt
      <3>3. \A f \in Files : row'[f] = row[f] \/ (row'[f].state = "live" /\ f = req[r].file)
        BY <1>1, <3>1 DEF TypeOK, Row
      <3>4. \A u \in Users : LiveOf(u)' = LiveOf(u)
        BY <2>2, <3>2, <3>3 DEF LiveOf, Live
      <3> QED BY <1>2, <2>1, <3>1, <3>4, StorageKept
    <2>5. CASE Commit(r)
      <3> SUFFICES ASSUME NEW u \in Users PROVE used'[u] = LiveSize(u)'
        BY <2>1 DEF StorageInv
      <3>1. /\ used[u] = LiveSize(u) /\ used[u] \in Nat
            /\ LiveSize(u) = SumFunctionOnSet(SizeOfFile, LiveOf(u))
            /\ IsFiniteSet(LiveOf(u)) /\ LiveOf(u) \subseteq Files
        BY <1>1, <1>2 DEF StorageInv, LiveSizesInv
      <3>2. LiveSize(u)' = SumFunctionOnSet(SizeOfFile, LiveOf(u)')
        BY DEF LiveSizesInv, SizeOfFile, ContentOf
      <3>3. CASE u # req[r].user
        <4>1. LiveOf(u)' = LiveOf(u) /\ used'[u] = used[u]
          <5>1. req[r].kind = "create" \/ req[r].kind = "delete"
            BY <2>5 DEF Commit, At, StepInv, StepFits, KindsAt
          <5> QED BY <1>2, <2>5, <3>3, <5>1, CreateStored, DeleteStored
        <4> QED BY <3>1, <3>2, <4>1
      <3>4. CASE u = req[r].user /\ req[r].kind = "create"
        <4> DEFINE R == FilesOf(r, req[r].contents)
        <4>1. /\ LiveOf(u)' = LiveOf(u) \cup R /\ LiveOf(u) \cap R = {}
              /\ used'[u] = used[u] + TotalSize(r)
          BY <1>2, <2>5, <3>4, CreateStored
        <4>2. SumFunctionOnSet(SizeOfFile, LiveOf(u) \cup R)
                = SumFunctionOnSet(SizeOfFile, LiveOf(u)) + TotalSize(r)
          BY <3>1, <4>1, SumWithNew
        <4> QED BY <3>1, <3>2, <4>1, <4>2
      <3>5. CASE u = req[r].user /\ req[r].kind = "delete"
        <4> DEFINE f == req[r].file
                   rest == SumFunctionOnSet(SizeOfFile, LiveOf(u) \ {f})
        <4>1. /\ LiveOf(u)' = LiveOf(u) \ {f} /\ f \in LiveOf(u)
              /\ used'[u] = Debited(used[u], req[r].size)
          BY <1>2, <2>5, <3>5, DeleteStored
        <4>2. \A g \in LiveOf(u) : SizeOfFile[g] \in Nat
          BY <3>1, FileSizes
        <4>3. SumFunctionOnSet(SizeOfFile, LiveOf(u)) = SizeOfFile[f] + rest
          BY <3>1, <4>1, <4>2, SumWithout
        <4>4. rest \in Nat
          <5>1. IsFiniteSet(LiveOf(u) \ {f})
            BY <3>1, FS_RemoveElement
          <5> QED BY <4>2, <5>1, SumIsNatural
        <4>5. req[r].size = SizeOfFile[f] /\ SizeOfFile[f] \in Nat
          <5>1. pc[r] \in Found
            BY <2>5 DEF Commit, At, Found
          <5> QED BY <3>1, <3>5, <4>1, <4>2, <5>1 DEF SizesInv, SizeOfFile
        <4>6. used'[u] = rest
          <5> HIDE DEF rest, f
          <5> QED BY <3>1, <4>1, <4>3, <4>4, <4>5 DEF Debited
        <4> QED BY <3>2, <4>1, <4>6
      <3> QED BY <2>5, <3>3, <3>4, <3>5 DEF Commit, At, StepInv, StepFits, KindsAt
    <2> QED BY <2>3, <2>4, <2>5
  <1>5. ASSUME NEW f \in Files, UploadSucceeds(f) PROVE UNCHANGED <<row, used, pc, req, tx>>
    BY <1>5 DEF UploadSucceeds, rows
  <1>6. ASSUME UNCHANGED vars PROVE UNCHANGED <<row, used, pc, req, tx>>
    BY <1>6 DEF vars, rows
  <1>7. CASE UNCHANGED <<row, used, pc, req, tx>>
    <2>1. \A u \in Users : LiveOf(u)' = LiveOf(u)
      BY <1>7 DEF LiveOf, Live, UserOf
    <2>2. \A q \in Requests : StorageOf(q)'
      BY <1>2, <1>7 DEF StorageInv, StorageOf, TotalSize
    <2> QED BY <1>2, <1>7, <2>1, <2>2, StorageKept
  <1> QED BY <1>2, <1>3, <1>4, <1>5, <1>6, <1>7

(* Storage is exact when nobody is served. *)
LEMMA StorageIsRight == StorageInv => StorageIsExact
  BY DEF StorageInv, StorageIsExact, LiveSize

(* At the start nothing is stored. *)
LEMMA InitStorageInv == Init => SizesInv /\ StorageInv
  <1> SUFFICES ASSUME Init PROVE SizesInv /\ StorageInv
    OBVIOUS
  <1>1. \A f \in Files : row[f].state = "none"
    BY DEF Init, Row
  <1>2. \A r \in Requests : req[r].kind = "none" /\ pc[r] = "idle"
    BY DEF Init, Request
  <1>3. ASSUME NEW u \in Users PROVE used[u] = 0 /\ LiveSize(u) = 0
    <2>1. LiveOf(u) = {}
      BY <1>1 DEF LiveOf, Live
    <2>2. LiveSize(u) = 0
      BY <2>1, FS_EmptySet, SumUnfolds DEF LiveSize
    <2> QED BY <2>2 DEF Init
  <1> QED BY <1>1, <1>2, <1>3 DEF SizesInv, StorageInv, StorageOf

(* Whatever has ended has done what it answered: its files are all there or none,
   its key and its user are charged for it, and it holds no lock.  *)
THEOREM RequestsLeaveWholes == Spec => []RequestsInv
  <1>1. Spec => [](TypeInv /\ StepInv /\ CreateInv /\ CalmInv)
    BY SpecInv, SpecCalm, PTL
  <1>2. TypeInv => TypeOK
    BY DEF TypeInv
  <1>3. Spec => []CountInv
    BY <1>1, <1>2, InitCountInv, NextCountInv, PTL DEF Spec
  <1>4. Spec => []SizesInv
    BY <1>1, <1>2, InitStorageInv, NextSizesInv, PTL DEF Spec
  <1>5. Spec => []LiveSizesInv
    BY <1>1, <1>4, LiveFiles, PTL
  <1>6. Spec => []StorageInv
    BY <1>1, <1>4, <1>5, InitStorageInv, NextStorageInv, PTL DEF Spec
  <1>7. TypeInv /\ StepInv /\ CreateInv /\ CountInv /\ StorageInv => RequestsInv
    BY <1>2, WholeCreates, NoLocks, CountsAreRight, StorageIsRight DEF RequestsInv
  <1> QED BY <1>1, <1>3, <1>6, <1>7, PTL
=============================================================================
