------------------------ MODULE FileLifecycleProofs ------------------------
(* The types and the safety properties of FileLifecycle, for every value of
   its constants.                                                          *)
EXTENDS FileLifecycle, FiniteSetTheorems, SequenceTheorems, WellFoundedInduction, TLAPS

-----------------------------------------------------------------------------
(* Sums over finite sets, from the definition that the community modules give
   them; and the induction over finite sets that they need.                *)

(* Every non-empty set of natural numbers has a least element. *)
LEMMA LeastNumber ==
  ASSUME NEW S \in SUBSET Nat, S # {}
  PROVE  \E n \in S : \A m \in S : n <= m
  <1>1. IsWellFoundedOn(OpToRel(<, Nat), Nat)
    BY NatLessThanWellFounded
  <1>2. PICK n \in S : \A m \in S : ~ (<<m, n>> \in OpToRel(<, Nat))
    BY <1>1, WFMin
  <1>3. \A m \in S : ~(m < n)
    BY <1>2 DEF OpToRel
  <1> QED BY <1>3

(* Induction over the subsets of a finite set: what holds of a set if it holds
   of the set less any one element, holds of the set.  *)
LEMMA SubsetInduction ==
  ASSUME NEW S, IsFiniteSet(S), NEW Good,
         \A T \in SUBSET S : (\A x \in T : T \ {x} \in Good) => T \in Good
  PROVE  \A T \in SUBSET S : T \in Good
  <1> DEFINE Bad == {T \in SUBSET S : T \notin Good}
             Sizes == {Cardinality(T) : T \in Bad}
  <1> SUFFICES ASSUME Bad # {} PROVE FALSE
    OBVIOUS
  <1>1. \A T \in SUBSET S : IsFiniteSet(T) /\ Cardinality(T) \in Nat
    BY FS_Subset, FS_CardinalityType
  <1>2. Sizes \in SUBSET Nat /\ Sizes # {}
    BY <1>1
  <1>3. PICK n \in Sizes : \A m \in Sizes : n <= m
    <2> HIDE DEF Sizes
    <2> QED BY <1>2, LeastNumber
  <1>4. PICK T \in Bad : Cardinality(T) = n
    BY <1>3
  <1>5. PICK x \in T : T \ {x} \notin Good
    BY <1>4
  <1>6. T \ {x} \in Bad
    BY <1>4, <1>5
  <1>7. Cardinality(T \ {x}) = n - 1
    BY <1>1, <1>4, <1>5, FS_RemoveElement
  <1>8. n \in Nat /\ n <= n - 1
    BY <1>2, <1>3, <1>6, <1>7
  <1> QED BY <1>8

(* iter adds up fun over each subset of S, as SumFunctionOnSet does it *)
Adds(iter, fun, S) ==
  iter = [s \in SUBSET S |-> IF s = {} THEN 0
            ELSE LET x == CHOOSE x \in s : TRUE IN fun[x] + iter[s \ {x}]]

LEMMA SumIs == ASSUME NEW fun, NEW S
  PROVE SumFunctionOnSet(fun, S) = (CHOOSE iter : Adds(iter, fun, S))[S]
  BY DEF SumFunctionOnSet, FoldFunctionOnSet, MapThenFoldSet, Adds

(* Such an iter exists: it is built for sets of 0, 1, ... elements. *)
LEMMA SumExists ==
  ASSUME NEW fun, NEW S, IsFiniteSet(S)
  PROVE  \E iter : Adds(iter, fun, S)
  <1> DEFINE Small(n) == {s \in SUBSET S : Cardinality(s) <= n}
             First(s) == CHOOSE x \in s : TRUE
             IsSum(h, n) == h = [s \in Small(n) |-> IF s = {} THEN 0
                                   ELSE fun[First(s)] + h[s \ {First(s)}]]
             Known == {n \in Nat : \E h : IsSum(h, n)}
  <1>1. \A T \in SUBSET S : /\ IsFiniteSet(T) /\ Cardinality(T) \in Nat
                            /\ Cardinality(T) <= Cardinality(S)
    BY FS_Subset, FS_CardinalityType
  <1>2. 0 \in Known
    <2>1. \A s \in Small(0) : s = {}
      BY <1>1, FS_EmptySet
    <2>2. IsSum([s \in Small(0) |-> 0], 0)
      BY <2>1
    <2> QED BY <2>2
  <1>3. ASSUME NEW n \in Known PROVE n + 1 \in Known
    <2>1. PICK h : IsSum(h, n)
      OBVIOUS
    <2> DEFINE g == [s \in Small(n + 1) |-> IF s = {} THEN 0
                       ELSE fun[First(s)] + h[s \ {First(s)}]]
    <2>2. ASSUME NEW s \in Small(n + 1), s # {}
          PROVE  /\ s \ {First(s)} \in Small(n)
                 /\ s \ {First(s)} \in Small(n + 1)
      <3>1. First(s) \in s
        BY <2>2
      <3>2. Cardinality(s \ {First(s)}) = Cardinality(s) - 1
        BY <1>1, <3>1, FS_RemoveElement
      <3>3. Cardinality(s) \in Nat /\ n \in Nat
        BY <1>1
      <3> QED BY <3>2, <3>3
    <2>3. \A s \in Small(n) : s \in Small(n + 1) /\ g[s] = h[s]
      <3>1. \A s \in Small(n) : s \in Small(n + 1)
        BY <1>1
      <3>2. \A s \in Small(n) : h[s] = IF s = {} THEN 0 ELSE fun[First(s)] + h[s \ {First(s)}]
        BY <2>1
      <3> HIDE DEF Small, First
      <3> QED BY <3>1, <3>2
    <2>4. IsSum(g, n + 1)
      <3> HIDE DEF Small, First
      <3>1. \A s \in Small(n + 1) : g[s] = IF s = {} THEN 0 ELSE fun[First(s)] + g[s \ {First(s)}]
        BY <2>2, <2>3
      <3> QED BY <3>1
    <2>5. \E k : IsSum(k, n + 1)
      BY <2>4
    <2>6. n + 1 \in Nat
      OBVIOUS
    <2> HIDE DEF IsSum
    <2> QED BY <2>5, <2>6
  <1>4. Cardinality(S) \in Known
    <2> HIDE DEF Known
    <2> SUFFICES ASSUME Nat \ Known # {} PROVE FALSE
      BY <1>1
    <2>1. PICK n \in Nat \ Known : \A m \in Nat \ Known : n <= m
      BY LeastNumber
    <2>2. n # 0
      BY <1>2, <2>1
    <2>3. n - 1 \in Nat /\ ~(n <= n - 1)
      BY <2>1, <2>2
    <2>4. n - 1 \in Known
      BY <2>1, <2>3
    <2>5. (n - 1) + 1 \in Known
      BY <1>3, <2>4
    <2>6. n \in Known
      BY <2>1, <2>5
    <2> QED BY <2>1, <2>6
  <1>5. Small(Cardinality(S)) = SUBSET S
    BY <1>1
  <1>6. PICK h : IsSum(h, Cardinality(S))
    BY <1>4
  <1>7. Adds(h, fun, S)
    BY <1>5, <1>6 DEF Adds
  <1> QED BY <1>7

(* What iter says of a set does not depend on the set that it was built for. *)
LEMMA SumsAgree ==
  ASSUME NEW fun, NEW S, IsFiniteSet(S), NEW T \in SUBSET S,
         NEW h, Adds(h, fun, S), NEW g, Adds(g, fun, T)
  PROVE  h[T] = g[T]
  <1> DEFINE Good == {s \in SUBSET T : h[s] = g[s]}
  <1>1. ASSUME NEW s \in SUBSET T, \A x \in s : s \ {x} \in Good
        PROVE  s \in Good
    <2>1. CASE s = {}
      BY <2>1 DEF Adds
    <2>2. CASE s # {}
      <3> DEFINE x == CHOOSE x \in s : TRUE
      <3>1. x \in s
        BY <2>2
      <3>2. h[s] = fun[x] + h[s \ {x}]
        BY <2>2 DEF Adds
      <3>3. g[s] = fun[x] + g[s \ {x}]
        BY <2>2 DEF Adds
      <3>4. h[s \ {x}] = g[s \ {x}]
        BY <1>1, <3>1
      <3> QED BY <3>2, <3>3, <3>4
    <2> QED BY <2>1, <2>2
  <1>2. IsFiniteSet(T)
    BY FS_Subset
  <1>3. T \in Good
    <2> HIDE DEF Good
    <2> QED BY <1>1, <1>2, SubsetInduction
  <1> QED BY <1>3

(* A sum over no elements, and one over the elements that CHOOSE takes first. *)
LEMMA SumUnfolds ==
  ASSUME NEW fun, NEW S, IsFiniteSet(S)
  PROVE  /\ S = {} => SumFunctionOnSet(fun, S) = 0
         /\ S # {} => LET x == CHOOSE x \in S : TRUE
                      IN  SumFunctionOnSet(fun, S)
                            = fun[x] + SumFunctionOnSet(fun, S \ {x})
  <1> DEFINE h == CHOOSE iter : Adds(iter, fun, S)
             x == CHOOSE x \in S : TRUE
             g == CHOOSE iter : Adds(iter, fun, S \ {x})
  <1>1. Adds(h, fun, S)
    BY SumExists
  <1>2. Adds(g, fun, S \ {x})
    <2>1. IsFiniteSet(S \ {x})
      BY FS_RemoveElement
    <2> QED BY <2>1, SumExists
  <1>3. h[S \ {x}] = g[S \ {x}]
    <2> HIDE DEF h, g, x
    <2> QED BY <1>1, <1>2, SumsAgree
  <1>4. SumFunctionOnSet(fun, S) = h[S] /\ SumFunctionOnSet(fun, S \ {x}) = g[S \ {x}]
    BY SumIs
  <1>5. h[S] = IF S = {} THEN 0 ELSE fun[x] + h[S \ {x}]
    <2> HIDE DEF h
    <2> QED BY <1>1 DEF Adds
  <1> HIDE DEF h, g
  <1> QED BY <1>3, <1>4, <1>5

(* A sum of natural numbers is one. *)
LEMMA SumIsNatural ==
  ASSUME NEW S, IsFiniteSet(S), NEW fun, \A x \in S : fun[x] \in Nat
  PROVE  SumFunctionOnSet(fun, S) \in Nat
  <1> DEFINE Good == {T \in SUBSET S : SumFunctionOnSet(fun, T) \in Nat}
  <1>1. ASSUME NEW T \in SUBSET S, \A x \in T : T \ {x} \in Good
        PROVE  T \in Good
    <2>1. IsFiniteSet(T)
      BY FS_Subset
    <2>2. CASE T = {}
      <3>1. SumFunctionOnSet(fun, T) = 0
        BY <2>1, <2>2, SumUnfolds
      <3> QED BY <3>1
    <2>3. CASE T # {}
      <3> DEFINE x == CHOOSE x \in T : TRUE
      <3>1. x \in T
        BY <2>3
      <3>2. SumFunctionOnSet(fun, T) = fun[x] + SumFunctionOnSet(fun, T \ {x})
        BY <2>1, <2>3, SumUnfolds
      <3>3. fun[x] \in Nat /\ SumFunctionOnSet(fun, T \ {x}) \in Nat
        BY <1>1, <3>1
      <3> QED BY <3>2, <3>3
    <2> QED BY <2>2, <2>3
  <1> HIDE DEF Good
  <1>2. \A T \in SUBSET S : T \in Good
    BY <1>1, SubsetInduction
  <1>3. S \in Good
    BY <1>2
  <1> QED BY <1>3 DEF Good

(* Any element may be added last. *)
LEMMA SumWithout ==
  ASSUME NEW S, IsFiniteSet(S), NEW fun, \A x \in S : fun[x] \in Nat, NEW x \in S
  PROVE  SumFunctionOnSet(fun, S) = fun[x] + SumFunctionOnSet(fun, S \ {x})
  <1> DEFINE Sum(T) == SumFunctionOnSet(fun, T)
             Good == {T \in SUBSET S : \A y \in T : Sum(T) = fun[y] + Sum(T \ {y})}
  <1>1. \A T \in SUBSET S : IsFiniteSet(T) /\ Sum(T) \in Nat
    BY FS_Subset, SumIsNatural
  <1>2. ASSUME NEW T \in SUBSET S, \A y \in T : T \ {y} \in Good
        PROVE  T \in Good
    <2> SUFFICES ASSUME NEW y \in T PROVE Sum(T) = fun[y] + Sum(T \ {y})
      OBVIOUS
    <2> DEFINE z == CHOOSE z \in T : TRUE
    <2>1. z \in T
      OBVIOUS
    <2>2. Sum(T) = fun[z] + Sum(T \ {z})
      BY <1>1, SumUnfolds
    <2> HIDE DEF z
    <2>3. CASE y = z
      BY <2>2, <2>3
    <2>4. CASE y # z
      <3> DEFINE a == Sum((T \ {y}) \ {z})
      <3>1. (T \ {z}) \ {y} = (T \ {y}) \ {z}
        OBVIOUS
      <3>2. Sum(T \ {z}) = fun[y] + a
        BY <1>2, <2>1, <2>4, <3>1
      <3>3. Sum(T \ {y}) = fun[z] + a
        BY <1>2, <2>1, <2>4
      <3>4. a \in Nat /\ fun[y] \in Nat /\ fun[z] \in Nat
        BY <1>1, <2>1
      <3> HIDE DEF Sum, a
      <3> QED BY <2>2, <3>2, <3>3, <3>4
    <2> QED BY <2>3, <2>4
  <1> HIDE DEF Good, Sum
  <1>3. \A T \in SUBSET S : T \in Good
    BY <1>2, SubsetInduction
  <1>4. S \in Good
    BY <1>3
  <1> QED BY <1>4 DEF Good, Sum

(* A sum depends on the summands alone. *)
LEMMA SumOfSame ==
  ASSUME NEW S, IsFiniteSet(S), NEW fun, NEW other, \A x \in S : fun[x] = other[x]
  PROVE  SumFunctionOnSet(fun, S) = SumFunctionOnSet(other, S)
  <1> DEFINE Good == {T \in SUBSET S :
                        SumFunctionOnSet(fun, T) = SumFunctionOnSet(other, T)}
  <1>1. ASSUME NEW T \in SUBSET S, \A x \in T : T \ {x} \in Good
        PROVE  T \in Good
    <2>1. IsFiniteSet(T)
      BY FS_Subset
    <2>2. CASE T = {}
      BY <2>1, <2>2, SumUnfolds
    <2>3. CASE T # {}
      <3> DEFINE x == CHOOSE x \in T : TRUE
      <3>1. x \in T
        BY <2>3
      <3>2. SumFunctionOnSet(fun, T) = fun[x] + SumFunctionOnSet(fun, T \ {x})
        BY <2>1, <2>3, SumUnfolds
      <3>3. SumFunctionOnSet(other, T) = other[x] + SumFunctionOnSet(other, T \ {x})
        BY <2>1, <2>3, SumUnfolds
      <3>4. fun[x] = other[x] /\ SumFunctionOnSet(fun, T \ {x}) = SumFunctionOnSet(other, T \ {x})
        BY <1>1, <3>1
      <3> QED BY <3>2, <3>3, <3>4
    <2> QED BY <2>2, <2>3
  <1> HIDE DEF Good
  <1>2. \A T \in SUBSET S : T \in Good
    BY <1>1, SubsetInduction
  <1>3. S \in Good
    BY <1>2
  <1> QED BY <1>3 DEF Good

-----------------------------------------------------------------------------
(* Facts about the constants                                               *)

(* Ids are positive integers, and a free slot holds a well-formed request. *)
LEMMA ConstantFacts ==
    /\ FileIds \subseteq Nat \ {0}
    /\ Len(Preload) \in Nat
    /\ \A f \in FileIds : f <= Len(Preload) =>
          /\ Preload[f].cid \in Cids
          /\ Preload[f].user \in Users
          /\ Preload[f].perm \in {"owner", "shared"}
    /\ NoRequest \in Request
    /\ NoRequest.file = NoFile /\ NoRequest.next = NoFile
  <1>1. Len(Preload) \in Nat /\ MaxRequests \in Nat
    BY ConstantsAssumption
  <1>2. ASSUME NEW f \in FileIds, f <= Len(Preload)
        PROVE  /\ Preload[f].cid \in Cids
               /\ Preload[f].user \in Users
               /\ Preload[f].perm \in {"owner", "shared"}
    <2>1. f \in 1..Len(Preload)
      BY <1>1, <1>2 DEF FileIds
    <2>2. Preload[f] \in [cid : Cids, user : Users, perm : {"owner", "shared"}]
      BY <2>1, ConstantsAssumption, ElementOfSeq
    <2> QED BY <2>2
  <1>3. (CHOOSE u \in Users : TRUE) \in Users /\ (CHOOSE c \in Cids : TRUE) \in Cids
    BY ConstantsAssumption
  <1> QED BY <1>1, <1>2, <1>3 DEF FileIds, NoRequest, Request, Paths, None, NoFile

LEMMA IdsAreNumbers == \A f \in FileIds : f \in Nat \ {0}
  BY ConstantFacts

LEMMA RequestIds == \A q \in Request : q.file \in Nat /\ q.next \in Nat
  BY IdsAreNumbers DEF Request, NoFile

-----------------------------------------------------------------------------
(* Type correctness                                                        *)

(* A request refers only to rows whose id has been given out; there is a next
   file wherever a statement uses it.  *)
NextKnown(r) ==
    /\ req[r].file < nextId /\ req[r].next < nextId
    /\ pc[r] \in {"giveOwner", "readNextUsed", "credit", "leavePool", "relate"}
         => req[r].next \in FileIds

(* Only rows whose id has been given out exist, committed or not. *)
RowsKnown ==
    \A f \in FileIds :
        nextId <= f => /\ fileRow[f] = "absent"
                       /\ \A r \in Reqs : txRow[r][f] = None

TypeInv == TypeOK /\ RowsKnown /\ \A r \in Reqs : NextKnown(r)

LEMMA InitTypeInv == Init => TypeInv
  <1> SUFFICES ASSUME Init PROVE TypeInv
    OBVIOUS
  <1>1. TypeOK
    <2>1. /\ fileRow \in [FileIds -> RowStates]
          /\ perm \in [FileIds -> Permissions \cup {None}]
          /\ up \in [FileIds -> {"none", "running", "done", "failed"}]
      BY ConstantFacts DEF Init, RowStates, Permissions, None
    <2>2. NoRequest.cid \in Cids /\ NoRequest.user \in Users
      BY ConstantFacts DEF Request
    <2>3. /\ fileCid \in [FileIds -> Cids]
          /\ fileUser \in [FileIds -> Users]
          /\ nextId \in Nat \ {0}
      BY ConstantFacts, <2>2 DEF Init
    <2>4. s3 \subseteq Cids
      <3> SUFFICES ASSUME NEW f \in DOMAIN Preload PROVE Preload[f].cid \in Cids
        BY DEF Init
      <3>1. f \in 1..Len(Preload)
        BY ConstantsAssumption
      <3> QED BY <3>1, ConstantFacts, ConstantsAssumption DEF FileIds
    <2>5. /\ storage \in [Users -> Nat] /\ charged \in [Users -> Nat]
          /\ pc \in [Reqs -> Phases] /\ req \in [Reqs -> Request]
      BY ConstantFacts, ConstantsAssumption DEF Init, Phases
    <2>6. /\ txSt \in [Reqs -> {"none", "open", "aborted", "closed"}]
          /\ txRow \in [Reqs -> [FileIds -> {None, "live", "deleted"}]]
          /\ txPerm \in [Reqs -> [FileIds -> Permissions \cup {None}]]
          /\ txUsed \in [Reqs -> [Users -> Nat \cup {NoWrite}]]
          /\ halfShared \subseteq FileIds
          /\ started \in Nat /\ crashes \in Nat
      BY DEF Init, NoRows, NoUsed
    <2> QED BY <2>1, <2>3, <2>4, <2>5, <2>6 DEF TypeOK
  <1>2. RowsKnown
    BY ConstantFacts DEF Init, RowsKnown, NoRows
  <1>3. \A r \in Reqs : NextKnown(r)
    BY ConstantFacts DEF Init, NextKnown, NoFile
  <1> QED BY <1>1, <1>2, <1>3 DEF TypeInv

(* A step that only reads keeps the types if the request it leaves is one. *)
LEMMA ReadsKeepTypeInv ==
  ASSUME TypeInv, NEW r \in Reqs, NEW p \in Phases, NEW q \in Request,
         q.file < nextId, q.next < nextId,
         p \in {"giveOwner", "readNextUsed", "credit", "leavePool", "relate"}
           => q.next \in FileIds,
         Reads(r, p, q)
  PROVE  TypeInv'
  <1>1. TypeOK'
    BY DEF TypeInv, TypeOK, Reads, Goto, dbVars, columns, txVars, bounds
  <1>2. RowsKnown'
    BY DEF TypeInv, RowsKnown, Reads, dbVars, columns, txVars
  <1>3. ASSUME NEW s \in Reqs PROVE NextKnown(s)'
    BY <1>3 DEF TypeInv, TypeOK, NextKnown, Reads, Goto, columns
  <1> QED BY <1>1, <1>2, <1>3 DEF TypeInv

(* The types of what Discard leaves. *)
LEMMA DiscardType ==
  ASSUME TypeOK, NEW r \in Reqs,
         NEW st \in {"none", "open", "aborted", "closed"}, Discard(r, st)
  PROVE  /\ txSt' \in [Reqs -> {"none", "open", "aborted", "closed"}]
         /\ txRow' \in [Reqs -> [FileIds -> {None, "live", "deleted"}]]
         /\ txPerm' \in [Reqs -> [FileIds -> Permissions \cup {None}]]
         /\ txUsed' \in [Reqs -> [Users -> Nat \cup {NoWrite}]]
         /\ \A s \in Reqs, f \in FileIds :
              txRow'[s][f] = None \/ txRow'[s][f] = txRow[s][f]
  BY DEF TypeOK, Discard, NoRows, NoUsed

(* The same of Publish: a committed row was known. *)
LEMMA PublishType ==
  ASSUME TypeOK, RowsKnown, NEW r \in Reqs, Publish(r)
  PROVE  /\ fileRow' \in [FileIds -> RowStates]
         /\ perm' \in [FileIds -> Permissions \cup {None}]
         /\ storage' \in [Users -> Nat]
         /\ \A f \in FileIds : nextId <= f => fileRow'[f] = "absent"
  BY DEF TypeOK, RowsKnown, Publish, RowStates, None, NoWrite

(* A slot that becomes free is well formed. *)
LEMMA ReturnType ==
  ASSUME TypeInv, NEW r \in Reqs, Return(r), nextId' = nextId
  PROVE  /\ pc' \in [Reqs -> Phases]
         /\ req' \in [Reqs -> Request]
         /\ \A s \in Reqs : NextKnown(s)'
  <1>1. nextId \in Nat \ {0}
    BY DEF TypeInv, TypeOK
  <1> QED
    BY <1>1, ConstantFacts
       DEF TypeInv, TypeOK, NextKnown, Return, Goto, Phases, NoFile

(* What every call has in common: the request q that it stores, and the first
   phase p.  *)
NewRequest(p, q) ==
    /\ q \in Request
    /\ p \in {"insert", "head", "poolHead", "holders"}
    /\ p # "holders" => q.perm \in {"owner", "shared"} /\ q.path # "delete"
    /\ p = "holders" => /\ q.path = "delete" /\ q.file \in FileIds
                       /\ fileCid[q.file] = q.cid
    /\ p = "poolHead" => q.path = "pool"
    /\ q.path \in Routes
    /\ q.next = NoFile
    /\ q.file # NoFile => /\ q.file \in FileIds /\ fileRow[q.file] = "live"
                          /\ perm[q.file] # None

LEMMA CallsMakeRequests ==
  ASSUME TypeInv, NEW r \in Reqs, Calls(r)
  PROVE  \E route \in Routes, p \in Phases, q \in Request :
            Call(r, route, p, q) /\ NewRequest(p, q)
  <1> USE DEF Routes, Phases
  <1>0. ASSUME NEW f \in FileIds
        PROVE  fileCid[f] \in Cids /\ fileUser[f] \in Users
    BY <1>0 DEF TypeInv, TypeOK
  <1>1. ASSUME NEW u \in Users, NEW c \in Cids, PutUploadFiles(r, u, c)
        PROVE  \E route \in Routes, p \in Phases, q \in Request :
                  Call(r, route, p, q) /\ NewRequest(p, q)
    <2> DEFINE q == [NoRequest EXCEPT !.path = "upload", !.user = u,
                                      !.cid = c, !.perm = "owner"]
    <2>1. q \in Request /\ NewRequest("insert", q)
      BY ConstantFacts DEF Request, Paths, NewRequest
    <2> QED BY <1>1, <2>1 DEF PutUploadFiles
  <1>2. ASSUME NEW u \in Users, NEW c \in Cids, CreateFile(r, u, c)
        PROVE  \E route \in Routes, p \in Phases, q \in Request :
                  Call(r, route, p, q) /\ NewRequest(p, q)
    <2> DEFINE q(p) == [NoRequest EXCEPT !.path = "create", !.user = u,
                                         !.cid = c, !.perm = p]
    <2>1. ASSUME NEW p \in {"owner", "shared"}
          PROVE  /\ q(p) \in Request
                 /\ NewRequest("insert", q(p)) /\ NewRequest("head", q(p))
      BY ConstantFacts DEF Request, Paths, NewRequest
    <2> QED BY <1>2, <2>1 DEF CreateFile
  <1>3. ASSUME NEW u \in Users, NEW c \in Cids, NEW p \in {"owner", "shared"},
               CheckFilesExistInPool(r, u, c, p)
        PROVE  \E route \in Routes, ph \in Phases, q \in Request :
                  Call(r, route, ph, q) /\ NewRequest(ph, q)
    <2> DEFINE q == [NoRequest EXCEPT !.path = "pool", !.user = u,
                                      !.cid = c, !.perm = p]
    <2>1. q \in Request /\ NewRequest("poolHead", q)
      BY ConstantFacts DEF Request, Paths, NewRequest
    <2> QED BY <1>3, <2>1 DEF CheckFilesExistInPool
  <1>4. ASSUME NEW f \in FileIds, NEW v \in Users, NEW c \in Cids,
               ShareFile(r, f, v, c)
        PROVE  \E route \in Routes, p \in Phases, q \in Request :
                  Call(r, route, p, q) /\ NewRequest(p, q)
    <2> DEFINE q == [NoRequest EXCEPT !.path = "share", !.user = v, !.file = f,
                                      !.cid = c, !.perm = "shared"]
    <2>1. q \in Request /\ NewRequest("insert", q)
      BY ConstantFacts, <1>0, <1>4 DEF Request, Paths, NewRequest, ShareFile
    <2> QED BY <1>4, <2>1 DEF ShareFile
  <1>5. ASSUME NEW f \in FileIds, NEW u \in Users, DeleteFile(r, u, f)
        PROVE  \E route \in Routes, p \in Phases, q \in Request :
                  Call(r, route, p, q) /\ NewRequest(p, q)
    <2> DEFINE q == [NoRequest EXCEPT !.path = "delete", !.user = u,
                                      !.file = f, !.cid = fileCid[f]]
    <2>1. q \in Request /\ NewRequest("holders", q)
      BY ConstantFacts, <1>0, <1>5 DEF Request, Paths, NewRequest, DeleteFile
    <2> QED BY <1>5, <2>1 DEF DeleteFile
  <1> QED BY <1>1, <1>2, <1>3, <1>4, <1>5 DEF Calls

LEMMA CallsKeepTypeInv ==
  ASSUME TypeInv, NEW r \in Reqs, Calls(r)
  PROVE  TypeInv'
  <1>1. PICK route \in Routes, p \in Phases, q \in Request :
            Call(r, route, p, q) /\ NewRequest(p, q)
    BY CallsMakeRequests
  <1>2. nextId \in Nat \ {0} /\ q.file < nextId
    <2>1. nextId \in Nat \ {0}
      BY DEF TypeInv, TypeOK
    <2>2. CASE q.file = NoFile
      BY <2>1, <2>2 DEF NoFile
    <2>3. CASE q.file # NoFile
      <3>1. q.file \in FileIds /\ fileRow[q.file] # "absent"
        BY <1>1, <2>3 DEF NewRequest
      <3> QED BY <2>1, <3>1, IdsAreNumbers DEF TypeInv, RowsKnown
    <2> QED BY <2>2, <2>3, <2>1
  <1>3. TypeOK'
    BY <1>1 DEF TypeInv, TypeOK, Call, Goto, dbVars, columns
  <1>4. RowsKnown'
    BY <1>1 DEF TypeInv, RowsKnown, Call, dbVars, columns
  <1>5. ASSUME NEW s \in Reqs PROVE NextKnown(s)'
    BY <1>1, <1>2, <1>5
       DEF TypeInv, TypeOK, NextKnown, Call, Goto, columns, NoFile, NewRequest
  <1> QED BY <1>3, <1>4, <1>5 DEF TypeInv

LEMMA StepKeepsTypeInv ==
  ASSUME TypeInv, NEW r \in Reqs, Step(r)
  PROVE  TypeInv'
  <1> USE DEF Phases
  <1>0. /\ req[r] \in Request /\ NextKnown(r)
        /\ nextId \in Nat \ {0}
        /\ SizeOf[req[r].cid] \in Nat
    BY ConstantsAssumption DEF TypeInv, TypeOK, Request
  <1>1. ASSUME NEW p \in Phases, Reads(r, p, req[r]),
               p \in {"giveOwner", "readNextUsed", "credit", "leavePool",
                      "relate"} => req[r].next \in FileIds
        PROVE  TypeInv'
    BY <1>0, <1>1, ReadsKeepTypeInv DEF NextKnown
  <1>2. CASE HeadObject(r)
    BY <1>1, <1>2 DEF HeadObject
  <1>3. CASE DecideInPool(r)
    <2> DEFINE q(x) == [req[r] EXCEPT !.perm = x]
    <2>1. \A x \in {"shared", "owner"} :
            /\ q(x) \in Request
            /\ q(x).file < nextId /\ q(x).next < nextId
      BY <1>0 DEF Request, NextKnown
    <2>2. PICK x \in {"shared", "owner"} : Reads(r, "insert", q(x))
      BY <1>3 DEF DecideInPool
    <2> HIDE DEF q
    <2> QED BY <2>1, <2>2, ReadsKeepTypeInv
  <1>4. CASE HeadPoolObject(r)
    BY <1>1, <1>4 DEF HeadPoolObject
  <1>5. CASE TxCreate(r)
    <2>1. TypeOK'
      BY <1>0, <1>5 DEF TypeInv, TypeOK, TxCreate, Goto, dbVars, bounds,
                        Request, Permissions
    <2>2. RowsKnown'
      BY <1>0, <1>5, ConstantFacts
         DEF TypeInv, TypeOK, RowsKnown, TxCreate, dbVars
    <2>3. ASSUME NEW s \in Reqs PROVE NextKnown(s)'
      <3>1. /\ req[s].file \in Nat /\ req[s].next \in Nat /\ req' = req
            /\ nextId' = nextId + 1
        BY <1>5, RequestIds DEF TypeInv, TypeOK, TxCreate
      <3>2. pc'[s] = pc[s] \/ pc'[s] \in {"commit", "readUsed"}
        BY <1>5 DEF TypeInv, TypeOK, TxCreate, Goto
      <3>3. NextKnown(s)
        BY DEF TypeInv
      <3> QED BY <1>0, <3>1, <3>2, <3>3 DEF NextKnown
    <2> QED BY <2>1, <2>2, <2>3 DEF TypeInv
  <1>6. CASE CommitSharedCopy(r)
    <2>1. TypeOK'
      <3>1. /\ req[r].cid \in Cids /\ req[r].user \in Users
            /\ nextId \in FileIds
            /\ [req[r] EXCEPT !.next = nextId] \in Request
        BY <1>0, <1>6 DEF Request, CommitSharedCopy
      <3>2. req' = [req EXCEPT ![r] = [req[r] EXCEPT !.next = nextId]]
        BY <1>6 DEF CommitSharedCopy
      <3>3. req' \in [Reqs -> Request]
        BY <3>1, <3>2 DEF TypeInv, TypeOK
      <3> QED BY <1>0, <1>6, <3>1, <3>3
              DEF TypeInv, TypeOK, CommitSharedCopy, Goto, txVars, bounds,
                  RowStates
    <2>2. RowsKnown'
      BY <1>0, <1>6, ConstantFacts
         DEF TypeInv, TypeOK, RowsKnown, CommitSharedCopy, txVars
    <2>3. ASSUME NEW s \in Reqs PROVE NextKnown(s)'
      <3>1. req[s].file \in Nat /\ req[s].next \in Nat
        BY RequestIds DEF TypeInv, TypeOK
      <3>2. nextId' = nextId + 1 /\ nextId \in FileIds
        BY <1>6 DEF CommitSharedCopy
      <3>3. /\ req' = [req EXCEPT ![r].next = nextId]
            /\ pc' = [pc EXCEPT ![r] = "relate"]
        BY <1>6 DEF CommitSharedCopy, Goto
      <3>4. CASE s = r
        <4>1. /\ req'[s].next = nextId /\ req'[s].file = req[s].file
              /\ pc'[s] = "relate"
          BY <1>0, <3>3, <3>4 DEF TypeInv, TypeOK, Request
        <4> QED BY <1>0, <3>1, <3>2, <3>4, <4>1 DEF NextKnown
      <3>5. CASE s # r
        <4>1. req'[s] = req[s] /\ pc'[s] = pc[s]
          BY <3>3, <3>5 DEF TypeInv, TypeOK
        <4>2. NextKnown(s)
          BY DEF TypeInv
        <4> QED BY <1>0, <3>1, <3>2, <4>1, <4>2 DEF NextKnown
      <3> QED BY <3>4, <3>5
    <2> QED BY <2>1, <2>2, <2>3 DEF TypeInv
  <1>7. CASE CommitSharedRelation(r)
    <2>1. TypeOK'
      BY <1>7, ReturnType, DiscardType
         DEF TypeInv, TypeOK, CommitSharedRelation, Return, columns, bounds,
             Permissions
    <2>2. RowsKnown'
      BY <1>7, DiscardType
         DEF TypeInv, RowsKnown, CommitSharedRelation, Return, columns
    <2> QED BY <1>7, <2>1, <2>2, ReturnType
            DEF TypeInv, CommitSharedRelation, columns
  <1>31. CASE SharedRelationFails(r)
    <2>1. TypeOK'
      <3>1. req[r].next \in FileIds
        BY <1>0, <1>31 DEF NextKnown, SharedRelationFails
      <3> QED BY <1>31, <3>1, ReturnType, DiscardType
              DEF TypeInv, TypeOK, SharedRelationFails, Return, dbVars, columns
    <2>2. RowsKnown'
      BY <1>31, DiscardType
         DEF TypeInv, RowsKnown, SharedRelationFails, Return, dbVars, columns
    <2> QED BY <1>31, <2>1, <2>2, ReturnType
            DEF TypeInv, SharedRelationFails, columns
  <1>8. CASE ReadUsed(r)
    <2> DEFINE q == [req[r] EXCEPT !.used = storage[req[r].user]]
    <2>1. /\ q \in Request /\ q.file < nextId /\ q.next < nextId
      BY <1>0 DEF TypeInv, TypeOK, Request, NextKnown
    <2>2. PICK p \in {"debit", "debitNow", "charge"} : Reads(r, p, q)
      BY <1>8 DEF ReadUsed
    <2> HIDE DEF q
    <2> QED BY <2>1, <2>2, ReadsKeepTypeInv
  <1>9. ASSUME NEW u \in Users, NEW used \in Nat, NEW adding \in Nat,
               WriteUsed(r, u, used, adding), NEW p \in Phases, Goto(r, p),
               p \notin {"giveOwner", "readNextUsed", "credit", "leavePool",
                         "relate"}
        PROVE  TypeInv'
    <2>1. TypeOK'
      BY <1>9 DEF TypeInv, TypeOK, WriteUsed, Goto, dbVars, columns, bounds
    <2>2. RowsKnown'
      BY <1>9 DEF TypeInv, RowsKnown, WriteUsed, dbVars, columns
    <2>3. ASSUME NEW s \in Reqs PROVE NextKnown(s)'
      BY <1>9, <2>3 DEF TypeInv, TypeOK, NextKnown, WriteUsed, Goto, columns
    <2> QED BY <2>1, <2>2, <2>3 DEF TypeInv
  <1>10. CASE Charge(r)
    BY <1>0, <1>9, <1>10 DEF Charge, Request
  <1>11. CASE Commit(r)
    <2>1. /\ fileRow' \in [FileIds -> RowStates]
          /\ perm' \in [FileIds -> Permissions \cup {None}]
          /\ storage' \in [Users -> Nat]
          /\ \A f \in FileIds : nextId <= f => fileRow'[f] = "absent"
      BY <1>11, PublishType DEF TypeInv, TypeOK, RowsKnown, Commit, dbVars
    <2>2. TypeOK'
      BY <1>11, <2>1, ReturnType, DiscardType
         DEF TypeInv, TypeOK, Commit, Return, columns, bounds
    <2>3. RowsKnown'
      <3>1. nextId' = nextId /\ Discard(r, "none")
        BY <1>11 DEF Commit, columns, Return
      <3> QED BY <2>1, <3>1, DiscardType DEF TypeInv, RowsKnown
    <2> QED BY <1>11, <2>2, <2>3, ReturnType DEF TypeInv, Commit, columns
  <1>12. CASE FindUsersByFileCID(r)
    <2> DEFINE q(b) == [req[r] EXCEPT !.others = b]
    <2>1. \A b \in BOOLEAN : /\ q(b) \in Request
                             /\ q(b).file < nextId /\ q(b).next < nextId
      BY <1>0 DEF Request, NextKnown
    <2>2. PICK b \in BOOLEAN : Reads(r, "copies", q(b))
      BY <1>12 DEF FindUsersByFileCID, AtLeastTwo
    <2> HIDE DEF q
    <2> QED BY <2>1, <2>2, ReadsKeepTypeInv
  <1>13. CASE FindFilesByUserAndFileCID(r)
    <2> DEFINE copies == AtLeastTwo(CopiesOf(req[r].user, req[r].cid))
               q1 == [req[r] EXCEPT !.copies = copies]
               q2 == [req[r] EXCEPT !.path = "sole"]
    <2>1. copies \in BOOLEAN
      BY DEF AtLeastTwo
    <2>2. /\ q1 \in Request /\ q1.file < nextId /\ q1.next < nextId
          /\ q2 \in Request /\ q2.file < nextId /\ q2.next < nextId
      BY <1>0, <2>1 DEF Request, NextKnown, Paths
    <2>3. Reads(r, "isOwner", q1) \/ Reads(r, "s3Delete", q2)
      BY <1>13 DEF FindFilesByUserAndFileCID
    <2> HIDE DEF q1, q2
    <2> QED BY <2>2, <2>3, ReadsKeepTypeInv
  <1>14. CASE IsFileOwner(r)
    <2> DEFINE q(x) == [req[r] EXCEPT !.path = x]
    <2>1. \A x \in {"owner", "shared"} :
             q(x) \in Request /\ q(x).file < nextId /\ q(x).next < nextId
      BY <1>0 DEF Request, NextKnown, Paths
    <2>2. Reads(r, "readUsed", q("owner")) \/ Reads(r, "deleteRow", q("shared"))
      BY <1>14 DEF IsFileOwner
    <2> HIDE DEF q
    <2> QED BY <2>1, <2>2, ReadsKeepTypeInv
  <1>15. CASE DeleteFileFromS3(r)
    <2>1. TypeOK'
      BY <1>15 DEF TypeInv, TypeOK, DeleteFileFromS3, Goto, dbVars, columns,
                   txVars, bounds
    <2>2. RowsKnown'
      BY <1>15 DEF TypeInv, RowsKnown, DeleteFileFromS3, dbVars, columns, txVars
    <2>3. ASSUME NEW s \in Reqs PROVE NextKnown(s)'
      BY <1>15, <2>3 DEF TypeInv, TypeOK, NextKnown, DeleteFileFromS3, Goto,
                         columns
    <2> QED BY <2>1, <2>2, <2>3 DEF TypeInv
  <1>16. Debit(req[r].used, SizeOf[req[r].cid]) \in Nat
    BY <1>0 DEF Debit, Request
  <1>17. CASE DebitOwner(r)
    BY <1>0, <1>9, <1>16, <1>17 DEF DebitOwner, Request
  <1>18. CASE DebitNow(r)
    <2>1. TypeOK'
      BY <1>16, <1>18 DEF TypeInv, TypeOK, DebitNow, Goto, columns, txVars,
                          bounds
    <2>2. RowsKnown'
      BY <1>18 DEF TypeInv, RowsKnown, DebitNow, columns, txVars
    <2>3. ASSUME NEW s \in Reqs PROVE NextKnown(s)'
      BY <1>18, <2>3 DEF TypeInv, TypeOK, NextKnown, DebitNow, Goto, columns
    <2> QED BY <2>1, <2>2, <2>3 DEF TypeInv
  <1>19. CASE DeleteFileUser(r)
    <2>1. TypeOK'
      BY <1>19 DEF TypeInv, TypeOK, DeleteFileUser, Goto, dbVars, columns, bounds
    <2>2. RowsKnown'
      <3>1. /\ fileRow' = fileRow /\ nextId' = nextId
            /\ txRow' = [txRow EXCEPT ![r][req[r].file] = "deleted"]
        BY <1>19 DEF DeleteFileUser, dbVars, columns
      <3> QED BY <1>0, <3>1, RequestIds, IdsAreNumbers
              DEF TypeInv, TypeOK, RowsKnown, NextKnown
    <2>3. ASSUME NEW s \in Reqs PROVE NextKnown(s)'
      BY <1>19, <2>3 DEF TypeInv, TypeOK, NextKnown, DeleteFileUser, Goto, columns
    <2> QED BY <2>1, <2>2, <2>3 DEF TypeInv
  <1>20. CASE DeleteFilePermission(r)
    <2>1. TypeOK'
      BY <1>20 DEF TypeInv, TypeOK, DeleteFilePermission, Goto, dbVars, columns,
                   bounds, Permissions
    <2>2. RowsKnown'
      BY <1>20 DEF TypeInv, RowsKnown, DeleteFilePermission, dbVars, columns
    <2>3. ASSUME NEW s \in Reqs PROVE NextKnown(s)'
      BY <1>20, <2>3 DEF TypeInv, TypeOK, NextKnown, DeleteFilePermission, Goto,
                         columns
    <2> QED BY <2>1, <2>2, <2>3 DEF TypeInv
  <1>21. ASSUME NEW g \in FileIds, NEW x \in {req[r].path, "own"},
                fileRow[g] = "live",
                Reads(r, "giveOwner", [req[r] EXCEPT !.next = g, !.path = x])
         PROVE  TypeInv'
    <2> DEFINE q == [req[r] EXCEPT !.next = g, !.path = x]
    <2>1. q \in Request /\ q.file < nextId /\ q.next = g
      BY <1>0, <1>21 DEF Request, NextKnown, Paths
    <2>2. g < nextId
      BY <1>0, <1>21, IdsAreNumbers DEF TypeInv, RowsKnown
    <2>3. Reads(r, "giveOwner", q)
      BY <1>21
    <2> HIDE DEF q
    <2> QED BY <2>1, <2>2, <2>3, ReadsKeepTypeInv
  <1>22. CASE GetNextOwner(r)
    <2>1. CASE Reads(r, "nextCopy", req[r]) \/ Reads(r, "commit", req[r])
      BY <1>1, <2>1
    <2>2. ASSUME NEW g \in FileIds, SecondNewest(g, req[r].cid),
                 Reads(r, "giveOwner", [req[r] EXCEPT !.next = g])
          PROVE  TypeInv'
      <3>1. [req[r] EXCEPT !.next = g, !.path = req[r].path]
              = [req[r] EXCEPT !.next = g]
        BY <1>0 DEF Request
      <3> QED BY <1>21, <2>2, <3>1 DEF SecondNewest, LiveRows
    <2>3. CASE Panic(r)
      BY <1>1, <2>3 DEF Panic
    <2> QED BY <1>22, <2>1, <2>2, <2>3 DEF GetNextOwner
  <1>23. CASE GetNextFileUser(r)
    <2>1. CASE Reads(r, "commit", req[r])
      BY <1>1, <2>1
    <2>2. ASSUME NEW g \in LiveRows(req[r].cid),
                 Reads(r, "giveOwner", [req[r] EXCEPT !.next = g, !.path = "own"])
          PROVE  TypeInv'
      BY <1>21, <2>2 DEF LiveRows
    <2>3. CASE Panic(r)
      BY <1>1, <2>3 DEF Panic
    <2> QED BY <1>23, <2>1, <2>2, <2>3 DEF GetNextFileUser
  <1>24. CASE SetOwnerPermision(r)
    <2>1. TypeOK'
      <3>1. AfterOwnership(r) \in Phases
        BY DEF AfterOwnership
      <3>2. txPerm' \in [Reqs -> [FileIds -> Permissions \cup {None}]]
        BY <1>24 DEF TypeInv, TypeOK, SetOwnerPermision, Permissions
      <3> QED BY <1>24, <3>1, <3>2
              DEF TypeInv, TypeOK, SetOwnerPermision, Goto, dbVars, columns,
                  bounds
    <2>2. RowsKnown'
      BY <1>24 DEF TypeInv, RowsKnown, SetOwnerPermision, dbVars, columns
    <2>3. ASSUME NEW s \in Reqs PROVE NextKnown(s)'
      <3>1. pc[r] = "giveOwner" /\ req' = req /\ nextId' = nextId
        BY <1>24 DEF SetOwnerPermision, Ready, columns
      <3>2. pc'[s] = pc[s] \/ s = r
        BY <1>24 DEF TypeInv, TypeOK, SetOwnerPermision, Goto
      <3> QED BY <1>0, <3>1, <3>2 DEF TypeInv, NextKnown
    <2> QED BY <2>1, <2>2, <2>3 DEF TypeInv
  <1>25. CASE ReadNextUsed(r)
    <2> DEFINE u == fileUser[req[r].next]
               q == [req[r] EXCEPT !.used = storage[u]]
    <2>1. u \in Users /\ storage[u] \in Nat
      BY <1>0, <1>25 DEF TypeInv, TypeOK, NextKnown, ReadNextUsed
    <2>2. /\ q \in Request /\ q.file < nextId /\ q.next < nextId
          /\ q.next \in FileIds
      BY <1>0, <1>25, <2>1 DEF Request, NextKnown, ReadNextUsed
    <2>3. Reads(r, "credit", q)
      BY <1>25 DEF ReadNextUsed
    <2> HIDE DEF q
    <2> QED BY <2>2, <2>3, ReadsKeepTypeInv
  <1>26. CASE CreditNextOwner(r)
    <2>1. fileUser[req[r].next] \in Users
      BY <1>0, <1>26 DEF TypeInv, TypeOK, NextKnown, CreditNextOwner, Ready
    <2> QED BY <1>0, <1>9, <1>26, <2>1 DEF CreditNextOwner, Request
  <1>27. CASE SetNextFileInPool(r)
    BY <1>1, <1>27 DEF SetNextFileInPool
  <1>28. CASE StatementFails(r)
    <2>1. TypeOK'
      BY <1>28, ReturnType, DiscardType
         DEF TypeInv, TypeOK, StatementFails, Return, dbVars, columns, bounds
    <2>2. RowsKnown'
      BY <1>28, DiscardType
         DEF TypeInv, RowsKnown, StatementFails, Return, dbVars, columns
    <2> QED BY <1>28, <2>1, <2>2, ReturnType DEF TypeInv, StatementFails, columns
  <1>29. CASE StatementFailsUnnoticed(r)
    BY <1>0, <1>1, <1>29 DEF StatementFailsUnnoticed, AfterOwnership, NextKnown
  <1>30. CASE DeadlockVictim(r)
    <2>1. TypeOK'
      BY <1>30, DiscardType
         DEF TypeInv, TypeOK, DeadlockVictim, dbVars, columns, bounds
    <2>2. RowsKnown'
      BY <1>30, DiscardType DEF TypeInv, RowsKnown, DeadlockVictim, dbVars, columns
    <2>3. ASSUME NEW s \in Reqs PROVE NextKnown(s)'
      BY <1>30, <2>3 DEF TypeInv, NextKnown, DeadlockVictim, columns
    <2> QED BY <2>1, <2>2, <2>3 DEF TypeInv
  <1> QED BY <1>2, <1>3, <1>4, <1>5, <1>6, <1>7, <1>8, <1>10, <1>11, <1>12,
             <1>13, <1>14, <1>15, <1>17, <1>18, <1>19, <1>20, <1>22, <1>23,
             <1>24, <1>25, <1>26, <1>27, <1>28, <1>29, <1>30, <1>31 DEF Step

LEMMA OthersKeepTypeInv ==
  ASSUME TypeInv,
         \/ \E f \in FileIds : UploadDone(f) \/ UploadFail(f)
         \/ Crash
         \/ UNCHANGED vars
  PROVE  TypeInv'
  <1>1. ASSUME NEW f \in FileIds, UploadDone(f) PROVE TypeInv'
    <2>1. TypeOK'
      BY <1>1 DEF TypeInv, TypeOK, UploadDone, dbVars, columns, txVars, bounds
    <2>2. RowsKnown'
      BY <1>1 DEF TypeInv, RowsKnown, UploadDone, dbVars, columns, txVars
    <2>3. ASSUME NEW s \in Reqs PROVE NextKnown(s)'
      BY <1>1, <2>3 DEF TypeInv, NextKnown, UploadDone, columns
    <2> QED BY <2>1, <2>2, <2>3 DEF TypeInv
  <1>2. ASSUME NEW f \in FileIds, UploadFail(f) PROVE TypeInv'
    <2>1. /\ txSt' \in [Reqs -> {"none", "open", "aborted", "closed"}]
          /\ txRow' \in [Reqs -> [FileIds -> {None, "live", "deleted"}]]
          /\ txPerm' \in [Reqs -> [FileIds -> Permissions \cup {None}]]
          /\ txUsed' \in [Reqs -> [Users -> Nat \cup {NoWrite}]]
          /\ \A s \in Reqs, g \in FileIds :
               txRow'[s][g] = None \/ txRow'[s][g] = txRow[s][g]
      BY <1>2, DiscardType DEF TypeInv, TypeOK, UploadFail, txVars
    <2>2. TypeOK'
      BY <1>2, <2>1 DEF TypeInv, TypeOK, UploadFail, dbVars, columns, bounds
    <2>3. RowsKnown'
      BY <1>2, <2>1 DEF TypeInv, RowsKnown, UploadFail, dbVars, columns
    <2>4. ASSUME NEW s \in Reqs PROVE NextKnown(s)'
      BY <1>2, <2>4 DEF TypeInv, NextKnown, UploadFail, columns
    <2> QED BY <2>2, <2>3, <2>4 DEF TypeInv
  <1>3. CASE Crash
    <2>1. TypeOK'
      <3>1. halfShared' \subseteq FileIds
        BY <1>3 DEF TypeInv, TypeOK, NextKnown, Crash
      <3> QED BY <1>3, <3>1, ConstantFacts
         DEF TypeInv, TypeOK, Crash, dbVars, columns, NoRows, NoUsed, Phases
    <2>2. RowsKnown'
      BY <1>3 DEF TypeInv, RowsKnown, Crash, dbVars, columns, NoRows
    <2>3. ASSUME NEW s \in Reqs PROVE NextKnown(s)'
      BY <1>3, <2>3, ConstantFacts
         DEF TypeInv, TypeOK, NextKnown, Crash, columns, NoFile
    <2> QED BY <2>1, <2>2, <2>3 DEF TypeInv
  <1>4. CASE UNCHANGED vars
    BY <1>4 DEF TypeInv, TypeOK, RowsKnown, NextKnown, vars
  <1> QED BY <1>1, <1>2, <1>3, <1>4

LEMMA TypeInvInductive == TypeInv /\ [Next]_vars => TypeInv'
  BY CallsKeepTypeInv, StepKeepsTypeInv, OthersKeepTypeInv DEF Next

LEMMA TypeInvHolds == Spec => []TypeInv
  BY InitTypeInv, TypeInvInductive, PTL DEF Spec

(* Every variable of FileLifecycle has its type in every reachable state, for
   any users, contents, rows at the start, number of requests and crashes.  *)
THEOREM TypeCorrect == Spec => []TypeOK
  <1>1. TypeInv => TypeOK
    BY DEF TypeInv
  <1> QED BY <1>1, TypeInvHolds, PTL

-----------------------------------------------------------------------------
(* storage_used                                                            *)

(* What a handler has read, and will write back, of the user it writes it to. *)
UsedBounded(r) ==
    /\ pc[r] \in {"debit", "debitNow", "charge"}
         => req[r].used <= charged[req[r].user]
    /\ pc[r] = "credit" => req[r].used <= charged[fileUser[req[r].next]]

(* Not only the committed value is bounded by what was ever added, also each
   pending write, and each value that a handler will write back. *)
ChargesInv ==
    /\ \A u \in Users : storage[u] <= charged[u]
    /\ \A r \in Reqs, u \in Users : txUsed[r][u] <= charged[u]
    /\ \A r \in Reqs : UsedBounded(r)

(* What a step has to show: charged only grows, the values that it writes are
   bounded, and a request with a bound to keep is untouched or bounded again. *)
LEMMA ChargesKept ==
  ASSUME TypeInv, TypeInv', ChargesInv,
         \A u \in Users : charged[u] <= charged'[u],
         \A u \in Users : storage'[u] = storage[u] \/ storage'[u] <= charged'[u],
         \A r \in Reqs, u \in Users : \/ txUsed'[r][u] = txUsed[r][u]
                                      \/ txUsed'[r][u] <= charged'[u],
         \A f \in FileIds : f < nextId => fileUser'[f] = fileUser[f],
         \A r \in Reqs :
            \/ pc'[r] = pc[r] /\ req'[r] = req[r]
            \/ pc'[r] \notin {"debit", "debitNow", "charge", "credit"}
            \/ UsedBounded(r)'
  PROVE  ChargesInv'
  <1>1. \A u \in Users : charged[u] \in Nat /\ charged'[u] \in Nat
    BY DEF TypeInv, TypeOK
  <1>2. ASSUME NEW u \in Users PROVE storage'[u] <= charged'[u]
    <2>1. storage[u] \in Nat /\ storage[u] <= charged[u]
      BY DEF TypeInv, TypeOK, ChargesInv
    <2> QED BY <1>1, <2>1
  <1>3. ASSUME NEW r \in Reqs, NEW u \in Users PROVE txUsed'[r][u] <= charged'[u]
    <2>1. txUsed[r][u] \in Int /\ txUsed[r][u] <= charged[u]
      BY DEF TypeInv, TypeOK, ChargesInv, NoWrite
    <2> QED BY <1>1, <2>1
  <1>4. ASSUME NEW r \in Reqs PROVE UsedBounded(r)'
    <2>1. CASE pc'[r] \notin {"debit", "debitNow", "charge", "credit"}
      BY <2>1 DEF UsedBounded
    <2>2. CASE pc'[r] = pc[r] /\ req'[r] = req[r]
      <3>1. req[r].user \in Users /\ req[r].used \in Nat
        BY DEF TypeInv, TypeOK, Request
      <3>2. ASSUME pc[r] = "credit"
            PROVE  /\ fileUser[req[r].next] \in Users
                   /\ fileUser'[req[r].next] = fileUser[req[r].next]
        BY <3>2 DEF TypeInv, TypeOK, NextKnown
      <3> QED BY <1>1, <2>2, <3>1, <3>2 DEF ChargesInv, UsedBounded
    <2> QED BY <2>1, <2>2
  <1> QED BY <1>2, <1>3, <1>4 DEF ChargesInv, UsedBounded

(* What Discard does to pending writes of storage_used. *)
LEMMA DiscardUsed ==
  ASSUME TypeOK, ChargesInv, NEW r \in Reqs, NEW st, Discard(r, st)
  PROVE  \A s \in Reqs, u \in Users : \/ txUsed'[s][u] = txUsed[s][u]
                                      \/ txUsed'[s][u] <= charged[u]
  BY DEF TypeOK, Discard, NoUsed, NoWrite

LEMMA StepKeepsCharges ==
  ASSUME TypeInv, TypeInv', ChargesInv, NEW r \in Reqs, Step(r)
  PROVE  ChargesInv'
  <1> DEFINE Bounding == {"debit", "debitNow", "charge", "credit"}
  <1>0. /\ req[r] \in Request
        /\ req[r].user \in Users /\ req[r].used \in Nat
        /\ SizeOf[req[r].cid] \in Nat
        /\ \A u \in Users : charged[u] \in Nat /\ storage[u] \in Nat
    BY ConstantsAssumption DEF TypeInv, TypeOK, Request
  <1>1. ASSUME NEW p, NEW q, Reads(r, p, q),
               \/ p \notin Bounding
               \/ p = "credit" /\ q.used <= charged[fileUser[q.next]]
               \/ p # "credit" /\ q.used <= charged[q.user]
        PROVE  ChargesInv'
    <2>1. \A s \in Reqs :
            \/ pc'[s] = pc[s] /\ req'[s] = req[s]
            \/ pc'[s] \notin Bounding
            \/ UsedBounded(s)'
      BY <1>1 DEF TypeInv, TypeOK, Reads, Goto, UsedBounded, columns
    <2> QED BY <1>0, <1>1, <2>1, ChargesKept
            DEF Reads, dbVars, columns, txVars
  <1>2. CASE HeadObject(r) \/ DecideInPool(r) \/ HeadPoolObject(r)
    BY <1>1, <1>2 DEF HeadObject, DecideInPool, HeadPoolObject
  <1>3. CASE FindUsersByFileCID(r) \/ FindFilesByUserAndFileCID(r)
             \/ IsFileOwner(r)
    BY <1>1, <1>3 DEF FindUsersByFileCID, FindFilesByUserAndFileCID, IsFileOwner
  <1>4. CASE GetNextOwner(r) \/ GetNextFileUser(r) \/ SetNextFileInPool(r)
    BY <1>1, <1>4 DEF GetNextOwner, GetNextFileUser, SetNextFileInPool, Panic
  <1>5. CASE StatementFailsUnnoticed(r)
    BY <1>1, <1>5 DEF StatementFailsUnnoticed, AfterOwnership
  <1>6. CASE ReadUsed(r)
    <2> DEFINE q == [req[r] EXCEPT !.used = storage[req[r].user]]
    <2>1. q.used = storage[req[r].user] /\ q.user = req[r].user
      BY <1>0 DEF Request
    <2>2. q.used <= charged[q.user]
      BY <1>0, <2>1 DEF ChargesInv
    <2>3. PICK p \in {"debit", "debitNow", "charge"} : Reads(r, p, q)
      BY <1>6 DEF ReadUsed
    <2> HIDE DEF q
    <2> QED BY <1>1, <2>2, <2>3
  <1>7. CASE ReadNextUsed(r)
    <2> DEFINE q == [req[r] EXCEPT !.used = storage[fileUser[req[r].next]]]
    <2>1. fileUser[req[r].next] \in Users
      BY <1>7 DEF TypeInv, TypeOK, NextKnown, ReadNextUsed
    <2>2. q.used = storage[fileUser[req[r].next]] /\ q.next = req[r].next
      BY <1>0 DEF Request
    <2>3. q.used <= charged[fileUser[q.next]]
      BY <2>1, <2>2 DEF ChargesInv
    <2>4. Reads(r, "credit", q)
      BY <1>7 DEF ReadNextUsed
    <2> HIDE DEF q
    <2> QED BY <1>1, <2>3, <2>4
  <1>8. ASSUME NEW u \in Users, NEW used \in Nat, NEW adding \in Nat,
               WriteUsed(r, u, used, adding), NEW p, Goto(r, p),
               p \notin Bounding, used <= charged[u] + adding
        PROVE  ChargesInv'
    <2>1. /\ charged' = [charged EXCEPT ![u] = charged[u] + adding]
          /\ txUsed' = [txUsed EXCEPT ![r] = [txUsed[r] EXCEPT ![u] = used]]
          /\ storage' = storage /\ fileUser' = fileUser /\ req' = req
          /\ pc' = [pc EXCEPT ![r] = p]
      BY <1>8 DEF WriteUsed, Goto, dbVars, columns
    <2>2. charged \in [Users -> Nat]
      BY DEF TypeInv, TypeOK
    <2>3. \A v \in Users : charged[v] <= charged'[v]
      BY <1>8, <2>1, <2>2
    <2>4. \A s \in Reqs, v \in Users : \/ txUsed'[s][v] = txUsed[s][v]
                                       \/ txUsed'[s][v] <= charged'[v]
      BY <1>8, <2>1, <2>2 DEF TypeInv, TypeOK
    <2>5. \A s \in Reqs : \/ pc'[s] = pc[s] /\ req'[s] = req[s]
                          \/ pc'[s] \notin Bounding
      BY <1>8, <2>1 DEF TypeInv, TypeOK
    <2> QED BY <2>1, <2>3, <2>4, <2>5, ChargesKept
  <1>9. Debit(req[r].used, SizeOf[req[r].cid]) \in 0..req[r].used
    BY <1>0 DEF Debit
  <1>10. CASE Charge(r)
    <2>1. req[r].used <= charged[req[r].user]
      BY <1>10 DEF Charge, Ready, ChargesInv, UsedBounded
    <2> DEFINE size == SizeOf[req[r].cid]
    <2>2. /\ req[r].used + size \in Nat
          /\ req[r].used + size <= charged[req[r].user] + size
      BY <1>0, <2>1
    <2>3. WriteUsed(r, req[r].user, req[r].used + size, size) /\ Goto(r, "commit")
      BY <1>10 DEF Charge
    <2>4. size \in Nat
      BY <1>0
    <2> HIDE DEF size
    <2> QED BY <1>0, <1>8, <2>2, <2>3, <2>4
  <1>11. CASE DebitOwner(r)
    <2>1. req[r].used <= charged[req[r].user]
      BY <1>11 DEF DebitOwner, Ready, ChargesInv, UsedBounded
    <2> QED BY <1>0, <1>8, <1>9, <1>11, <2>1 DEF DebitOwner
  <1>12. CASE CreditNextOwner(r)
    <2>1. fileUser[req[r].next] \in Users
      BY <1>12 DEF TypeInv, TypeOK, NextKnown, CreditNextOwner, Ready
    <2>2. req[r].used <= charged[fileUser[req[r].next]]
      BY <1>12 DEF CreditNextOwner, Ready, ChargesInv, UsedBounded
    <2> DEFINE size == SizeOf[req[r].cid]
               u == fileUser[req[r].next]
    <2>3. /\ size \in Nat /\ u \in Users
          /\ req[r].used + size \in Nat
          /\ req[r].used + size <= charged[u] + size
      BY <1>0, <2>1, <2>2
    <2>4. WriteUsed(r, u, req[r].used + size, size) /\ Goto(r, "commit")
      BY <1>12 DEF CreditNextOwner
    <2> HIDE DEF size, u
    <2> QED BY <1>8, <2>3, <2>4
  <1>13. CASE DebitNow(r)
    <2>1. /\ charged' = charged /\ txUsed' = txUsed /\ fileUser' = fileUser
          /\ req' = req /\ pc' = [pc EXCEPT ![r] = "deleteRow"]
      BY <1>13 DEF DebitNow, Goto, columns, txVars
    <2>2. req[r].used <= charged[req[r].user]
      BY <1>13 DEF DebitNow, Ready, ChargesInv, UsedBounded
    <2>3. Debit(req[r].used, SizeOf[req[r].cid]) <= charged[req[r].user]
      BY <1>0, <1>9, <2>2
    <2>4. \A u \in Users : storage'[u] = storage[u] \/ storage'[u] <= charged'[u]
      BY <1>13, <2>1, <2>3 DEF TypeInv, TypeOK, DebitNow
    <2>5. \A s \in Reqs : \/ pc'[s] = pc[s] /\ req'[s] = req[s]
                          \/ pc'[s] \notin Bounding
      BY <2>1 DEF TypeInv, TypeOK
    <2> QED BY <1>0, <2>1, <2>4, <2>5, ChargesKept
  <1>14. CASE TxCreate(r) \/ CommitSharedCopy(r)
    <2>1. /\ charged' = charged /\ txUsed' = txUsed /\ storage' = storage
          /\ fileUser' = [fileUser EXCEPT ![nextId] = req[r].user]
          /\ \A s \in Reqs \ {r} : pc'[s] = pc[s] /\ req'[s] = req[s]
          /\ pc'[r] \in {"relate", "commit", "readUsed"}
      BY <1>14 DEF TxCreate, CommitSharedCopy, Goto, dbVars, txVars, TypeInv,
                   TypeOK
    <2>2. \A f \in FileIds : f < nextId => fileUser'[f] = fileUser[f]
      <3>1. nextId \in Nat
        BY DEF TypeInv, TypeOK
      <3> QED BY <2>1, <3>1, IdsAreNumbers DEF TypeInv, TypeOK
    <2> QED BY <1>0, <2>1, <2>2, ChargesKept
  <1>15. ASSUME Return(r), charged' = charged, fileUser' = fileUser,
                \A u \in Users : \/ storage'[u] = storage[u]
                                 \/ storage'[u] <= charged[u]
         PROVE  ChargesInv'
    <2>1. \A s \in Reqs, u \in Users : \/ txUsed'[s][u] = txUsed[s][u]
                                       \/ txUsed'[s][u] <= charged'[u]
      BY <1>15, DiscardUsed DEF TypeInv, Return
    <2>2. \A s \in Reqs : \/ pc'[s] = pc[s] /\ req'[s] = req[s]
                          \/ pc'[s] \notin Bounding
      BY <1>15 DEF TypeInv, TypeOK, Return, Goto
    <2> QED BY <1>0, <1>15, <2>1, <2>2, ChargesKept
  <1>16. CASE CommitSharedRelation(r) \/ SharedRelationFails(r) \/ StatementFails(r)
    BY <1>15, <1>16
       DEF CommitSharedRelation, SharedRelationFails, StatementFails, dbVars, columns
  <1>17. CASE Commit(r)
    <2>1. \A u \in Users : storage'[u] = storage[u] \/ storage'[u] <= charged[u]
      BY <1>17 DEF Commit, Publish, dbVars, ChargesInv, TypeInv, TypeOK
    <2> QED BY <1>15, <1>17, <2>1 DEF Commit, columns
  <1>18. CASE DeleteFileFromS3(r) \/ DeleteFileUser(r) \/ DeleteFilePermission(r)
              \/ SetOwnerPermision(r)
    <2>1. /\ charged' = charged /\ txUsed' = txUsed /\ storage' = storage
          /\ fileUser' = fileUser /\ req' = req
          /\ \A s \in Reqs : pc'[s] = pc[s] \/ pc'[s] \notin Bounding
      BY <1>18 DEF DeleteFileFromS3, DeleteFileUser, DeleteFilePermission,
                   SetOwnerPermision, AfterOwnership, Goto, dbVars, columns,
                   txVars, TypeInv, TypeOK
    <2> QED BY <1>0, <2>1, ChargesKept
  <1>19. CASE DeadlockVictim(r)
    <2>1. \A s \in Reqs, u \in Users : \/ txUsed'[s][u] = txUsed[s][u]
                                       \/ txUsed'[s][u] <= charged[u]
      BY <1>19, DiscardUsed DEF TypeInv, DeadlockVictim
    <2> QED BY <1>0, <1>19, <2>1, ChargesKept
            DEF DeadlockVictim, dbVars, columns
  <1> QED BY <1>2, <1>3, <1>4, <1>5, <1>6, <1>7, <1>10, <1>11, <1>12, <1>13,
             <1>14, <1>16, <1>17, <1>18, <1>19 DEF Step

LEMMA OthersKeepCharges ==
  ASSUME TypeInv, TypeInv', ChargesInv,
         \/ \E r \in Reqs : Calls(r)
         \/ \E f \in FileIds : UploadDone(f) \/ UploadFail(f)
         \/ Crash
         \/ UNCHANGED vars
  PROVE  ChargesInv'
  <1>0. \A u \in Users : charged[u] \in Nat
    BY DEF TypeInv, TypeOK
  <1>1. ASSUME NEW r \in Reqs, Calls(r) PROVE ChargesInv'
    <2>1. PICK route \in Routes, p \in Phases, q \in Request :
             Call(r, route, p, q) /\ NewRequest(p, q)
      BY <1>1, CallsMakeRequests
    <2>2. \A s \in Reqs :
            \/ pc'[s] = pc[s] /\ req'[s] = req[s]
            \/ pc'[s] \notin {"debit", "debitNow", "charge", "credit"}
      BY <2>1 DEF Call, Goto, NewRequest, TypeInv, TypeOK
    <2> QED BY <1>0, <2>1, <2>2, ChargesKept DEF Call, dbVars, columns
  <1>2. ASSUME NEW f \in FileIds, UploadDone(f) PROVE ChargesInv'
    BY <1>0, <1>2, ChargesKept DEF UploadDone, dbVars, columns, txVars
  <1>3. ASSUME NEW f \in FileIds, UploadFail(f) PROVE ChargesInv'
    <2>1. \A s \in Reqs, u \in Users : \/ txUsed'[s][u] = txUsed[s][u]
                                       \/ txUsed'[s][u] <= charged[u]
      BY <1>3, DiscardUsed DEF TypeInv, UploadFail, txVars
    <2> QED BY <1>0, <1>3, <2>1, ChargesKept DEF UploadFail, dbVars, columns
  <1>4. CASE Crash
    <2>1. \A s \in Reqs, u \in Users : txUsed'[s][u] <= charged[u]
      BY <1>0, <1>4 DEF Crash, NoUsed, NoWrite
    <2>2. \A s \in Reqs : pc'[s] = "idle"
      BY <1>4 DEF Crash
    <2> QED BY <1>0, <1>4, <2>1, <2>2, ChargesKept DEF Crash, dbVars, columns
  <1>5. CASE UNCHANGED vars
    BY <1>5 DEF vars, ChargesInv, UsedBounded
  <1> QED BY <1>1, <1>2, <1>3, <1>4, <1>5

LEMMA InitCharges == Init => ChargesInv
  BY ConstantsAssumption DEF Init, ChargesInv, UsedBounded, NoUsed, NoWrite

(* No interleaving of handlers, no deadlock victim, closed transaction, crash
   or clamped subtraction lets storage_used exceed what was added to it. *)
THEOREM ChargesBoundStorage == Spec => []StorageNeverExceedsCharges
  <1>1. TypeInv /\ ChargesInv /\ [Next]_vars => ChargesInv'
    BY TypeInvInductive, StepKeepsCharges, OthersKeepCharges DEF Next
  <1>2. ChargesInv => StorageNeverExceedsCharges
    BY DEF ChargesInv, StorageNeverExceedsCharges
  <1> QED BY InitCharges, <1>1, <1>2, TypeInvHolds, PTL DEF Spec

-----------------------------------------------------------------------------
(* Rows and permissions                                                    *)

(* What a request will insert has a permission; the file it was called for,
   and the next owner, exist and have a user. *)
Named(r) ==
    /\ pc[r] \in {"head", "holdersOfCid", "poolHead", "insert"}
         => req[r].perm \in {"owner", "shared"}
    /\ req[r].file # NoFile => /\ fileRow[req[r].file] # "absent"
                               /\ perm[req[r].file] # None
    /\ pc[r] = "giveOwner" => perm[req[r].next] # None

(* A transaction deletes a permission only after the row of its file. *)
DeletesBoth(r) ==
    /\ pc[r] = "deletePermission" /\ txSt[r] = "open" /\ req[r].file \in FileIds
         => txRow[r][req[r].file] = "deleted"
    /\ \A f \in FileIds : txPerm[r][f] = "deleted" => txRow[r][f] = "deleted"

(* It inserts a row together with its user, and nobody else knows the row. *)
InsertsBoth(r) ==
    \A f \in FileIds :
        /\ txRow[r][f] = "live" =>
             /\ fileRow[f] = "absent" /\ perm[f] = None
             /\ txPerm[r][f] \in {"owner", "shared"}
             /\ \A q \in Reqs \ {r} : txRow[q][f] = None
        /\ txPerm[r][f] = "shared" => txRow[r][f] = "live"
        /\ txPerm[r][f] # None => txRow[r][f] = "live" \/ perm[f] # None
        /\ nextId <= f => txPerm[r][f] = None

(* The copy that a share has committed has no user yet; it is known to the
   share alone. *)
SharesAlone(r) ==
    pc[r] = "relate" =>
        /\ fileRow[req[r].next] # "absent" /\ perm[req[r].next] = None
        /\ \A q \in Reqs \ {r} : pc[q] = "relate" => req[q].next # req[r].next

RowsInv ==
    /\ \A r \in Reqs : /\ Named(r) /\ DeletesBoth(r)
                       /\ InsertsBoth(r) /\ SharesAlone(r)
    /\ \A f \in FileIds : nextId <= f => perm[f] = None
    /\ LiveFilesKeepPermission
    /\ FilesHaveUsers

(* A step of r that commits and writes no row: it keeps its pending writes of
   rows or loses all of them.  *)
LEMMA RowsKept ==
  ASSUME TypeInv, TypeInv', RowsInv, NEW r \in Reqs,
         UNCHANGED <<fileRow, perm, nextId, halfShared>>,
         \A s \in Reqs \ {r} :
            /\ pc'[s] = pc[s] /\ req'[s] = req[s] /\ txSt'[s] = txSt[s]
            /\ txRow'[s] = txRow[s] /\ txPerm'[s] = txPerm[s],
         \/ txRow'[r] = txRow[r] /\ txPerm'[r] = txPerm[r]
         \/ /\ \A f \in FileIds : txRow'[r][f] = None /\ txPerm'[r][f] = None
            /\ txSt'[r] # "open",
         \/ pc'[r] # "deletePermission"
         \/ txSt'[r] # "open"
         \/ pc'[r] = pc[r] /\ req'[r] = req[r] /\ txSt'[r] = txSt[r],
         \/ pc'[r] = pc[r] /\ req'[r] = req[r]
         \/ pc[r] # "relate" /\ pc'[r] # "relate" /\ Named(r)'
  PROVE  RowsInv'
  <1>1. ASSUME NEW s \in Reqs PROVE Named(s)'
    BY <1>1 DEF RowsInv, Named
  <1>2. ASSUME NEW s \in Reqs PROVE DeletesBoth(s)'
    BY <1>2 DEF RowsInv, DeletesBoth, None
  <1>3. ASSUME NEW s \in Reqs PROVE InsertsBoth(s)'
    <2>1. \A q \in Reqs, f \in FileIds : txRow[q][f] = None => txRow'[q][f] = None
      OBVIOUS
    <2>2. InsertsBoth(s)
      BY DEF RowsInv
    <2>3. CASE txRow'[s] = txRow[s] /\ txPerm'[s] = txPerm[s]
      BY <2>1, <2>2, <2>3 DEF InsertsBoth
    <2>4. CASE \A f \in FileIds : txRow'[s][f] = None /\ txPerm'[s][f] = None
      BY <2>4 DEF InsertsBoth, None
    <2> QED BY <2>3, <2>4
  <1>4. ASSUME NEW s \in Reqs PROVE SharesAlone(s)'
    <2>1. \A q \in Reqs : pc'[q] = "relate" => pc[q] = "relate" /\ req'[q] = req[q]
      OBVIOUS
    <2> QED BY <2>1 DEF RowsInv, SharesAlone
  <1>5. FilesHaveUsers'
    <2>1. \A q \in Reqs : pc[q] = "relate" => pc'[q] = "relate" /\ req'[q] = req[q]
      OBVIOUS
    <2> QED BY <2>1 DEF RowsInv, FilesHaveUsers
  <1> QED BY <1>1, <1>2, <1>3, <1>4, <1>5 DEF RowsInv, LiveFilesKeepPermission

LEMMA StepKeepsRows ==
  ASSUME TypeInv, TypeInv', RowsInv, NEW r \in Reqs, Step(r)
  PROVE  RowsInv'
  <1> DEFINE Inserting == {"head", "holdersOfCid", "poolHead", "insert"}
  <1>0. /\ req[r] \in Request /\ nextId \in Nat
        /\ Named(r) /\ DeletesBoth(r) /\ InsertsBoth(r) /\ SharesAlone(r)
    BY DEF TypeInv, TypeOK, RowsInv
  <1>1. ASSUME NEW p, NEW q, Reads(r, p, q), pc[r] # "relate",
               p \notin {"deletePermission", "relate"},
               q.file = req[r].file,
               p \in Inserting => q.perm \in {"owner", "shared"},
               p = "giveOwner" => perm[q.next] # None
        PROVE  RowsInv'
    <2>1. /\ pc' = [pc EXCEPT ![r] = p] /\ req' = [req EXCEPT ![r] = q]
          /\ UNCHANGED <<fileRow, perm, nextId, halfShared, txSt, txRow, txPerm>>
      BY <1>1 DEF Reads, Goto, dbVars, columns, txVars, bounds
    <2>2. pc'[r] = p /\ req'[r] = q
      BY <2>1 DEF TypeInv, TypeOK
    <2>3. Named(r)'
      BY <1>0, <1>1, <2>1, <2>2 DEF Named
    <2>4. \A s \in Reqs \ {r} :
            /\ pc'[s] = pc[s] /\ req'[s] = req[s] /\ txSt'[s] = txSt[s]
            /\ txRow'[s] = txRow[s] /\ txPerm'[s] = txPerm[s]
      BY <2>1 DEF TypeInv, TypeOK
    <2> QED BY <1>1, <2>1, <2>2, <2>3, <2>4, RowsKept
  <1>2. CASE HeadObject(r)
    BY <1>0, <1>1, <1>2 DEF HeadObject, Named
  <1>3. CASE DecideInPool(r)
    <2> DEFINE q(x) == [req[r] EXCEPT !.perm = x]
    <2>1. \A x : q(x).file = req[r].file /\ q(x).perm = x
      BY <1>0 DEF Request
    <2>2. Reads(r, "insert", q("owner")) \/ Reads(r, "insert", q("shared"))
      BY <1>3 DEF DecideInPool
    <2>3. pc[r] # "relate"
      BY <1>3 DEF DecideInPool
    <2> HIDE DEF q
    <2> QED BY <1>1, <2>1, <2>2, <2>3
  <1>4. CASE HeadPoolObject(r)
    BY <1>0, <1>1, <1>4 DEF HeadPoolObject, Named
  <1>5. CASE ReadUsed(r)
    <2> DEFINE q == [req[r] EXCEPT !.used = storage[req[r].user]]
    <2>1. q.file = req[r].file
      BY <1>0 DEF Request
    <2>2. PICK p \in {"debit", "debitNow", "charge"} : Reads(r, p, q)
      BY <1>5 DEF ReadUsed
    <2> HIDE DEF q
    <2> QED BY <1>1, <1>5, <2>1, <2>2 DEF ReadUsed
  <1>6. CASE FindUsersByFileCID(r)
    <2> DEFINE q == [req[r] EXCEPT !.others = AtLeastTwo(Holders(req[r].cid))]
    <2>1. q.file = req[r].file
      BY <1>0 DEF Request
    <2>2. Reads(r, "copies", q)
      BY <1>6 DEF FindUsersByFileCID
    <2> HIDE DEF q
    <2> QED BY <1>1, <1>6, <2>1, <2>2 DEF FindUsersByFileCID
  <1>7. CASE FindFilesByUserAndFileCID(r)
    <2> DEFINE q1 == [req[r] EXCEPT
                        !.copies = AtLeastTwo(CopiesOf(req[r].user, req[r].cid))]
               q2 == [req[r] EXCEPT !.path = "sole"]
    <2>1. q1.file = req[r].file /\ q2.file = req[r].file
      BY <1>0 DEF Request
    <2>2. Reads(r, "isOwner", q1) \/ Reads(r, "s3Delete", q2)
      BY <1>7 DEF FindFilesByUserAndFileCID
    <2>3. pc[r] # "relate"
      BY <1>7 DEF FindFilesByUserAndFileCID
    <2> HIDE DEF q1, q2
    <2> QED BY <1>1, <2>1, <2>2, <2>3
  <1>8. CASE IsFileOwner(r)
    <2> DEFINE q(x) == [req[r] EXCEPT !.path = x]
    <2>1. q("owner").file = req[r].file /\ q("shared").file = req[r].file
      BY <1>0 DEF Request
    <2>2. Reads(r, "readUsed", q("owner")) \/ Reads(r, "deleteRow", q("shared"))
      BY <1>8 DEF IsFileOwner
    <2>3. pc[r] # "relate"
      BY <1>8 DEF IsFileOwner
    <2> HIDE DEF q
    <2> QED BY <1>1, <2>1, <2>2, <2>3
  <1>9. CASE GetNextOwner(r)
    <2>1. pc[r] # "relate"
      BY <1>9 DEF GetNextOwner
    <2>2. CASE \/ Reads(r, "nextCopy", req[r]) \/ Reads(r, "commit", req[r])
               \/ Panic(r)
      BY <1>1, <2>1, <2>2 DEF Panic
    <2>3. ASSUME NEW g \in FileIds, perm[g] # None,
                 Reads(r, "giveOwner", [req[r] EXCEPT !.next = g])
          PROVE  RowsInv'
      <3> DEFINE q == [req[r] EXCEPT !.next = g]
      <3>1. q.file = req[r].file /\ q.next = g
        BY <1>0 DEF Request
      <3>2. Reads(r, "giveOwner", q)
        BY <2>3
      <3> HIDE DEF q
      <3> QED BY <1>1, <2>1, <2>3, <3>1, <3>2
    <2> QED BY <1>9, <2>2, <2>3 DEF GetNextOwner
  <1>10. CASE GetNextFileUser(r)
    <2>1. pc[r] # "relate"
      BY <1>10 DEF GetNextFileUser
    <2>2. CASE Reads(r, "commit", req[r]) \/ Panic(r)
      BY <1>1, <2>1, <2>2 DEF Panic
    <2>3. ASSUME NEW g \in FileIds, perm[g] # None,
                 Reads(r, "giveOwner",
                       [req[r] EXCEPT !.next = g, !.path = "own"])
          PROVE  RowsInv'
      <3> DEFINE q == [req[r] EXCEPT !.next = g, !.path = "own"]
      <3>1. q.file = req[r].file /\ q.next = g
        BY <1>0 DEF Request
      <3>2. Reads(r, "giveOwner", q)
        BY <2>3
      <3> HIDE DEF q
      <3> QED BY <1>1, <2>1, <2>3, <3>1, <3>2
    <2> QED BY <1>10, <2>2, <2>3 DEF GetNextFileUser, LiveRows
  <1>11. CASE ReadNextUsed(r)
    <2> DEFINE q == [req[r] EXCEPT !.used = storage[fileUser[req[r].next]]]
    <2>1. q.file = req[r].file
      BY <1>0 DEF Request
    <2>2. Reads(r, "credit", q) /\ pc[r] # "relate"
      BY <1>11 DEF ReadNextUsed
    <2> HIDE DEF q
    <2> QED BY <1>1, <2>1, <2>2
  <1>12. CASE SetNextFileInPool(r)
    BY <1>1, <1>12 DEF SetNextFileInPool, Ready
  <1>13. CASE StatementFailsUnnoticed(r)
    BY <1>1, <1>13 DEF StatementFailsUnnoticed, AfterOwnership
  <1>14. ASSUME NEW p, pc' = [pc EXCEPT ![r] = p], req' = req,
                pc[r] # "relate",
                p \notin Inserting \cup {"deletePermission", "relate", "giveOwner"},
                UNCHANGED <<fileRow, perm, nextId, halfShared, txSt, txRow, txPerm>>
         PROVE  RowsInv'
    <2>1. pc'[r] = p /\ \A s \in Reqs \ {r} : pc'[s] = pc[s]
      BY <1>14 DEF TypeInv, TypeOK
    <2>2. Named(r)'
      BY <1>0, <1>14, <2>1 DEF Named
    <2> QED BY <1>14, <2>1, <2>2, RowsKept
  <1>15. CASE Charge(r) \/ DebitOwner(r) \/ CreditNextOwner(r)
    <2>1. ASSUME NEW u, NEW used, NEW adding, NEW p \in {"commit", "deleteRow"},
                 WriteUsed(r, u, used, adding), Goto(r, p), pc[r] # "relate"
          PROVE  RowsInv'
      BY <1>14, <2>1 DEF WriteUsed, Goto, dbVars, columns, bounds
    <2>2. CASE Charge(r)
      BY <2>1, <2>2 DEF Charge, Ready
    <2>3. CASE DebitOwner(r)
      BY <2>1, <2>3 DEF DebitOwner, Ready
    <2>4. CASE CreditNextOwner(r)
      BY <2>1, <2>4 DEF CreditNextOwner, Ready
    <2> QED BY <1>15, <2>2, <2>3, <2>4
  <1>16. CASE DebitNow(r)
    BY <1>14, <1>16 DEF DebitNow, Ready, Goto, columns, txVars, bounds
  <1>17. CASE DeleteFileFromS3(r)
    BY <1>14, <1>17 DEF DeleteFileFromS3, Goto, dbVars, columns, txVars, bounds
  <1>18. ASSUME NEW st \in {"aborted", "closed", "none"}, NEW s \in Reqs,
                Discard(s, st)
         PROVE  /\ \A f \in FileIds : txRow'[s][f] = None /\ txPerm'[s][f] = None
                /\ txSt'[s] # "open"
                /\ \A q \in Reqs \ {s} : /\ txRow'[q] = txRow[q]
                                         /\ txPerm'[q] = txPerm[q]
                                         /\ txSt'[q] = txSt[q]
    BY <1>18 DEF Discard, NoRows, TypeInv, TypeOK
  <1>19. ASSUME Return(r)
         PROVE  /\ pc'[r] = "idle" /\ req'[r] = NoRequest
                /\ \A q \in Reqs \ {r} : pc'[q] = pc[q] /\ req'[q] = req[q]
                /\ \A f \in FileIds : txRow'[r][f] = None /\ txPerm'[r][f] = None
                /\ txSt'[r] # "open"
                /\ \A q \in Reqs \ {r} : /\ txRow'[q] = txRow[q]
                                         /\ txPerm'[q] = txPerm[q]
                                         /\ txSt'[q] = txSt[q]
    BY <1>18, <1>19 DEF Return, Goto, TypeInv, TypeOK
  <1>20. CASE StatementFails(r)
    <2>1. Named(r)'
      BY <1>19, <1>20, ConstantFacts DEF StatementFails, Named
    <2> QED BY <1>19, <1>20, <2>1, RowsKept
            DEF StatementFails, dbVars, columns, bounds
  <1>21. CASE DeadlockVictim(r)
    BY <1>18, <1>21, RowsKept DEF DeadlockVictim, dbVars, columns, bounds
  <1>22. CASE TxCreate(r)
    <2>1. /\ nextId \in FileIds /\ nextId' = nextId + 1
          /\ fileRow' = fileRow /\ perm' = perm /\ req' = req /\ halfShared' = halfShared
          /\ txRow' = [txRow EXCEPT ![r] = [txRow[r] EXCEPT ![nextId] = "live"]]
          /\ txPerm' = [txPerm EXCEPT ![r] =
                          [txPerm[r] EXCEPT ![nextId] = req[r].perm]]
          /\ req[r].perm \in {"owner", "shared"}
          /\ pc[r] = "insert" /\ pc'[r] \in {"commit", "readUsed"}
          /\ \A s \in Reqs \ {r} : pc'[s] = pc[s]
      BY <1>0, <1>22 DEF TxCreate, Goto, dbVars, bounds, Named, TypeInv, TypeOK
    <2>2. /\ fileRow[nextId] = "absent" /\ perm[nextId] = None
          /\ \A s \in Reqs : txRow[s][nextId] = None /\ txPerm[s][nextId] = None
      BY <1>0, <2>1 DEF TypeInv, RowsKnown, RowsInv, InsertsBoth
    <2>3. ASSUME NEW s \in Reqs
          PROVE  /\ txRow[s] \in [FileIds -> {None, "live", "deleted"}]
                 /\ txPerm[s] \in [FileIds -> Permissions \cup {None}]
                 /\ Named(s) /\ DeletesBoth(s) /\ InsertsBoth(s) /\ SharesAlone(s)
      BY <2>3 DEF TypeInv, TypeOK, RowsInv
    <2>4. ASSUME NEW s \in Reqs PROVE Named(s)'
      BY <2>1, <2>3 DEF Named
    <2>5. ASSUME NEW s \in Reqs PROVE DeletesBoth(s)'
      BY <1>0, <2>1, <2>2, <2>3, <1>22
         DEF DeletesBoth, None, TxCreate, TypeInv, TypeOK
    <2>6. ASSUME NEW s \in Reqs PROVE InsertsBoth(s)'
      <3> SUFFICES ASSUME NEW f \in FileIds
                   PROVE  /\ txRow'[s][f] = "live" =>
                               /\ fileRow'[f] = "absent" /\ perm'[f] = None
                               /\ txPerm'[s][f] \in {"owner", "shared"}
                               /\ \A q \in Reqs \ {s} : txRow'[q][f] = None
                          /\ txPerm'[s][f] = "shared" => txRow'[s][f] = "live"
                          /\ txPerm'[s][f] # None =>
                               txRow'[s][f] = "live" \/ perm'[f] # None
                          /\ nextId' <= f => txPerm'[s][f] = None
        BY DEF InsertsBoth
      <3>1. CASE f = nextId
        BY <1>0, <2>1, <2>2, <2>3, <3>1 DEF TypeInv, TypeOK, None
      <3>2. CASE f # nextId
        <4>1. \A q \in Reqs : txRow'[q][f] = txRow[q][f]
                              /\ txPerm'[q][f] = txPerm[q][f]
          BY <2>1, <2>3, <3>2 DEF TypeInv, TypeOK
        <4> QED BY <1>0, <2>1, <2>3, <4>1, IdsAreNumbers DEF InsertsBoth
      <3> QED BY <3>1, <3>2
    <2>7. ASSUME NEW s \in Reqs PROVE SharesAlone(s)'
      BY <2>1, <2>3 DEF SharesAlone
    <2>8. \A f \in FileIds : nextId' <= f => perm'[f] = None
      BY <1>0, <2>1, IdsAreNumbers DEF RowsInv
    <2>9. FilesHaveUsers'
      BY <2>1 DEF RowsInv, FilesHaveUsers
    <2> QED BY <2>1, <2>4, <2>5, <2>6, <2>7, <2>8, <2>9
            DEF RowsInv, LiveFilesKeepPermission
  <1>23. \A s \in Reqs : /\ Named(s) /\ DeletesBoth(s) /\ InsertsBoth(s)
                         /\ SharesAlone(s)
    BY DEF RowsInv
  <1>24. CASE CommitSharedCopy(r)
    <2>1. /\ nextId \in FileIds /\ nextId' = nextId + 1
          /\ fileRow' = [fileRow EXCEPT ![nextId] = "live"]
          /\ perm' = perm /\ halfShared' = halfShared
          /\ txRow' = txRow /\ txPerm' = txPerm /\ txSt' = txSt
          /\ req' = [req EXCEPT ![r] = [req[r] EXCEPT !.next = nextId]]
          /\ pc' = [pc EXCEPT ![r] = "relate"]
      BY <1>24 DEF CommitSharedCopy, Goto, txVars, bounds
    <2>2. /\ fileRow[nextId] = "absent" /\ perm[nextId] = None
          /\ \A s \in Reqs : txRow[s][nextId] = None /\ txPerm[s][nextId] = None
      BY <1>0, <2>1 DEF TypeInv, RowsKnown, RowsInv, InsertsBoth
    <2>3. /\ pc'[r] = "relate" /\ req'[r].next = nextId
          /\ req'[r].file = req[r].file
          /\ \A s \in Reqs \ {r} : pc'[s] = pc[s] /\ req'[s] = req[s]
      BY <1>0, <2>1 DEF TypeInv, TypeOK, Request
    <2>4. \A f \in FileIds : fileRow'[f] = fileRow[f] \/ fileRow'[f] # "absent"
      BY <2>1 DEF TypeInv, TypeOK
    <2>5. ASSUME NEW s \in Reqs PROVE Named(s)'
      <3>1. req[s].file # NoFile => req[s].file \in FileIds
        BY DEF TypeInv, TypeOK, Request
      <3> QED BY <1>23, <2>1, <2>3, <2>4, <3>1 DEF Named
    <2>6. ASSUME NEW s \in Reqs PROVE DeletesBoth(s)'
      BY <1>23, <2>1, <2>3 DEF DeletesBoth
    <2>7. ASSUME NEW s \in Reqs PROVE InsertsBoth(s)'
      <3>1. \A f \in FileIds : txRow[s][f] = "live" => fileRow'[f] = fileRow[f]
        BY <2>1, <2>2 DEF TypeInv, TypeOK, None
      <3> QED BY <1>0, <1>23, <2>1, <3>1, IdsAreNumbers DEF InsertsBoth
    <2>8. ASSUME NEW s \in Reqs PROVE SharesAlone(s)'
      <3>1. \A q \in Reqs : req[q].next # nextId
        BY <1>0 DEF TypeInv, TypeOK, NextKnown, Request
      <3>2. pc[s] = "relate" => req[s].next \in FileIds
        BY DEF TypeInv, NextKnown
      <3>3. fileRow'[nextId] = "live"
        BY <2>1 DEF TypeInv, TypeOK
      <3> QED BY <1>23, <2>1, <2>2, <2>3, <2>4, <3>1, <3>2, <3>3 DEF SharesAlone
    <2>9. \A f \in FileIds : nextId' <= f => perm'[f] = None
      BY <1>0, <2>1, IdsAreNumbers DEF RowsInv
    <2>10. LiveFilesKeepPermission'
      BY <2>1, <2>2 DEF RowsInv, LiveFilesKeepPermission, TypeInv, TypeOK, None
    <2>11. FilesHaveUsers'
      <3> SUFFICES ASSUME NEW f \in FileIds, fileRow'[f] = "live",
                          perm'[f] = None, f \notin halfShared'
                   PROVE  \E s \in Reqs : pc'[s] = "relate" /\ req'[s].next = f
        BY DEF FilesHaveUsers
      <3>1. CASE f = nextId
        BY <2>3, <3>1
      <3>2. CASE f # nextId
        <4>1. PICK s \in Reqs : pc[s] = "relate" /\ req[s].next = f
          BY <2>1, <3>2 DEF RowsInv, FilesHaveUsers, TypeInv, TypeOK
        <4>2. s # r
          BY <1>24, <4>1 DEF CommitSharedCopy
        <4> QED BY <2>3, <4>1, <4>2
      <3> QED BY <3>1, <3>2
    <2> QED BY <2>5, <2>6, <2>7, <2>8, <2>9, <2>10, <2>11 DEF RowsInv
  <1>25. CASE CommitSharedRelation(r)
    <2> DEFINE n == req[r].next
    <2>1. /\ perm' = [perm EXCEPT ![n] = "shared"]
          /\ UNCHANGED <<fileRow, nextId, halfShared>>
          /\ pc[r] = "relate" /\ Return(r)
      BY <1>25 DEF CommitSharedRelation, columns, bounds
    <2>2. /\ n \in FileIds /\ n < nextId
          /\ fileRow[n] # "absent" /\ perm[n] = None
          /\ perm \in [FileIds -> Permissions \cup {None}]
      BY <1>23, <2>1 DEF TypeInv, TypeOK, NextKnown, SharesAlone
    <2> HIDE DEF n
    <2>3. /\ perm'[n] = "shared"
          /\ \A f \in FileIds : f # n => perm'[f] = perm[f]
      BY <2>1, <2>2
    <2>4. ASSUME NEW s \in Reqs PROVE Named(s)'
      <3>1. req[s].file # NoFile => req[s].file \in FileIds
        BY DEF TypeInv, TypeOK, Request
      <3>2. pc[s] = "giveOwner" => req[s].next \in FileIds
        BY DEF TypeInv, NextKnown
      <3>3. CASE s = r
        BY <1>19, <2>1, <3>3, ConstantFacts DEF Named
      <3>4. CASE s # r
        <4>1. pc'[s] = pc[s] /\ req'[s] = req[s]
          BY <1>19, <2>1, <3>4
        <4> QED BY <1>23, <2>1, <2>3, <3>1, <3>2, <4>1 DEF Named, None
      <3> QED BY <3>3, <3>4
    <2>5. ASSUME NEW s \in Reqs PROVE DeletesBoth(s)'
      BY <1>19, <1>23, <2>1 DEF DeletesBoth, None
    <2>6. ASSUME NEW s \in Reqs PROVE InsertsBoth(s)'
      BY <1>19, <1>23, <2>1, <2>2, <2>3 DEF InsertsBoth, None
    <2>7. ASSUME NEW s \in Reqs PROVE SharesAlone(s)'
      <3>1. CASE s = r
        BY <1>19, <2>1, <3>1 DEF SharesAlone
      <3>2. CASE s # r
        <4>1. pc[s] = "relate" => req[s].next \in FileIds /\ req[s].next # n
          BY <1>23, <2>1, <3>2 DEF SharesAlone, TypeInv, NextKnown, n
        <4> QED BY <1>19, <1>23, <2>1, <2>3, <3>2, <4>1 DEF SharesAlone
      <3> QED BY <3>1, <3>2
    <2>8. \A f \in FileIds : nextId' <= f => perm'[f] = None
      BY <1>0, <2>1, <2>2, <2>3, IdsAreNumbers DEF RowsInv
    <2>9. LiveFilesKeepPermission'
      BY <2>1, <2>3 DEF RowsInv, LiveFilesKeepPermission
    <2>10. FilesHaveUsers'
      BY <1>19, <2>1, <2>3 DEF RowsInv, FilesHaveUsers, None, n
    <2> QED BY <2>4, <2>5, <2>6, <2>7, <2>8, <2>9, <2>10 DEF RowsInv
  <1>31. CASE SharedRelationFails(r)
    <2>1. /\ UNCHANGED <<fileRow, perm, nextId>>
          /\ halfShared' = halfShared \cup {req[r].next}
          /\ pc[r] = "relate" /\ Return(r)
      BY <1>31 DEF SharedRelationFails, dbVars, columns
    <2>2. ASSUME NEW s \in Reqs PROVE Named(s)'
      <3>1. CASE s = r
        BY <1>19, <2>1, <3>1, ConstantFacts DEF Named
      <3>2. CASE s # r
        BY <1>19, <1>23, <2>1, <3>2 DEF Named
      <3> QED BY <3>1, <3>2
    <2>3. ASSUME NEW s \in Reqs PROVE DeletesBoth(s)'
      BY <1>19, <1>23, <2>1 DEF DeletesBoth, None
    <2>4. ASSUME NEW s \in Reqs PROVE InsertsBoth(s)'
      <3>1. CASE s = r
        BY <1>19, <2>1, <3>1 DEF InsertsBoth, None
      <3>2. CASE s # r
        BY <1>19, <1>23, <2>1, <3>2 DEF InsertsBoth, None
      <3> QED BY <3>1, <3>2
    <2>5. ASSUME NEW s \in Reqs PROVE SharesAlone(s)'
      BY <1>19, <1>23, <2>1 DEF SharesAlone
    <2>6. FilesHaveUsers'
      <3> SUFFICES ASSUME NEW f \in FileIds, fileRow[f] = "live",
                          perm[f] = None, f \notin halfShared'
                   PROVE  \E s \in Reqs : pc'[s] = "relate" /\ req'[s].next = f
        BY <2>1 DEF FilesHaveUsers
      <3>1. PICK s \in Reqs : pc[s] = "relate" /\ req[s].next = f
        BY <2>1 DEF RowsInv, FilesHaveUsers
      <3>2. s # r
        BY <2>1, <3>1
      <3> QED BY <1>19, <2>1, <3>1, <3>2
    <2> QED BY <2>1, <2>2, <2>3, <2>4, <2>5, <2>6
            DEF RowsInv, LiveFilesKeepPermission
  <1>26. CASE Commit(r)
    <2>1. /\ UNCHANGED <<nextId, halfShared>>
          /\ Return(r) /\ pc[r] # "relate"
      BY <1>26 DEF Commit, columns, bounds
    <2>2. CASE UNCHANGED dbVars
      <3>1. Named(r)'
        BY <1>19, <2>1, ConstantFacts DEF Named
      <3> QED BY <1>19, <2>1, <2>2, <3>1, RowsKept DEF dbVars
    <2>3. CASE Publish(r)
      <3>1. ASSUME NEW f \in FileIds
            PROVE  /\ fileRow'[f] = IF txRow[r][f] = None THEN fileRow[f]
                                                          ELSE txRow[r][f]
                   /\ perm'[f] = IF txPerm[r][f] = None THEN perm[f]
                                                        ELSE txPerm[r][f]
                   /\ txRow[r][f] \in {None, "live", "deleted"}
        BY <2>3 DEF Publish, TypeInv, TypeOK
      <3>2. \A f \in FileIds : fileRow[f] # "absent" => fileRow'[f] # "absent"
        BY <3>1
      <3>3. \A f \in FileIds : perm[f] # None => perm'[f] # None
        BY <3>1
      <3>4. \A f \in FileIds : fileRow[f] # "absent" /\ perm[f] = None
                                => perm'[f] = None
        BY <1>23, <3>1 DEF InsertsBoth
      <3>5. ASSUME NEW s \in Reqs PROVE Named(s)'
        <4>1. req[s].file # NoFile => req[s].file \in FileIds
          BY DEF TypeInv, TypeOK, Request
        <4>2. pc[s] = "giveOwner" => req[s].next \in FileIds
          BY DEF TypeInv, NextKnown
        <4>3. CASE s = r
          BY <1>19, <2>1, <4>3, ConstantFacts DEF Named
        <4>4. CASE s # r
          <5>1. pc'[s] = pc[s] /\ req'[s] = req[s]
            BY <1>19, <2>1, <4>4
          <5> QED BY <1>23, <3>2, <3>3, <4>1, <4>2, <5>1 DEF Named
        <4> QED BY <4>3, <4>4
      <3>6. ASSUME NEW s \in Reqs PROVE DeletesBoth(s)'
        BY <1>19, <1>23, <2>1 DEF DeletesBoth, None
      <3>7. ASSUME NEW s \in Reqs PROVE InsertsBoth(s)'
        <4>1. CASE s = r
          BY <1>19, <2>1, <4>1 DEF InsertsBoth, None
        <4>2. CASE s # r
          BY <1>19, <1>23, <2>1, <3>1, <3>3, <4>2 DEF InsertsBoth, None
        <4> QED BY <4>1, <4>2
      <3>8. ASSUME NEW s \in Reqs PROVE SharesAlone(s)'
        <4>1. pc[s] = "relate" => req[s].next \in FileIds
          BY DEF TypeInv, NextKnown
        <4> QED BY <1>19, <1>23, <2>1, <3>2, <3>4, <4>1 DEF SharesAlone
      <3>9. \A f \in FileIds : nextId' <= f => perm'[f] = None
        BY <1>23, <2>1, <3>1 DEF RowsInv, InsertsBoth
      <3>10. LiveFilesKeepPermission'
        BY <1>23, <3>1 DEF RowsInv, LiveFilesKeepPermission, DeletesBoth,
                           InsertsBoth
      <3>11. FilesHaveUsers'
        <4> SUFFICES ASSUME NEW f \in FileIds, fileRow'[f] = "live",
                            perm'[f] = None, f \notin halfShared'
                     PROVE  \E s \in Reqs : pc'[s] = "relate" /\ req'[s].next = f
          BY DEF FilesHaveUsers
        <4>1. fileRow[f] = "live" /\ perm[f] = None
          BY <1>23, <3>1, <3>3 DEF InsertsBoth, None
        <4>2. PICK s \in Reqs : pc[s] = "relate" /\ req[s].next = f
          BY <2>1, <4>1 DEF RowsInv, FilesHaveUsers
        <4> QED BY <1>19, <2>1, <4>2
      <3> QED BY <3>5, <3>6, <3>7, <3>8, <3>9, <3>10, <3>11 DEF RowsInv
    <2> QED BY <1>26, <2>2, <2>3 DEF Commit
  <1>27. CASE DeleteFileUser(r)
    <2> DEFINE n == req[r].file
    <2>1. /\ UNCHANGED <<fileRow, perm, nextId, halfShared, txSt, txPerm, req>>
          /\ txRow' = [txRow EXCEPT ![r] = [txRow[r] EXCEPT ![n] = "deleted"]]
          /\ pc' = [pc EXCEPT ![r] = "deletePermission"]
          /\ pc[r] # "relate"
      BY <1>27 DEF DeleteFileUser, Ready, Goto, dbVars, columns, bounds
    <2>2. n \in FileIds => /\ fileRow[n] # "absent"
                           /\ \A s \in Reqs : txRow[s][n] # "live"
      BY <1>0, <1>23, IdsAreNumbers DEF Named, InsertsBoth, NoFile
    <2>3. /\ pc'[r] = "deletePermission"
          /\ \A s \in Reqs \ {r} : pc'[s] = pc[s] /\ txRow'[s] = txRow[s]
          /\ n \in FileIds => txRow'[r][n] = "deleted"
          /\ \A f \in FileIds : f # n => txRow'[r][f] = txRow[r][f]
      BY <2>1 DEF TypeInv, TypeOK
    <2>4. ASSUME NEW s \in Reqs PROVE Named(s)'
      BY <1>23, <2>1, <2>3 DEF Named
    <2>5. ASSUME NEW s \in Reqs PROVE DeletesBoth(s)'
      BY <1>23, <2>1, <2>3 DEF DeletesBoth, n
    <2>6. ASSUME NEW s \in Reqs PROVE InsertsBoth(s)'
      <3>1. \A f \in FileIds : txRow'[s][f] = "live" <=> txRow[s][f] = "live"
        BY <2>2, <2>3
      <3>2. \A q \in Reqs, f \in FileIds :
               txRow'[q][f] = txRow[q][f] \/ f = n
        BY <2>3
      <3> QED BY <1>23, <2>1, <2>2, <3>1, <3>2 DEF InsertsBoth
    <2>7. ASSUME NEW s \in Reqs PROVE SharesAlone(s)'
      BY <1>23, <2>1, <2>3 DEF SharesAlone
    <2>8. FilesHaveUsers'
      BY <2>1, <2>3 DEF RowsInv, FilesHaveUsers
    <2> QED BY <2>1, <2>4, <2>5, <2>6, <2>7, <2>8
            DEF RowsInv, LiveFilesKeepPermission
  <1>28. ASSUME NEW n \in FileIds, NEW p, NEW x \in {"owner", "deleted"},
                UNCHANGED <<fileRow, perm, nextId, halfShared, txSt, txRow, req>>,
                txPerm' = [txPerm EXCEPT ![r] = [txPerm[r] EXCEPT ![n] = x]],
                pc' = [pc EXCEPT ![r] = p], pc[r] # "relate",
                p \notin Inserting \cup {"deletePermission", "relate", "giveOwner"},
                perm[n] # None, x = "deleted" => txRow[r][n] = "deleted"
         PROVE  RowsInv'
    <2>1. /\ pc'[r] = p
          /\ \A s \in Reqs \ {r} : pc'[s] = pc[s] /\ txPerm'[s] = txPerm[s]
          /\ txPerm'[r][n] = x
          /\ \A f \in FileIds : f # n => txPerm'[r][f] = txPerm[r][f]
      BY <1>28 DEF TypeInv, TypeOK
    <2>2. ASSUME NEW s \in Reqs PROVE Named(s)'
      BY <1>23, <1>28, <2>1 DEF Named
    <2>3. ASSUME NEW s \in Reqs PROVE DeletesBoth(s)'
      BY <1>23, <1>28, <2>1 DEF DeletesBoth
    <2>4. ASSUME NEW s \in Reqs PROVE InsertsBoth(s)'
      <3>1. nextId <= n => perm[n] = None
        BY DEF RowsInv
      <3> QED BY <1>23, <1>28, <2>1, <3>1 DEF InsertsBoth
    <2>5. ASSUME NEW s \in Reqs PROVE SharesAlone(s)'
      BY <1>23, <1>28, <2>1 DEF SharesAlone
    <2>6. FilesHaveUsers'
      BY <1>28, <2>1 DEF RowsInv, FilesHaveUsers
    <2> QED BY <1>28, <2>2, <2>3, <2>4, <2>5, <2>6
            DEF RowsInv, LiveFilesKeepPermission
  <1>29. CASE DeleteFilePermission(r)
    <2> DEFINE n == req[r].file
    <2>1. /\ UNCHANGED <<fileRow, perm, nextId, halfShared, txSt, txRow, req>>
          /\ \/ txPerm' = txPerm
             \/ txPerm' = [txPerm EXCEPT ![r] = [txPerm[r] EXCEPT ![n] = "deleted"]]
          /\ pc[r] = "deletePermission" /\ txSt[r] = "open"
      BY <1>29 DEF DeleteFilePermission, Ready, dbVars, columns, bounds
    <2>2. n \in FileIds => txRow[r][n] = "deleted" /\ perm[n] # None
      BY <1>23, <2>1, IdsAreNumbers DEF DeletesBoth, Named, NoFile
    <2>3. PICK p \in {"nextOwner", "commit"} : pc' = [pc EXCEPT ![r] = p]
      BY <1>29 DEF DeleteFilePermission, Goto
    <2>4. CASE txPerm' # txPerm /\ n \in FileIds
      <3> HIDE DEF n
      <3> QED BY <1>28, <2>1, <2>2, <2>3, <2>4
    <2>5. CASE txPerm' = txPerm \/ n \notin FileIds
      <3>1. txPerm' = txPerm
        BY <2>1, <2>5 DEF TypeInv, TypeOK
      <3> QED BY <1>14, <2>1, <2>3, <3>1
    <2> QED BY <2>4, <2>5
  <1>30. CASE SetOwnerPermision(r)
    <2> DEFINE n == req[r].next
    <2>1. /\ UNCHANGED <<fileRow, perm, nextId, halfShared, txSt, txRow, req>>
          /\ txPerm' = [txPerm EXCEPT ![r] = [txPerm[r] EXCEPT ![n] = "owner"]]
          /\ pc[r] = "giveOwner"
      BY <1>30 DEF SetOwnerPermision, Ready, dbVars, columns, bounds
    <2>2. n \in FileIds /\ perm[n] # None
      BY <1>23, <2>1 DEF Named, TypeInv, NextKnown
    <2>3. PICK p \in {"leavePool", "readNextUsed"} : pc' = [pc EXCEPT ![r] = p]
      BY <1>30 DEF SetOwnerPermision, AfterOwnership, Goto
    <2> HIDE DEF n
    <2> QED BY <1>28, <2>1, <2>2, <2>3
  <1> QED BY <1>2, <1>3, <1>4, <1>5, <1>6, <1>7, <1>8, <1>9, <1>10, <1>11,
             <1>12, <1>13, <1>15, <1>16, <1>17, <1>20, <1>21, <1>22, <1>24,
             <1>25, <1>26, <1>27, <1>29, <1>30, <1>31 DEF Step

(* A call names a file that exists and has a user, or what it will insert. *)
LEMMA CallsNameFiles ==
  ASSUME TypeInv, NEW r \in Reqs, Calls(r)
  PROVE  \E route \in Routes, p \in Phases, q \in Request :
            /\ Call(r, route, p, q) /\ NewRequest(p, q)
            /\ q.file # NoFile => fileRow[q.file] # "absent" /\ perm[q.file] # None
  <1>1. PICK route \in Routes, p \in Phases, q \in Request :
           Call(r, route, p, q) /\ NewRequest(p, q)
    BY CallsMakeRequests
  <1>2. req'[r] = q
    BY <1>1 DEF Call, TypeInv, TypeOK
  <1>3. NoRequest.file = NoFile /\ NoRequest \in Request
    BY ConstantFacts
  <1> DEFINE Named0(x) == x.file # NoFile => /\ fileRow[x.file] # "absent"
                                            /\ perm[x.file] # None
  <1> DEFINE New(pa, u, c, pe) == [NoRequest EXCEPT !.path = pa, !.user = u,
                                                    !.cid = c, !.perm = pe]
  <1>4. \A pa, u, c, pe : New(pa, u, c, pe).file = NoFile
    BY <1>3 DEF Request
  <1>5. ASSUME NEW u \in Users, NEW c \in Cids,
               \/ PutUploadFiles(r, u, c) \/ CreateFile(r, u, c)
               \/ \E x \in {"owner", "shared"} :
                     CheckFilesExistInPool(r, u, c, x)
        PROVE  Named0(req'[r])
    <2>1. \E pa, pe : req' = [req EXCEPT ![r] = New(pa, u, c, pe)]
      BY <1>5 DEF PutUploadFiles, CreateFile, CheckFilesExistInPool, Call
    <2> HIDE DEF New
    <2>2. req'[r].file = NoFile
      BY <1>4, <2>1 DEF TypeInv, TypeOK
    <2> QED BY <2>2
  <1>6. ASSUME NEW f \in FileIds, NEW v \in Users, NEW c \in Cids,
               ShareFile(r, f, v, c)
        PROVE  Named0(req'[r])
    <2> DEFINE x == [NoRequest EXCEPT !.path = "share", !.user = v, !.file = f,
                                      !.cid = c, !.perm = "shared"]
    <2>1. x.file = f
      BY <1>3 DEF Request
    <2>2. req'[r] = x /\ fileRow[f] = "live" /\ perm[f] # None
      BY <1>6 DEF ShareFile, Call, TypeInv, TypeOK
    <2> HIDE DEF x
    <2> QED BY <2>1, <2>2
  <1>7. ASSUME NEW f \in FileIds, NEW u \in Users, DeleteFile(r, u, f)
        PROVE  Named0(req'[r])
    <2> DEFINE x == [NoRequest EXCEPT !.path = "delete", !.user = u,
                                      !.file = f, !.cid = fileCid[f]]
    <2>1. x.file = f
      BY <1>3 DEF Request
    <2>2. req'[r] = x /\ fileRow[f] = "live" /\ perm[f] # None
      BY <1>7 DEF DeleteFile, Call, TypeInv, TypeOK
    <2> HIDE DEF x
    <2> QED BY <2>1, <2>2
  <1>8. Named0(req'[r])
    <2> HIDE DEF Named0
    <2> QED BY <1>5, <1>6, <1>7 DEF Calls
  <1> QED BY <1>1, <1>2, <1>8

LEMMA OthersKeepRows ==
  ASSUME TypeInv, TypeInv', RowsInv,
         \/ \E r \in Reqs : Calls(r)
         \/ \E f \in FileIds : UploadDone(f) \/ UploadFail(f)
         \/ Crash
         \/ UNCHANGED vars
  PROVE  RowsInv'
  <1>0. \A s \in Reqs : /\ Named(s) /\ DeletesBoth(s) /\ InsertsBoth(s)
                        /\ SharesAlone(s)
    BY DEF RowsInv
  <1>1. ASSUME NEW r \in Reqs, Calls(r) PROVE RowsInv'
    <2>1. PICK route \in Routes, p \in Phases, q \in Request :
             /\ Call(r, route, p, q) /\ NewRequest(p, q)
             /\ q.file # NoFile => /\ fileRow[q.file] # "absent"
                                   /\ perm[q.file] # None
      BY <1>1, CallsNameFiles
    <2>2. /\ UNCHANGED <<fileRow, perm, nextId, halfShared, txRow, txPerm>>
          /\ pc[r] = "idle" /\ pc'[r] = p /\ req'[r] = q
          /\ \A s \in Reqs \ {r} : /\ pc'[s] = pc[s] /\ req'[s] = req[s]
                                   /\ txSt'[s] = txSt[s]
      BY <2>1 DEF Call, Goto, dbVars, columns, TypeInv, TypeOK
    <2>3. p \in {"insert", "head", "poolHead", "holders"}
          /\ (p # "holders" => q.perm \in {"owner", "shared"})
      BY <2>1 DEF NewRequest
    <2>4. Named(r)'
      BY <2>1, <2>2, <2>3 DEF Named
    <2> QED BY <2>2, <2>3, <2>4, RowsKept
  <1>2. ASSUME UNCHANGED <<fileRow, perm, nextId, halfShared, pc, req>>,
               UNCHANGED <<txSt, txRow, txPerm>>
        PROVE  RowsInv'
    BY <1>2 DEF RowsInv, Named, DeletesBoth, InsertsBoth, SharesAlone,
                LiveFilesKeepPermission, FilesHaveUsers
  <1>3. ASSUME NEW f \in FileIds, UploadDone(f) PROVE RowsInv'
    BY <1>2, <1>3 DEF UploadDone, dbVars, columns, txVars, bounds
  <1>4. ASSUME NEW f \in FileIds, UploadFail(f) PROVE RowsInv'
    <2>1. UNCHANGED <<fileRow, perm, nextId, halfShared, pc, req>>
      BY <1>4 DEF UploadFail, dbVars, columns, bounds
    <2>2. CASE UNCHANGED txVars
      BY <1>2, <2>1, <2>2 DEF txVars
    <2>3. ASSUME NEW r \in Reqs, Discard(r, "closed") PROVE RowsInv'
      <3>1. /\ \A g \in FileIds : txRow'[r][g] = None /\ txPerm'[r][g] = None
            /\ txSt'[r] # "open"
            /\ \A q \in Reqs \ {r} : /\ txRow'[q] = txRow[q]
                                     /\ txPerm'[q] = txPerm[q]
                                     /\ txSt'[q] = txSt[q]
        BY <2>3 DEF Discard, NoRows, TypeInv, TypeOK
      <3> QED BY <2>1, <3>1, RowsKept
    <2> QED BY <1>4, <2>2, <2>3 DEF UploadFail
  <1>5. CASE Crash
    <2>1. /\ UNCHANGED <<fileRow, perm, nextId>>
          /\ halfShared' = halfShared \cup
                             {req[q].next : q \in {q \in Reqs : pc[q] = "relate"}}
          /\ \A s \in Reqs : /\ pc'[s] = "idle" /\ req'[s] = NoRequest
                            /\ txRow'[s] = NoRows /\ txPerm'[s] = NoRows
      BY <1>5 DEF Crash, dbVars, columns, TypeInv, TypeOK
    <2>2. ASSUME NEW s \in Reqs
          PROVE  Named(s)' /\ DeletesBoth(s)' /\ InsertsBoth(s)' /\ SharesAlone(s)'
      <3>1. Named(s)'
        BY <2>1, ConstantFacts DEF Named
      <3>2. \A f \in FileIds : txRow'[s][f] = None /\ txPerm'[s][f] = None
        BY <2>1 DEF NoRows
      <3>3. DeletesBoth(s)' /\ InsertsBoth(s)'
        BY <2>1, <3>2 DEF DeletesBoth, InsertsBoth, None
      <3>4. SharesAlone(s)'
        BY <2>1 DEF SharesAlone
      <3> QED BY <3>1, <3>3, <3>4
    <2>3. FilesHaveUsers'
      BY <2>1 DEF RowsInv, FilesHaveUsers
    <2> QED BY <2>1, <2>2, <2>3 DEF RowsInv, LiveFilesKeepPermission
  <1>6. CASE UNCHANGED vars
    BY <1>2, <1>6 DEF vars
  <1> QED BY <1>1, <1>3, <1>4, <1>5, <1>6

LEMMA InitRows == Init => RowsInv
  <1> SUFFICES ASSUME Init PROVE RowsInv
    OBVIOUS
  <1>1. \A r \in Reqs : /\ pc[r] = "idle" /\ req[r] = NoRequest
                        /\ txRow[r] = NoRows /\ txPerm[r] = NoRows
    BY DEF Init
  <1>2. \A f \in FileIds :
          /\ f <= Len(Preload) => /\ fileRow[f] = "live"
                                  /\ perm[f] \in {"owner", "shared"}
          /\ ~(f <= Len(Preload)) => fileRow[f] = "absent" /\ perm[f] = None
          /\ nextId <= f => ~(f <= Len(Preload))
    BY ConstantFacts, IdsAreNumbers DEF Init
  <1>3. ASSUME NEW r \in Reqs
        PROVE  Named(r) /\ DeletesBoth(r) /\ InsertsBoth(r) /\ SharesAlone(r)
    BY <1>1, ConstantFacts
       DEF Named, DeletesBoth, InsertsBoth, SharesAlone, NoRows, None
  <1> QED BY <1>2, <1>3
          DEF RowsInv, LiveFilesKeepPermission, FilesHaveUsers, None

LEMMA RowsInvInductive == TypeInv /\ RowsInv /\ [Next]_vars => RowsInv'
  BY TypeInvInductive, StepKeepsRows, OthersKeepRows DEF Next

LEMMA RowsInvHolds == Spec => []RowsInv
  BY InitRows, RowsInvInductive, TypeInvHolds, PTL DEF Spec

(* A file that has lost its permission has lost its row: whichever statement of
   DeleteFile fails, both changes become visible together or not at all. *)
THEOREM PermissionsLastAsLongAsRows == Spec => []LiveFilesKeepPermission
  <1>1. RowsInv => LiveFilesKeepPermission
    BY DEF RowsInv
  <1> QED BY <1>1, RowsInvHolds, PTL

(* Only a share leaves a live row that no user has: between its two commits, and
   for good when the second transaction is rolled back or the process dies there.
   PutUploadFiles, CreateFile and CheckFilesExistInPool never do, not even when
   the upload goroutine closes their transaction.  *)
THEOREM LiveRowsHaveUsers == Spec => []FilesHaveUsers
  <1>1. RowsInv => FilesHaveUsers
    BY DEF RowsInv
  <1> QED BY <1>1, RowsInvHolds, PTL

(* Only three actions change committed rows and permissions. *)
LEMMA RowsWritten ==
  ASSUME [Next]_vars
  PROVE  \/ fileRow' = fileRow /\ perm' = perm
         \/ \E r \in Reqs : CommitSharedCopy(r) \/ CommitSharedRelation(r)
         \/ \E r \in Reqs : Publish(r)
  <1>1. ASSUME NEW r \in Reqs, Calls(r)
        PROVE  fileRow' = fileRow /\ perm' = perm
    BY <1>1 DEF Calls, PutUploadFiles, CreateFile, CheckFilesExistInPool,
                ShareFile, DeleteFile, Call, dbVars
  <1>2. ASSUME NEW r \in Reqs, Step(r)
        PROVE  \/ fileRow' = fileRow /\ perm' = perm
               \/ CommitSharedCopy(r) \/ CommitSharedRelation(r) \/ Publish(r)
    <2>1. CASE \/ HeadObject(r) \/ DecideInPool(r) \/ HeadPoolObject(r)
               \/ ReadUsed(r) \/ FindUsersByFileCID(r)
               \/ FindFilesByUserAndFileCID(r) \/ IsFileOwner(r)
               \/ GetNextOwner(r) \/ GetNextFileUser(r) \/ ReadNextUsed(r)
               \/ SetNextFileInPool(r) \/ StatementFailsUnnoticed(r)
      BY <2>1 DEF HeadObject, DecideInPool, HeadPoolObject, ReadUsed,
                  FindUsersByFileCID, FindFilesByUserAndFileCID, IsFileOwner,
                  GetNextOwner, GetNextFileUser, ReadNextUsed,
                  SetNextFileInPool, StatementFailsUnnoticed, Panic, Reads,
                  dbVars
    <2>2. CASE \/ TxCreate(r) \/ Charge(r) \/ DebitOwner(r) \/ CreditNextOwner(r)
               \/ DeleteFileFromS3(r) \/ DebitNow(r) \/ DeleteFileUser(r)
               \/ DeleteFilePermission(r) \/ SetOwnerPermision(r)
               \/ SharedRelationFails(r) \/ StatementFails(r) \/ DeadlockVictim(r)
      BY <2>2 DEF TxCreate, Charge, SharedRelationFails, DebitOwner, CreditNextOwner, WriteUsed,
                  DeleteFileFromS3, DebitNow, DeleteFileUser,
                  DeleteFilePermission, SetOwnerPermision, StatementFails,
                  DeadlockVictim, dbVars
    <2>3. CASE Commit(r)
      BY <2>3 DEF Commit, dbVars
    <2> QED BY <1>2, <2>1, <2>2, <2>3 DEF Step
  <1>3. ASSUME \/ \E f \in FileIds : UploadDone(f) \/ UploadFail(f)
               \/ Crash \/ UNCHANGED vars
        PROVE  fileRow' = fileRow /\ perm' = perm
    BY <1>3 DEF UploadDone, UploadFail, Crash, dbVars, vars
  <1> QED BY <1>1, <1>2, <1>3 DEF Next

(* A deleted row stays deleted, and a live row that stays live only gains its
   user or the ownership: no commit, however late and whatever it was decided
   on, revives a file or takes it from its user.  *)
THEOREM RowsAreNotRevived == Spec => LiveFilesKeepTheirUser
  <1> DEFINE A == \A f \in FileIds :
                    /\ fileRow[f] = "deleted" => fileRow'[f] = "deleted"
                    /\ fileRow[f] = "live" /\ fileRow'[f] = "live" =>
                         \/ perm'[f] = perm[f]
                         \/ perm[f] = None /\ perm'[f] = "shared"
                         \/ perm[f] = "shared" /\ perm'[f] = "owner"
  <1>1. TypeInv /\ RowsInv /\ [Next]_vars => [A]_vars
    <2> SUFFICES ASSUME TypeInv, RowsInv, [Next]_vars PROVE A
      OBVIOUS
    <2>1. CASE fileRow' = fileRow /\ perm' = perm
      BY <2>1
    <2>2. ASSUME NEW r \in Reqs, CommitSharedCopy(r) PROVE A
      <3>1. nextId \in FileIds => fileRow[nextId] = "absent"
        BY DEF TypeInv, RowsKnown, TypeOK
      <3> QED BY <2>2, <3>1 DEF CommitSharedCopy, TypeInv, TypeOK
    <2>3. ASSUME NEW r \in Reqs, CommitSharedRelation(r) PROVE A
      <3>1. /\ req[r].next \in FileIds /\ perm[req[r].next] = None
            /\ perm' = [perm EXCEPT ![req[r].next] = "shared"]
            /\ fileRow' = fileRow
        BY <2>3 DEF CommitSharedRelation, RowsInv, SharesAlone, TypeInv, NextKnown
      <3> QED BY <3>1 DEF TypeInv, TypeOK
    <2>4. ASSUME NEW r \in Reqs, Publish(r) PROVE A
      <3> SUFFICES ASSUME NEW f \in FileIds
                   PROVE  /\ fileRow[f] = "deleted" => fileRow'[f] = "deleted"
                          /\ fileRow[f] = "live" /\ fileRow'[f] = "live" =>
                               \/ perm'[f] = perm[f]
                               \/ perm[f] = None /\ perm'[f] = "shared"
                               \/ perm[f] = "shared" /\ perm'[f] = "owner"
        OBVIOUS
      <3>1. /\ fileRow'[f] = IF txRow[r][f] = None THEN fileRow[f]
                                                   ELSE txRow[r][f]
            /\ perm'[f] = IF txPerm[r][f] = None THEN perm[f] ELSE txPerm[r][f]
        BY <2>4 DEF Publish
      <3>2. /\ txRow[r][f] \in {None, "live", "deleted"}
            /\ txPerm[r][f] \in {None, "owner", "shared", "deleted"}
            /\ perm[f] \in {None, "owner", "shared", "deleted"}
        BY DEF TypeInv, TypeOK, Permissions
      <3>3. /\ txRow[r][f] = "live" => fileRow[f] = "absent"
            /\ txPerm[r][f] = "deleted" => txRow[r][f] = "deleted"
            /\ txPerm[r][f] = "shared" => txRow[r][f] = "live"
            /\ txPerm[r][f] # None => txRow[r][f] = "live" \/ perm[f] # None
            /\ perm[f] = "deleted" => fileRow[f] = "deleted"
        BY DEF RowsInv, InsertsBoth, DeletesBoth, LiveFilesKeepPermission
      <3> QED BY <3>1, <3>2, <3>3
    <2> QED BY <2>1, <2>2, <2>3, <2>4, RowsWritten
  <1> QED BY <1>1, TypeInvHolds, RowsInvHolds, PTL
          DEF Spec, LiveFilesKeepTheirUser

-----------------------------------------------------------------------------
(* Requests in a row                                                       *)

(* There is one request at a time, and the process does not crash; upload
   goroutines still run on.  *)
Alone == (\A r, q \in Reqs : r = q) /\ MaxCrashes = 0

(* Where a delete may be, once it knows what it deletes. *)
DeletePhases == [delete |-> {"holders", "copies", "isOwner"},
                 owner |-> {"readUsed", "debit", "deleteRow", "deletePermission",
                            "nextOwner", "giveOwner", "readNextUsed", "credit", "commit",
                            "panicked"},
                 shared |-> {"deleteRow", "deletePermission", "commit"},
                 sole |-> {"s3Delete", "readUsed", "debitNow", "deleteRow",
                           "deletePermission", "commit"}]

DeletePaths == {"delete", "owner", "shared", "sole"}

RowIsDeleted == {"deletePermission", "nextOwner", "giveOwner", "readNextUsed",
                 "credit", "commit"}

(* What a delete has found out is still so. *)
DeleteAlone(r) ==
    req[r].path \in DeletePaths =>
        LET f == req[r].file
            c == req[r].cid
        IN  /\ pc[r] \in DeletePhases[req[r].path]
            /\ txSt[r] = "open" /\ \A g \in FileIds : txRow[r][g] # "live"
            /\ f \in FileIds /\ fileRow[f] = "live" /\ fileCid[f] = c
            /\ pc[r] = "copies" => req[r].others = AtLeastTwo(Holders(c))
            /\ pc[r] = "isOwner" \/ req[r].path = "owner" => AtLeastTwo(Holders(c))
            /\ req[r].path = "sole" =>
                  \A g \in LiveRows(c) : g = f \/ g \in halfShared
            /\ pc[r] = "panicked" => HalfSharedCopy(c)
            /\ pc[r] \in RowIsDeleted => txRow[r][f] = "deleted"

(* The other requests insert one row at most. *)
InsertAlone(r) ==
    req[r].path \notin DeletePaths =>
        /\ pc[r] \in {"idle", "head", "holdersOfCid", "poolHead", "insert",
                      "readUsed", "charge", "relate", "commit"}
        /\ req[r].path \in {"none", "upload", "create", "pool", "share"}
        /\ pc[r] = "idle" <=> req[r].path = "none"
        /\ pc[r] \in {"head", "holdersOfCid", "poolHead", "insert"} => txSt[r] = "open"
        /\ pc[r] \in {"readUsed", "charge"} => req[r].path \in {"upload", "create"}
        /\ pc[r] = "relate" => /\ up[req[r].next] = "none"
                               /\ Len(Preload) < req[r].next
        /\ \A f \in FileIds : txRow[r][f] = "live" =>
              /\ pc[r] \notin {"idle", "head", "holdersOfCid", "poolHead", "insert",
                               "relate"}
              /\ txSt[r] = "open"
              /\ \A g \in FileIds : txRow[r][g] = "live" => g = f

(* An upload that has not failed has a row, or is about to have one. *)
UploadsHaveRows ==
    /\ Len(Preload) < nextId
    /\ \A f \in FileIds :
          /\ nextId <= f => up[f] = "none"
          /\ f <= Len(Preload) => fileRow[f] # "absent"
          /\ fileRow[f] = "absent" /\ up[f] \in {"running", "done"} =>
                \E r \in Reqs : txRow[r][f] = "live"

(* The object is there from before its row is. *)
ObjectsStay ==
    \A f \in FileIds :
        \/ up[f] = "done" /\ fileRow[f] # "deleted"
        \/ f <= Len(Preload) /\ fileRow[f] = "live"
        => fileCid[f] \in s3 \/ Deleting(f)

(* What a failed share has left is nobody's upload. *)
HalfSharedAlone ==
    \A f \in halfShared : up[f] = "none" /\ Len(Preload) < f /\ f < nextId

(* Nobody takes away what a request has found out, or an object that a row needs. *)
AloneInv == /\ \A r \in Reqs : DeleteAlone(r) /\ InsertAlone(r)
            /\ UploadsHaveRows /\ ObjectsStay /\ HalfSharedAlone /\ crashes = 0

-----------------------------------------------------------------------------
(* The second newest of two rows                                           *)

(* There is a newest one among some rows. *)
LEMMA NewestRow ==
  ASSUME NEW S \in SUBSET FileIds, S # {}
  PROVE  \E m \in S : \A f \in S : f <= m
  <1> DEFINE Bounds == {n \in Nat : \A f \in S : f <= n}
  <1>1. Len(Preload) + MaxRequests \in Bounds
    BY ConstantsAssumption DEF FileIds
  <1>2. PICK n \in Bounds : \A m \in Bounds : n <= m
    <2> HIDE DEF Bounds
    <2>1. Bounds \subseteq Nat
      BY DEF Bounds
    <2> QED BY <1>1, <2>1, LeastNumber
  <1>3. n \in S
    <2> SUFFICES ASSUME n \notin S PROVE FALSE
      OBVIOUS
    <2>1. \A f \in S : f \in Nat \ {0} /\ f <= n /\ f # n
      BY <1>2, IdsAreNumbers
    <2>2. n \in Nat /\ n - 1 \in Nat
      BY <1>2, <2>1
    <2>3. n - 1 \in Bounds
      BY <2>1, <2>2
    <2>4. n <= n - 1
      BY <1>2, <2>3
    <2> QED BY <2>2, <2>4
  <1> QED BY <1>2, <1>3

(* Two live rows of a content have a second newest. *)
LEMMA SecondNewestExists ==
  ASSUME NEW c, AtLeastTwo(LiveRows(c))
  PROVE  \E g \in FileIds : SecondNewest(g, c)
  <1> DEFINE L == LiveRows(c)
  <1>1. L \subseteq FileIds
    BY DEF LiveRows
  <1>2. PICK m \in L : \A f \in L : f <= m
    <2>1. L # {}
      BY DEF AtLeastTwo
    <2> HIDE DEF L
    <2> QED BY <1>1, <2>1, NewestRow
  <1>3. PICK g \in L \ {m} : \A f \in L \ {m} : f <= g
    <2>1. L \ {m} # {}
      BY DEF AtLeastTwo
    <2>2. L \ {m} \in SUBSET FileIds
      BY <1>1
    <2> HIDE DEF L
    <2> QED BY <2>1, <2>2, NewestRow
  <1>4. \A f \in L : f \in Nat
    BY <1>1, IdsAreNumbers
  <1>5. {h \in L : h > g} = {m}
    BY <1>2, <1>3, <1>4
  <1>6. Cardinality({h \in L : h > g}) = 1
    BY <1>5, FS_Singleton
  <1> QED BY <1>1, <1>3, <1>6 DEF SecondNewest

-----------------------------------------------------------------------------
(* What a step does to it                                                  *)

(* No request is there but r. *)
LEMMA OnlyRequest ==
  ASSUME Alone, NEW r \in Reqs
  PROVE  Reqs = {r}
  BY DEF Alone

(* While a request deletes, each live row has a user, or a failed share left it. *)
LEMMA LiveRowsAreHeld ==
  ASSUME Alone, RowsInv, AloneInv, NEW r \in Reqs, req[r].path \in DeletePaths,
         NEW c
  PROVE  \A f \in LiveRows(c) : f \in Holders(c) \/ f \in halfShared
  <1>1. pc[r] # "relate"
    BY DEF AloneInv, DeleteAlone, DeletePaths, DeletePhases
  <1>2. \A q \in Reqs : pc[q] # "relate"
    BY <1>1, OnlyRequest
  <1>3. \A f \in FileIds : fileRow[f] = "live" => perm[f] # None \/ f \in halfShared
    BY <1>2 DEF RowsInv, FilesHaveUsers
  <1> QED BY <1>3 DEF Holders, LiveRows

(* A step after which the tables of files are as before, and which leaves rows alone
   in its transaction but for the one that it deletes: what is left to show is what
   the request knows. *)
LEMMA TablesKept ==
  ASSUME Alone, AloneInv, NEW r \in Reqs,
         UNCHANGED <<fileRow, perm, columns, s3, up, halfShared, crashes>>,
         \A f \in FileIds : txRow'[r][f] = "live" <=> txRow[r][f] = "live",
         Deleting(req[r].file) => Deleting(req[r].file)',
         req'[r].file = req[r].file,
         DeleteAlone(r)', InsertAlone(r)'
  PROVE  AloneInv'
  <1>1. Reqs = {r}
    BY OnlyRequest
  <1>2. \A q \in Reqs : (DeleteAlone(q) /\ InsertAlone(q))'
    BY <1>1
  <1>3. UploadsHaveRows'
    BY <1>1 DEF AloneInv, UploadsHaveRows, columns
  <1>4. \A f \in FileIds : Deleting(f) => Deleting(f)'
    BY <1>1 DEF Deleting
  <1>5. ObjectsStay'
    BY <1>4 DEF AloneInv, ObjectsStay, columns
  <1> QED BY <1>2, <1>3, <1>5 DEF AloneInv, HalfSharedAlone, columns

(* A step that reads for a request that deletes nothing. *)
LEMMA ReadsToInsert ==
  ASSUME Alone, TypeInv, AloneInv, NEW r \in Reqs, NEW p, NEW q,
         Reads(r, p, q), req[r].path \notin DeletePaths,
         q.path = req[r].path, q.file = req[r].file, q.next = req[r].next,
         \/ pc[r] \in {"head", "holdersOfCid", "poolHead"} /\ p \in {"holdersOfCid", "insert", "commit"}
         \/ pc[r] = "readUsed" /\ p = "charge"
  PROVE  AloneInv'
  <1>1. /\ req'[r] = q /\ pc'[r] = p
        /\ UNCHANGED <<fileRow, perm, columns, s3, up, halfShared, crashes, txRow, txSt, nextId>>
    BY DEF Reads, Goto, TypeInv, TypeOK, dbVars, txVars, bounds, columns
  <1>2. InsertAlone(r)
    BY DEF AloneInv
  <1>3. InsertAlone(r)'
    BY <1>1, <1>2 DEF InsertAlone, DeletePaths
  <1>4. DeleteAlone(r)'
    BY <1>1 DEF DeleteAlone
  <1>5. Deleting(req[r].file) => Deleting(req[r].file)'
    BY <1>1, OnlyRequest DEF Deleting
  <1> QED BY <1>1, <1>3, <1>4, <1>5, TablesKept

(* A step of a delete that neither reads rows nor publishes any: it goes to a phase of
   the same path, and the row is deleted where it has to be. *)
LEMMA DeleteGoesOn ==
  ASSUME Alone, TypeInv, AloneInv, NEW r \in Reqs,
         req[r].path \in DeletePaths, pc[r] \notin {"holders", "copies", "isOwner"},
         UNCHANGED <<fileRow, perm, columns, s3, up, halfShared, crashes, txSt>>,
         req'[r].path = req[r].path, req'[r].file = req[r].file,
         req'[r].cid = req[r].cid,
         pc'[r] \in DeletePhases[req[r].path],
         pc'[r] \notin {"copies", "isOwner", "panicked"},
         \/ txRow'[r] = txRow[r] /\ (pc'[r] \in RowIsDeleted => pc[r] \in RowIsDeleted)
         \/ txRow'[r] = [txRow[r] EXCEPT ![req[r].file] = "deleted"]
  PROVE  AloneInv'
  <1>1. DeleteAlone(r)
    BY DEF AloneInv
  <1>2. /\ fileRow' = fileRow /\ perm' = perm /\ fileCid' = fileCid
    BY DEF columns
  <1>3. txRow[r] \in [FileIds -> {None, "live", "deleted"}]
    BY DEF TypeInv, TypeOK
  <1>4. \A f \in FileIds : txRow'[r][f] # "live"
    BY <1>1, <1>3 DEF DeleteAlone
  <1>5. pc'[r] \in RowIsDeleted => txRow'[r][req[r].file] = "deleted"
    BY <1>1, <1>3 DEF DeleteAlone
  <1>6. DeleteAlone(r)'
    BY <1>1, <1>2, <1>4, <1>5 DEF DeleteAlone, Holders, LiveRows, HalfSharedCopy
  <1>7. InsertAlone(r)'
    BY DEF InsertAlone
  <1>8. Deleting(req[r].file) => Deleting(req[r].file)'
    BY OnlyRequest DEF Deleting
  <1> QED BY <1>1, <1>4, <1>6, <1>7, <1>8, TablesKept DEF DeleteAlone

(* A read of a delete that finds out where it goes on. *)
LEMMA ReadsToDelete ==
  ASSUME Alone, TypeInv, AloneInv, NEW r \in Reqs, NEW p, NEW q,
         Reads(r, p, q), req[r].path \in DeletePaths,
         q.file = req[r].file, q.cid = req[r].cid,
         q.path \in DeletePaths, req[r].path # "delete" => q.path # "delete",
         p \in DeletePhases[q.path], p \in RowIsDeleted => pc[r] \in RowIsDeleted,
         p = "copies" => q.others = AtLeastTwo(Holders(q.cid)),
         p = "isOwner" \/ q.path = "owner" => AtLeastTwo(Holders(q.cid)),
         q.path = "sole" => \A g \in LiveRows(q.cid) : g = q.file \/ g \in halfShared,
         p = "panicked" => HalfSharedCopy(q.cid)
  PROVE  AloneInv'
  <1>1. /\ req'[r] = q /\ pc'[r] = p
        /\ UNCHANGED <<fileRow, perm, columns, s3, up, halfShared, crashes, txRow, txSt>>
    BY DEF Reads, Goto, TypeInv, TypeOK, dbVars, txVars, bounds, columns
  <1>2. DeleteAlone(r)
    BY DEF AloneInv
  <1>3. fileRow' = fileRow /\ perm' = perm /\ fileCid' = fileCid
    BY <1>1 DEF columns
  <1>4. DeleteAlone(r)'
    BY <1>1, <1>2, <1>3 DEF DeleteAlone, Holders, LiveRows, HalfSharedCopy
  <1>5. InsertAlone(r)'
    BY <1>1 DEF InsertAlone
  <1>6. Deleting(req[r].file) => Deleting(req[r].file)'
    BY <1>1, OnlyRequest DEF Deleting, DeletePaths
  <1> QED BY <1>1, <1>4, <1>5, <1>6, TablesKept

(* What a delete can find out, one statement after the other. *)
LEMMA DeleteReads ==
  ASSUME Alone, TypeInv, RowsInv, AloneInv, NEW r \in Reqs,
         \/ FindUsersByFileCID(r) \/ FindFilesByUserAndFileCID(r) \/ IsFileOwner(r)
         \/ GetNextOwner(r) \/ GetNextFileUser(r) \/ ReadNextUsed(r)
         \/ SetNextFileInPool(r)
  PROVE  AloneInv'
  <1>0. /\ DeleteAlone(r) /\ InsertAlone(r) /\ Named(r) /\ req[r] \in Request
    BY DEF AloneInv, RowsInv, TypeInv, TypeOK
  <1>1. pc[r] \in {"holders", "copies", "isOwner", "nextOwner", "nextCopy", "readNextUsed",
                   "leavePool"}
    <2>1. FindUsersByFileCID(r) => pc[r] = "holders"
      BY DEF FindUsersByFileCID
    <2>2. FindFilesByUserAndFileCID(r) => pc[r] = "copies"
      BY DEF FindFilesByUserAndFileCID
    <2>3. IsFileOwner(r) => pc[r] = "isOwner"
      BY DEF IsFileOwner
    <2>4. GetNextOwner(r) => pc[r] = "nextOwner"
      BY DEF GetNextOwner
    <2>5. GetNextFileUser(r) => pc[r] = "nextCopy"
      BY DEF GetNextFileUser
    <2>6. /\ ReadNextUsed(r) => pc[r] = "readNextUsed"
          /\ SetNextFileInPool(r) => pc[r] = "leavePool"
      BY DEF ReadNextUsed, SetNextFileInPool, Ready
    <2> QED BY <2>1, <2>2, <2>3, <2>4, <2>5, <2>6
  <1>2. req[r].path \in DeletePaths /\ pc[r] \in DeletePhases[req[r].path]
    BY <1>0, <1>1 DEF InsertAlone, DeleteAlone
  <1>3. /\ \A f \in LiveRows(req[r].cid) : f \in Holders(req[r].cid) \/ f \in halfShared
        /\ Holders(req[r].cid) \subseteq LiveRows(req[r].cid)
    BY <1>2, LiveRowsAreHeld DEF Holders
  <1>4. pc[r] \in {"holders", "copies", "isOwner"} <=> req[r].path = "delete"
    BY <1>1, <1>2 DEF DeletePaths, DeletePhases
  <1>5. pc[r] \in {"nextOwner", "readNextUsed"} <=> req[r].path = "owner"
    BY <1>1, <1>2 DEF DeletePaths, DeletePhases
  <1>6. CASE FindUsersByFileCID(r)
    <2>1. PICK q : Reads(r, "copies", q)
                   /\ q = [req[r] EXCEPT !.others = AtLeastTwo(Holders(req[r].cid))]
      BY <1>6 DEF FindUsersByFileCID
    <2>2. /\ q.file = req[r].file /\ q.cid = req[r].cid /\ q.path = req[r].path
          /\ q.others = AtLeastTwo(Holders(req[r].cid)) /\ req[r].path = "delete"
      BY <1>0, <1>4, <1>6, <2>1 DEF Request, FindUsersByFileCID
    <2>3. /\ q.path \in DeletePaths /\ "copies" \in DeletePhases[q.path]
          /\ "copies" \notin RowIsDeleted
      BY <2>2 DEF DeletePaths, DeletePhases, RowIsDeleted
    <2> QED BY <1>2, <2>1, <2>2, <2>3, ReadsToDelete
  <1>7. CASE FindFilesByUserAndFileCID(r)
    <2>1. /\ pc[r] = "copies" /\ req[r].path = "delete"
          /\ req[r].others = AtLeastTwo(Holders(req[r].cid))
      BY <1>0, <1>2, <1>4, <1>7 DEF FindFilesByUserAndFileCID, DeleteAlone
    <2>2. CASE \E q : /\ Reads(r, "isOwner", q)
                      /\ q = [req[r] EXCEPT !.copies = AtLeastTwo(CopiesOf(req[r].user, req[r].cid))]
                      /\ req[r].others \/ AtLeastTwo(CopiesOf(req[r].user, req[r].cid))
      <3>1. PICK q : /\ Reads(r, "isOwner", q)
                     /\ q = [req[r] EXCEPT !.copies = AtLeastTwo(CopiesOf(req[r].user, req[r].cid))]
                     /\ req[r].others \/ AtLeastTwo(CopiesOf(req[r].user, req[r].cid))
        BY <2>2
      <3>2. AtLeastTwo(Holders(req[r].cid))
        BY <2>1, <3>1 DEF AtLeastTwo, CopiesOf
      <3>3. q.file = req[r].file /\ q.cid = req[r].cid /\ q.path = "delete"
        BY <1>0, <2>1, <3>1 DEF Request
      <3>4. /\ q.path \in DeletePaths /\ "isOwner" \in DeletePhases[q.path]
            /\ "isOwner" \notin RowIsDeleted
        BY <3>3 DEF DeletePaths, DeletePhases, RowIsDeleted
      <3> QED BY <1>2, <2>1, <3>1, <3>2, <3>3, <3>4, ReadsToDelete
    <2>3. CASE \E q : /\ Reads(r, "s3Delete", q)
                      /\ q = [req[r] EXCEPT !.path = "sole"]
                      /\ ~req[r].others
      <3>1. PICK q : /\ Reads(r, "s3Delete", q)
                     /\ q = [req[r] EXCEPT !.path = "sole"]
                     /\ ~req[r].others
        BY <2>3
      <3>2. q.file = req[r].file /\ q.cid = req[r].cid /\ q.path = "sole"
        BY <1>0, <3>1 DEF Request
      <3>3. \A g \in LiveRows(req[r].cid) : g = req[r].file \/ g \in halfShared
        <4>1. ~AtLeastTwo(Holders(req[r].cid))
          BY <2>1, <3>1
        <4>2. req[r].file \in Holders(req[r].cid)
          BY <1>0, <1>2, IdsAreNumbers DEF DeleteAlone, LiveRows, Holders, Named, NoFile
        <4> QED BY <1>3, <4>1, <4>2 DEF AtLeastTwo
      <3>4. /\ q.path \in DeletePaths /\ "s3Delete" \in DeletePhases[q.path]
            /\ "s3Delete" \notin RowIsDeleted
        BY <3>2 DEF DeletePaths, DeletePhases, RowIsDeleted
      <3> QED BY <1>2, <2>1, <3>1, <3>2, <3>3, <3>4, ReadsToDelete
    <2> QED BY <1>7, <2>2, <2>3 DEF FindFilesByUserAndFileCID
  <1>8. CASE IsFileOwner(r)
    <2>1. /\ pc[r] = "isOwner" /\ req[r].path = "delete" /\ AtLeastTwo(Holders(req[r].cid))
      BY <1>0, <1>2, <1>4, <1>8 DEF IsFileOwner, DeleteAlone
    <2>2. PICK q, p : /\ Reads(r, p, q)
                      /\ \/ p = "readUsed" /\ q = [req[r] EXCEPT !.path = "owner"]
                         \/ p = "deleteRow" /\ q = [req[r] EXCEPT !.path = "shared"]
      BY <1>8 DEF IsFileOwner
    <2>3. /\ q.file = req[r].file /\ q.cid = req[r].cid
          /\ \/ p = "readUsed" /\ q.path = "owner"
             \/ p = "deleteRow" /\ q.path = "shared"
      BY <1>0, <2>2 DEF Request
    <2>4. q.path \in DeletePaths /\ p \in DeletePhases[q.path] /\ p \notin RowIsDeleted
      BY <2>3 DEF DeletePaths, DeletePhases, RowIsDeleted
    <2> QED BY <1>2, <2>1, <2>2, <2>3, <2>4, ReadsToDelete
  <1>9. CASE GetNextOwner(r)
    <2>1. /\ pc[r] = "nextOwner" /\ req[r].path = "owner" /\ fileRow[req[r].file] = "live"
          /\ AtLeastTwo(Holders(req[r].cid)) /\ AtLeastTwo(LiveRows(req[r].cid))
      BY <1>0, <1>2, <1>3, <1>5, <1>9 DEF GetNextOwner, DeleteAlone, AtLeastTwo
    <2>2. PICK g \in FileIds : SecondNewest(g, req[r].cid)
      BY <2>1, SecondNewestExists
    <2>3. /\ req[r].path \in DeletePaths /\ pc[r] \in RowIsDeleted
          /\ {"giveOwner", "panicked"} \subseteq DeletePhases[req[r].path]
          /\ "panicked" \notin RowIsDeleted
      BY <2>1 DEF DeletePaths, DeletePhases, RowIsDeleted
    <2>4. ASSUME NEW h \in FileIds, Reads(r, "giveOwner", [req[r] EXCEPT !.next = h])
          PROVE  AloneInv'
      <3>1. PICK q : q = [req[r] EXCEPT !.next = h]
        OBVIOUS
      <3>2. q.file = req[r].file /\ q.cid = req[r].cid /\ q.path = "owner"
        BY <1>0, <2>1, <3>1 DEF Request
      <3> QED BY <1>2, <2>1, <2>3, <2>4, <3>1, <3>2, ReadsToDelete
    <2>5. ASSUME Panic(r), perm[g] = None PROVE AloneInv'
      <3>1. HalfSharedCopy(req[r].cid)
        BY <1>3, <2>2, <2>5 DEF SecondNewest, Holders, HalfSharedCopy
      <3>2. Reads(r, "panicked", req[r])
        BY <2>5 DEF Panic
      <3> QED BY <1>2, <2>1, <2>3, <3>1, <3>2, ReadsToDelete
    <2> QED BY <1>9, <2>1, <2>2, <2>4, <2>5 DEF GetNextOwner
  <1>10. CASE ReadNextUsed(r)
    <2>1. PICK q : Reads(r, "credit", q)
                   /\ q = [req[r] EXCEPT !.used = storage[fileUser[req[r].next]]]
      BY <1>10 DEF ReadNextUsed
    <2>2. /\ q.file = req[r].file /\ q.cid = req[r].cid /\ q.path = "owner"
          /\ pc[r] = "readNextUsed"
      BY <1>0, <1>5, <1>10, <2>1 DEF Request, ReadNextUsed
    <2>3. AtLeastTwo(Holders(req[r].cid))
      BY <1>0, <1>2, <1>5, <2>2 DEF DeleteAlone
    <2>4. /\ q.path \in DeletePaths /\ "credit" \in DeletePhases[q.path]
          /\ pc[r] \in RowIsDeleted
      BY <2>2 DEF DeletePaths, DeletePhases, RowIsDeleted
    <2> QED BY <1>2, <1>5, <2>1, <2>2, <2>3, <2>4, ReadsToDelete
  <1>11. ~GetNextFileUser(r) /\ ~SetNextFileInPool(r)
    <2>1. pc[r] \notin {"nextCopy", "leavePool"}
      BY <1>2 DEF DeletePaths, DeletePhases
    <2> QED BY <2>1 DEF GetNextFileUser, SetNextFileInPool, Ready
  <1> QED BY <1>6, <1>7, <1>8, <1>9, <1>10, <1>11

(* What an insertion reads, and what a write to user_details leaves as it is. *)
LEMMA OtherReads ==
  ASSUME Alone, TypeInv, AloneInv, NEW r \in Reqs,
         HeadObject(r) \/ DecideInPool(r) \/ HeadPoolObject(r) \/ ReadUsed(r)
  PROVE  AloneInv'
  <1>0. DeleteAlone(r) /\ InsertAlone(r) /\ req[r] \in Request
    BY DEF AloneInv, TypeInv, TypeOK
  <1>1. req[r].path \in DeletePaths => pc[r] \in DeletePhases[req[r].path]
    BY <1>0 DEF DeleteAlone
  <1>2. pc[r] \in {"head", "holdersOfCid", "poolHead"} => req[r].path \notin DeletePaths
    BY <1>1 DEF DeletePaths, DeletePhases
  <1>3. CASE HeadObject(r) \/ HeadPoolObject(r)
    <2>1. PICK p \in {"holdersOfCid", "insert", "commit"} : Reads(r, p, req[r])
      BY <1>3 DEF HeadObject, HeadPoolObject
    <2>2. pc[r] \in {"head", "poolHead"}
      BY <1>3 DEF HeadObject, HeadPoolObject
    <2> QED BY <1>2, <2>1, <2>2, ReadsToInsert
  <1>4. CASE DecideInPool(r)
    <2>1. PICK q : /\ Reads(r, "insert", q)
                   /\ q = [req[r] EXCEPT !.perm = IF Holders(req[r].cid) # {} THEN "shared"
                                                                             ELSE "owner"]
      BY <1>4 DEF DecideInPool
    <2>2. pc[r] = "holdersOfCid"
      BY <1>4 DEF DecideInPool
    <2>3. q.path = req[r].path /\ q.file = req[r].file /\ q.next = req[r].next
      BY <1>0, <2>1 DEF Request
    <2> QED BY <1>2, <2>1, <2>2, <2>3, ReadsToInsert
  <1>5. CASE ReadUsed(r)
    <2>1. PICK p, q : /\ Reads(r, p, q)
                      /\ q = [req[r] EXCEPT !.used = storage[req[r].user]]
                      /\ p = CASE req[r].path = "owner" -> "debit"
                               [] req[r].path = "sole" -> "debitNow"
                               [] OTHER -> "charge"
      BY <1>5 DEF ReadUsed
    <2>2. pc[r] = "readUsed"
      BY <1>5 DEF ReadUsed
    <2>3. /\ q.path = req[r].path /\ q.file = req[r].file /\ q.next = req[r].next
          /\ q.cid = req[r].cid
      BY <1>0, <2>1 DEF Request
    <2>4. CASE req[r].path \notin DeletePaths
      <3>1. p = "charge"
        BY <2>1, <2>4 DEF DeletePaths
      <3> QED BY <2>1, <2>2, <2>3, <2>4, <3>1, ReadsToInsert
    <2>5. CASE req[r].path \in DeletePaths
      <3>1. req[r].path \in {"owner", "sole"}
        BY <1>1, <2>2, <2>5 DEF DeletePaths, DeletePhases
      <3>2. /\ p = IF req[r].path = "owner" THEN "debit" ELSE "debitNow"
            /\ req[r].path # "delete"
        BY <2>1, <3>1
      <3>3. /\ p \in DeletePhases[q.path] /\ p \notin RowIsDeleted
            /\ p \notin {"copies", "isOwner", "panicked"}
        BY <2>3, <3>1, <3>2 DEF DeletePhases, RowIsDeleted
      <3>4. /\ q.path = "owner" => AtLeastTwo(Holders(q.cid))
            /\ q.path = "sole" => \A g \in LiveRows(q.cid) : g = q.file \/ g \in halfShared
        BY <1>0, <2>3, <2>5 DEF DeleteAlone
      <3> QED BY <2>1, <2>3, <2>5, <3>2, <3>3, <3>4, ReadsToDelete
    <2> QED BY <2>4, <2>5
  <1> QED BY <1>3, <1>4, <1>5

(* The statements of a delete that write. *)
LEMMA DeleteWrites ==
  ASSUME Alone, TypeInv, AloneInv, NEW r \in Reqs,
         \/ DebitOwner(r) \/ DebitNow(r) \/ DeleteFileUser(r)
         \/ DeleteFilePermission(r) \/ SetOwnerPermision(r) \/ CreditNextOwner(r)
  PROVE  AloneInv'
  <1>0. DeleteAlone(r) /\ InsertAlone(r)
    BY DEF AloneInv
  <1>1. pc[r] \in {"debit", "debitNow", "deleteRow", "deletePermission", "giveOwner", "credit"}
    BY DEF DebitOwner, DebitNow, DeleteFileUser, DeleteFilePermission, SetOwnerPermision,
           CreditNextOwner, Ready
  <1>2. req[r].path \in DeletePaths /\ pc[r] \in DeletePhases[req[r].path]
    BY <1>0, <1>1 DEF InsertAlone, DeleteAlone
  <1>3. /\ UNCHANGED <<fileRow, perm, columns, s3, up, halfShared, crashes, txSt, req>>
        /\ txRow' = txRow \/ pc[r] = "deleteRow"
    BY DEF DebitOwner, DebitNow, DeleteFileUser, DeleteFilePermission, SetOwnerPermision,
           CreditNextOwner, Ready, WriteUsed, dbVars, txVars, bounds, columns
  <1>4. /\ pc[r] \in {"debit", "debitNow"} => pc'[r] = "deleteRow"
        /\ pc[r] = "deleteRow" => /\ pc'[r] = "deletePermission"
                                  /\ txRow' = [txRow EXCEPT ![r][req[r].file] = "deleted"]
        /\ pc[r] = "deletePermission" =>
              pc'[r] = IF req[r].path = "owner" THEN "nextOwner" ELSE "commit"
        /\ pc[r] = "giveOwner" => pc'[r] = AfterOwnership(r)
        /\ pc[r] = "credit" => pc'[r] = "commit"
    BY DEF DebitOwner, DebitNow, DeleteFileUser, DeleteFilePermission, SetOwnerPermision,
           CreditNextOwner, Ready, Goto, TypeInv, TypeOK
  <1>5. pc[r] = "giveOwner" => pc'[r] = "readNextUsed"
    BY <1>2, <1>4 DEF AfterOwnership, DeletePaths
  <1>6. /\ pc'[r] \in DeletePhases[req[r].path]
        /\ pc'[r] \notin {"copies", "isOwner", "panicked"}
        /\ pc[r] # "deleteRow" /\ pc'[r] \in RowIsDeleted => pc[r] \in RowIsDeleted
    BY <1>1, <1>2, <1>4, <1>5 DEF DeletePaths, DeletePhases, RowIsDeleted
  <1>7. txRow' = txRow \/ txRow' = [txRow EXCEPT ![r][req[r].file] = "deleted"]
    BY <1>3, <1>4
  <1>8. pc[r] \notin {"holders", "copies", "isOwner"}
    BY <1>1
  <1>9. pc[r] = "deleteRow" => txRow'[r] = [txRow[r] EXCEPT ![req[r].file] = "deleted"]
    BY <1>4 DEF TypeInv, TypeOK
  <1>10. pc[r] # "deleteRow" => txRow'[r] = txRow[r]
    BY <1>3
  <1> QED BY <1>2, <1>3, <1>6, <1>8, <1>9, <1>10, DeleteGoesOn

(* The object goes with the last live row of its content. *)
LEMMA ObjectDeleted ==
  ASSUME Alone, TypeInv, AloneInv, NEW r \in Reqs, DeleteFileFromS3(r)
  PROVE  AloneInv'
  <1>1. Reqs = {r} /\ pc[r] = "s3Delete" /\ DeleteAlone(r) /\ InsertAlone(r)
    BY OnlyRequest DEF DeleteFileFromS3, AloneInv
  <1>2. req[r].path = "sole"
    BY <1>1 DEF InsertAlone, DeleteAlone, DeletePaths, DeletePhases
  <1>3. /\ UNCHANGED <<fileRow, perm, columns, up, halfShared, crashes, txSt, txRow, req>>
        /\ s3 \ {req[r].cid} \subseteq s3' /\ pc'[r] = "readUsed"
    BY DEF DeleteFileFromS3, Goto, dbVars, txVars, bounds, columns, TypeInv, TypeOK
  <1>4. "readUsed" \in DeletePhases["sole"] /\ "readUsed" \notin RowIsDeleted
    BY DEF DeletePhases, RowIsDeleted
  <1>5. DeleteAlone(r)'
    BY <1>1, <1>2, <1>3, <1>4 DEF DeleteAlone, LiveRows, columns
  <1>6. InsertAlone(r)'
    BY <1>2, <1>3 DEF InsertAlone, DeletePaths
  <1>7. UploadsHaveRows'
    BY <1>3 DEF AloneInv, UploadsHaveRows, columns
  <1>8. ObjectsStay'
    <2> SUFFICES ASSUME NEW f \in FileIds,
                        \/ up[f] = "done" /\ fileRow[f] # "deleted"
                        \/ f <= Len(Preload) /\ fileRow[f] = "live"
                 PROVE  fileCid[f] \in s3' \/ Deleting(f)'
      BY <1>3 DEF ObjectsStay, columns
    <2>1. fileCid[f] \in s3 \/ Deleting(f)
      BY DEF AloneInv, ObjectsStay
    <2>2. fileRow[f] = "live"
      <3>1. \A q \in Reqs : txRow[q][f] # "live"
        BY <1>1, <1>2 DEF DeleteAlone, DeletePaths
      <3>2. fileRow[f] # "absent"
        BY <3>1 DEF AloneInv, UploadsHaveRows
      <3> QED BY <3>2 DEF TypeInv, TypeOK, RowStates
    <2>3. fileCid[f] = req[r].cid => f = req[r].file
      <3>1. f \notin halfShared
        BY IdsAreNumbers, ConstantFacts DEF AloneInv, HalfSharedAlone
      <3> QED BY <1>1, <1>2, <2>2, <3>1 DEF DeleteAlone, DeletePaths, LiveRows
    <2>4. f = req[r].file => Deleting(f)'
      BY <1>2, <1>3 DEF Deleting
    <2>5. Deleting(f) => Deleting(f)'
      BY <1>3 DEF Deleting
    <2> QED BY <1>3, <2>1, <2>3, <2>4, <2>5
  <1>9. \A q \in Reqs : (DeleteAlone(q) /\ InsertAlone(q))'
    BY <1>1, <1>5, <1>6
  <1> QED BY <1>3, <1>7, <1>8, <1>9 DEF AloneInv, HalfSharedAlone, columns

(* A new row, pending or committed. *)
LEMMA RowInserted ==
  ASSUME Alone, TypeInv, TypeInv', RowsInv, AloneInv, NEW r \in Reqs,
         TxCreate(r) \/ CommitSharedCopy(r)
  PROVE  AloneInv'
  <1>1. Reqs = {r} /\ pc[r] = "insert" /\ DeleteAlone(r) /\ InsertAlone(r)
    BY OnlyRequest DEF TxCreate, CommitSharedCopy, AloneInv
  <1>2. req[r].path \notin DeletePaths
    BY <1>1 DEF DeleteAlone, DeletePaths, DeletePhases
  <1>3. /\ nextId \in FileIds /\ nextId' = nextId + 1 /\ nextId \in Nat
        /\ halfShared' = halfShared /\ crashes' = crashes /\ s3' = s3 /\ txSt' = txSt
        /\ \A f \in FileIds \ {nextId} : fileCid'[f] = fileCid[f]
    BY DEF TxCreate, CommitSharedCopy, txVars, bounds, TypeInv, TypeOK
  <1>4. /\ Len(Preload) \in Nat /\ Len(Preload) < nextId
        /\ \A f \in FileIds : f \in Nat
    BY ConstantsAssumption, IdsAreNumbers DEF AloneInv, UploadsHaveRows
  <1>5. fileRow[nextId] = "absent" /\ up[nextId] = "none"
    BY <1>3 DEF TypeInv, RowsKnown, AloneInv, UploadsHaveRows
  <1>6. \A f \in FileIds : txRow[r][f] # "live"
    BY <1>1, <1>2 DEF InsertAlone
  <1>7. CASE TxCreate(r)
    <2>1. /\ req' = req /\ fileRow' = fileRow /\ req[r].path # "share"
          /\ txRow' = [txRow EXCEPT ![r][nextId] = "live"]
          /\ up' = IF req[r].path = "upload" THEN [up EXCEPT ![nextId] = "running"] ELSE up
          /\ pc'[r] = IF req[r].path = "pool" THEN "commit" ELSE "readUsed"
      BY <1>7 DEF TxCreate, Goto, dbVars, TypeInv, TypeOK
    <2>2. \A f \in FileIds : txRow'[r][f] = "live" <=> f = nextId
      BY <1>3, <1>6, <2>1 DEF TypeInv, TypeOK
    <2>3. \A f \in FileIds : up'[f] = up[f] \/ (f = nextId /\ up'[f] = "running")
      BY <1>3, <2>1 DEF TypeInv, TypeOK
    <2>5. txSt[r] = "open"
      BY <1>1, <1>2 DEF InsertAlone
    <2>6. InsertAlone(r)'
      BY <1>1, <1>2, <1>3, <2>1, <2>2, <2>5 DEF InsertAlone
    <2>7. DeleteAlone(r)'
      BY <1>2, <2>1 DEF DeleteAlone
    <2>8. UploadsHaveRows'
      BY <1>1, <1>3, <1>4, <2>1, <2>2, <2>3 DEF AloneInv, UploadsHaveRows
    <2>9. ObjectsStay'
      BY <1>3, <1>4, <1>5, <2>1, <2>3 DEF AloneInv, ObjectsStay, Deleting
    <2>10. HalfSharedAlone'
      <3>1. halfShared \subseteq FileIds /\ nextId \notin halfShared
        BY <1>3 DEF TypeInv, TypeOK, AloneInv, HalfSharedAlone
      <3> QED BY <1>3, <1>4, <2>3, <3>1 DEF AloneInv, HalfSharedAlone
    <2> QED BY <1>1, <1>3, <2>6, <2>7, <2>8, <2>9, <2>10 DEF AloneInv
  <1>8. CASE CommitSharedCopy(r)
    <2>1. /\ req' = [req EXCEPT ![r].next = nextId] /\ req[r].path = "share"
          /\ fileRow' = [fileRow EXCEPT ![nextId] = "live"]
          /\ txRow' = txRow /\ up' = up /\ pc'[r] = "relate"
      BY <1>8 DEF CommitSharedCopy, Goto, txVars, TypeInv, TypeOK
    <2>2. req'[r].path = "share" /\ req'[r].next = nextId
      BY <2>1 DEF TypeInv, TypeOK, Request
    <2>3. \A f \in FileIds \ {nextId} : fileRow'[f] = fileRow[f]
      BY <2>1 DEF TypeInv, TypeOK
    <2>4. fileRow'[nextId] = "live"
      BY <1>3, <2>1 DEF TypeInv, TypeOK
    <2>5. InsertAlone(r)'
      BY <1>4, <1>5, <1>6, <2>1, <2>2 DEF InsertAlone
    <2>6. DeleteAlone(r)'
      BY <2>2 DEF DeleteAlone, DeletePaths
    <2>7. UploadsHaveRows'
      BY <1>3, <1>4, <2>1, <2>3, <2>4 DEF AloneInv, UploadsHaveRows
    <2>9. ObjectsStay'
      BY <1>1, <1>3, <1>4, <1>5, <2>1, <2>3 DEF AloneInv, ObjectsStay, Deleting
    <2>10. HalfSharedAlone'
      <3>1. halfShared \subseteq FileIds
        BY DEF TypeInv, TypeOK
      <3> QED BY <1>3, <1>4, <2>1, <3>1 DEF AloneInv, HalfSharedAlone
    <2> QED BY <1>1, <1>3, <2>5, <2>6, <2>7, <2>9, <2>10 DEF AloneInv
  <1> QED BY <1>7, <1>8

(* A request is over: what it has pending is published or gone. *)
LEMMA RequestOver ==
  ASSUME Alone, TypeInv, RowsInv, AloneInv, NEW r \in Reqs,
         UNCHANGED <<columns, s3, up, crashes>>,
         halfShared' = halfShared \/ HalfSharedAlone',
         pc'[r] = "idle", req'[r] = NoRequest, txRow'[r] = NoRows,
         \/ /\ fileRow' = fileRow /\ req[r].path \notin DeletePaths
            /\ \A f \in FileIds : txRow[r][f] # "live"
         \/ /\ pc[r] = "commit" /\ txSt[r] = "open"
            /\ fileRow' = [f \in FileIds |-> IF txRow[r][f] = None THEN fileRow[f]
                                                                   ELSE txRow[r][f]]
  PROVE  AloneInv'
  <1>1. Reqs = {r} /\ DeleteAlone(r) /\ InsertAlone(r) /\ InsertsBoth(r)
    BY OnlyRequest DEF AloneInv, RowsInv
  <1>2. /\ fileRow \in [FileIds -> RowStates]
        /\ txRow[r] \in [FileIds -> {None, "live", "deleted"}]
        /\ \A f \in FileIds : txRow'[r][f] # "live"
    BY DEF TypeInv, TypeOK, NoRows, None
  <1>3. \A f \in FileIds :
           \/ fileRow'[f] = fileRow[f] /\ txRow[r][f] = None
           \/ fileRow'[f] = "live" /\ txRow[r][f] = "live" /\ fileRow[f] = "absent"
           \/ fileRow'[f] = "deleted"
           \/ fileRow'[f] = fileRow[f] /\ txRow[r][f] # "live" /\ req[r].path \notin DeletePaths
    BY <1>1, <1>2 DEF InsertsBoth
  <1>4. req'[r].path = "none"
    BY DEF NoRequest
  <1>5. DeleteAlone(r)' /\ InsertAlone(r)'
    BY <1>2, <1>4 DEF DeleteAlone, InsertAlone, DeletePaths
  <1>6. UploadsHaveRows'
    <2> SUFFICES ASSUME NEW f \in FileIds
                 PROVE  /\ f <= Len(Preload) => fileRow'[f] # "absent"
                        /\ ~(fileRow'[f] = "absent" /\ up[f] \in {"running", "done"})
      BY <1>1 DEF AloneInv, UploadsHaveRows, columns
    <2>1. /\ f <= Len(Preload) => fileRow[f] # "absent"
          /\ fileRow[f] = "absent" /\ up[f] \in {"running", "done"} => txRow[r][f] = "live"
      BY <1>1 DEF AloneInv, UploadsHaveRows
    <2> QED BY <1>3, <2>1 DEF None
  <1>7. ObjectsStay'
    <2> SUFFICES ASSUME NEW f \in FileIds, fileRow'[f] # "deleted",
                        \/ up[f] = "done"
                        \/ f <= Len(Preload) /\ fileRow'[f] = "live"
                 PROVE  fileCid[f] \in s3
      BY DEF ObjectsStay, columns
    <2>1. f <= Len(Preload) => fileRow[f] # "absent"
      BY <1>1 DEF AloneInv, UploadsHaveRows
    <2>2. fileCid[f] \in s3 \/ Deleting(f)
      BY <1>3, <2>1 DEF AloneInv, ObjectsStay
    <2>3. Deleting(f) => fileRow'[f] = "deleted"
      <3>1. ASSUME Deleting(f) PROVE req[r].path \in DeletePaths /\ req[r].file = f
        BY <1>1, <3>1 DEF Deleting, DeletePaths, InsertAlone
      <3>2. ASSUME Deleting(f) PROVE txRow[r][f] = "deleted" /\ pc[r] = "commit"
        BY <1>1, <3>1, <3>2 DEF DeleteAlone, RowIsDeleted
      <3> QED BY <1>2, <3>1, <3>2 DEF None
    <2> QED BY <2>2, <2>3
  <1>8. \A q \in Reqs : (DeleteAlone(q) /\ InsertAlone(q))'
    BY <1>1, <1>5
  <1>9. HalfSharedAlone'
    BY DEF AloneInv, HalfSharedAlone, columns
  <1> QED BY <1>6, <1>7, <1>8, <1>9 DEF AloneInv

(* The steps with which a request ends, or goes on after one of its writes. *)
LEMMA EndsOfRequests ==
  ASSUME Alone, TypeInv, RowsInv, AloneInv, NEW r \in Reqs,
         \/ CommitSharedRelation(r) \/ SharedRelationFails(r)
         \/ Charge(r) \/ Commit(r) \/ StatementFails(r)
         \/ StatementFailsUnnoticed(r) \/ DeadlockVictim(r)
  PROVE  AloneInv'
  <1>0. /\ Reqs = {r} /\ DeleteAlone(r) /\ InsertAlone(r)
        /\ pc \in [Reqs -> Phases] /\ req \in [Reqs -> Request]
        /\ DOMAIN txRow = Reqs
    BY OnlyRequest DEF AloneInv, TypeInv, TypeOK
  <1>1. req[r].path \in DeletePaths => pc[r] \in DeletePhases[req[r].path] /\ txSt[r] = "open"
    BY <1>0 DEF DeleteAlone
  <1>2. Return(r) => pc'[r] = "idle" /\ req'[r] = NoRequest /\ txRow'[r] = NoRows
    BY <1>0 DEF Return, Goto, Discard
  <1>3. CASE CommitSharedRelation(r)
    <2>1. /\ pc[r] = "relate" /\ Return(r) /\ fileRow' = fileRow
          /\ UNCHANGED <<columns, s3, up, halfShared, crashes>>
      BY <1>3 DEF CommitSharedRelation, bounds
    <2>2. req[r].path \notin DeletePaths
      BY <1>1, <2>1 DEF DeletePaths, DeletePhases
    <2>3. \A f \in FileIds : txRow[r][f] # "live"
      BY <1>0, <2>1, <2>2 DEF InsertAlone
    <2> QED BY <1>2, <2>1, <2>2, <2>3, RequestOver
  <1>9. CASE SharedRelationFails(r)
    <2>1. /\ pc[r] = "relate" /\ Return(r) /\ fileRow' = fileRow
          /\ UNCHANGED <<columns, s3, up, crashes>>
          /\ halfShared' = halfShared \cup {req[r].next}
      BY <1>9 DEF SharedRelationFails, dbVars
    <2>2. req[r].path \notin DeletePaths
      BY <1>1, <2>1 DEF DeletePaths, DeletePhases
    <2>3. /\ \A f \in FileIds : txRow[r][f] # "live"
          /\ up[req[r].next] = "none" /\ Len(Preload) < req[r].next
      BY <1>0, <2>1, <2>2 DEF InsertAlone
    <2>4. req[r].next < nextId
      BY DEF TypeInv, NextKnown
    <2>5. HalfSharedAlone'
      BY <2>1, <2>3, <2>4 DEF AloneInv, HalfSharedAlone, columns
    <2> QED BY <1>2, <2>1, <2>2, <2>3, <2>5, RequestOver
  <1>4. CASE Charge(r)
    <2>1. /\ pc[r] = "charge" /\ pc'[r] = "commit"
          /\ UNCHANGED <<fileRow, perm, columns, s3, up, halfShared, crashes, txRow, txSt, req>>
      BY <1>0, <1>4 DEF Charge, Ready, WriteUsed, Goto, dbVars, bounds
    <2>2. req[r].path \notin DeletePaths
      BY <1>1, <2>1 DEF DeletePaths, DeletePhases
    <2>3. DeleteAlone(r)'
      BY <2>1, <2>2 DEF DeleteAlone
    <2>4. InsertAlone(r)'
      BY <1>0, <2>1, <2>2 DEF InsertAlone
    <2>5. Deleting(req[r].file) => Deleting(req[r].file)'
      BY <2>1 DEF Deleting
    <2> QED BY <2>1, <2>3, <2>4, <2>5, TablesKept
  <1>5. CASE Commit(r)
    <2>1. /\ pc[r] = "commit" /\ Return(r) /\ UNCHANGED <<columns, s3, up, halfShared, crashes>>
          /\ \/ txSt[r] = "open" /\ Publish(r)
             \/ txSt[r] # "open" /\ fileRow' = fileRow
      BY <1>5 DEF Commit, dbVars, bounds
    <2>2. CASE txSt[r] = "open"
      BY <1>2, <2>1, <2>2, RequestOver DEF Publish
    <2>3. CASE txSt[r] # "open"
      <3>1. req[r].path \notin DeletePaths
        BY <1>1, <2>3
      <3>2. \A f \in FileIds : txRow[r][f] # "live"
        BY <1>0, <2>3, <3>1 DEF InsertAlone
      <3> QED BY <1>2, <2>1, <2>3, <3>1, <3>2, RequestOver
    <2> QED BY <2>2, <2>3
  <1>6. CASE StatementFails(r)
    <2>1. /\ txSt[r] # "open" /\ Return(r) /\ fileRow' = fileRow
          /\ UNCHANGED <<columns, s3, up, halfShared, crashes>>
      BY <1>6 DEF StatementFails, dbVars, bounds
    <2>2. req[r].path \notin DeletePaths
      BY <1>1, <2>1
    <2>3. \A f \in FileIds : txRow[r][f] # "live"
      BY <1>0, <2>1, <2>2 DEF InsertAlone
    <2> QED BY <1>2, <2>1, <2>2, <2>3, RequestOver
  <1>7. ~StatementFailsUnnoticed(r)
    <2> SUFFICES ASSUME pc[r] \in {"debit", "giveOwner", "credit"}, txSt[r] # "open"
                 PROVE  FALSE
      BY DEF StatementFailsUnnoticed
    <2>1. req[r].path \notin DeletePaths
      BY <1>1
    <2> QED BY <1>0, <2>1 DEF InsertAlone
  <1>8. ~DeadlockVictim(r)
    <2> SUFFICES ASSUME NEW S \in SUBSET Reqs, r \in S,
                        \A a \in S : /\ pc[a] \notin Autocommit
                                     /\ \E b \in S : BlockedBy(a, b)
                 PROVE  FALSE
      BY DEF DeadlockVictim, InDeadlock
    <2>1. BlockedBy(r, r) /\ pc[r] \notin Autocommit
      BY <1>0
    <2> QED BY <2>1 DEF BlockedBy, Autocommit
  <1> QED BY <1>3, <1>4, <1>5, <1>6, <1>7, <1>8, <1>9

(* A call begins with nothing pending, and a delete with a row that is there. *)
LEMMA CallsAlone ==
  ASSUME Alone, TypeInv, RowsInv, AloneInv, NEW r \in Reqs, Calls(r)
  PROVE  AloneInv'
  <1>1. PICK route \in Routes, p \in Phases, q \in Request :
           Call(r, route, p, q) /\ NewRequest(p, q)
    BY CallsMakeRequests
  <1>2. /\ Reqs = {r} /\ DeleteAlone(r) /\ InsertAlone(r) /\ pc[r] = "idle"
        /\ req'[r] = q /\ pc'[r] = p /\ txSt'[r] = "open"
        /\ UNCHANGED <<fileRow, perm, columns, s3, up, halfShared, crashes, txRow>>
    BY <1>1, OnlyRequest DEF Call, Goto, dbVars, AloneInv, TypeInv, TypeOK
  <1>3. req[r].path = "none" /\ \A f \in FileIds : txRow[r][f] # "live"
    <2>1. req[r].path \notin DeletePaths
      BY <1>2 DEF DeleteAlone, DeletePaths, DeletePhases
    <2> QED BY <1>2, <2>1 DEF InsertAlone
  <1>4. /\ q.path = "delete" => /\ p = "holders" /\ q.file \in FileIds
                                /\ fileRow[q.file] = "live" /\ fileCid[q.file] = q.cid
        /\ q.path # "delete" => /\ p \in {"insert", "head", "poolHead"}
                                /\ q.path \in {"upload", "create", "pool", "share"}
    BY <1>1, ConstantFacts DEF NewRequest, Routes, NoFile
  <1>5. DeleteAlone(r)'
    <2>1. "holders" \in DeletePhases["delete"] /\ "holders" \notin RowIsDeleted
      BY DEF DeletePhases, RowIsDeleted
    <2>2. q.path \in DeletePaths => q.path = "delete"
      BY <1>4 DEF DeletePaths
    <2> QED BY <1>2, <1>3, <1>4, <2>1, <2>2 DEF DeleteAlone, columns
  <1>6. InsertAlone(r)'
    BY <1>2, <1>3, <1>4 DEF InsertAlone, DeletePaths
  <1>7. UploadsHaveRows'
    BY <1>2 DEF AloneInv, UploadsHaveRows, columns
  <1>8. ObjectsStay'
    <2>1. \A f \in FileIds : ~Deleting(f)
      BY <1>2, <1>3 DEF Deleting
    <2> QED BY <1>2, <2>1 DEF AloneInv, ObjectsStay, columns
  <1> QED BY <1>2, <1>5, <1>6, <1>7, <1>8 DEF AloneInv, HalfSharedAlone, columns

(* An upload ends; if it fails, it takes the transaction along that inserts its row. *)
LEMMA UploadsAlone ==
  ASSUME Alone, TypeInv, AloneInv, NEW f \in FileIds, UploadDone(f) \/ UploadFail(f)
  PROVE  AloneInv'
  <1>1. /\ UNCHANGED <<fileRow, perm, columns, halfShared, crashes, pc, req>>
        /\ up[f] = "running" /\ s3 \subseteq s3'
        /\ up' \in {[up EXCEPT ![f] = "done"], [up EXCEPT ![f] = "failed"]}
        /\ up' = [up EXCEPT ![f] = "done"] => fileCid[f] \in s3' /\ UNCHANGED txVars
    <2>1. CASE UploadDone(f)
      BY <2>1 DEF UploadDone, dbVars, bounds
    <2>2. CASE UploadFail(f)
      <3>1. up \in [FileIds -> {"none", "running", "done", "failed"}]
        BY DEF TypeInv, TypeOK
      <3>2. /\ up[f] = "running" /\ up' = [up EXCEPT ![f] = "failed"]
            /\ UNCHANGED <<fileRow, perm, columns, halfShared, crashes, pc, req, s3>>
        BY <2>2 DEF UploadFail, dbVars, bounds
      <3>3. up' # [up EXCEPT ![f] = "done"]
        BY <3>1, <3>2
      <3> QED BY <3>2, <3>3
    <2> QED BY <2>1, <2>2
  <1>2. up \in [FileIds -> {"none", "running", "done", "failed"}]
    BY DEF TypeInv, TypeOK
  <1>3. /\ \A g \in FileIds \ {f} : up'[g] = up[g]
        /\ up'[f] \in {"done", "failed"} /\ up'[f] = "done" => fileCid[f] \in s3'
    BY <1>1, <1>2
  <1>4. \/ txRow' = txRow /\ txSt' = txSt
        \/ \E r \in Reqs : /\ txRow[r][f] = "live" /\ up'[f] = "failed"
                           /\ txRow'[r] = NoRows
    <2>1. CASE UploadDone(f)
      BY <2>1 DEF UploadDone, txVars
    <2>2. CASE UploadFail(f)
      <3>1. up'[f] = "failed"
        BY <1>2, <2>2 DEF UploadFail
      <3> QED BY <2>2, <3>1 DEF UploadFail, Discard, txVars, TypeInv, TypeOK
    <2> QED BY <2>1, <2>2
  <1>5. ASSUME NEW r \in Reqs PROVE DeleteAlone(r)' /\ InsertAlone(r)'
    <2>0. Reqs = {r} /\ DeleteAlone(r) /\ InsertAlone(r)
      BY OnlyRequest DEF AloneInv
    <2>1. \/ txRow' = txRow /\ txSt' = txSt
          \/ /\ \A g \in FileIds : txRow'[r][g] # "live"
             /\ txRow[r][f] = "live"
      BY <1>4, <2>0 DEF NoRows, None
    <2>2. DeleteAlone(r)'
      BY <1>1, <2>0, <2>1 DEF DeleteAlone, Holders, LiveRows, HalfSharedCopy, columns
    <2>3. up'[req[r].next] = "none" \/ pc[r] # "relate" \/ req[r].path \in DeletePaths
      <3>1. ASSUME pc[r] = "relate", req[r].path \notin DeletePaths
            PROVE  up'[req[r].next] = "none"
        <4>1. up[req[r].next] = "none" /\ req[r].next \in FileIds
          BY <2>0, <3>1 DEF InsertAlone, TypeInv, NextKnown
        <4> QED BY <1>1, <1>3, <4>1
      <3> QED BY <3>1
    <2>4. InsertAlone(r)'
      BY <1>1, <2>0, <2>1, <2>3 DEF InsertAlone
    <2> QED BY <2>2, <2>4
  <1>6. UploadsHaveRows'
    <2>1. ASSUME NEW g \in FileIds PROVE nextId <= g => up'[g] = "none"
      BY <1>1, <1>3 DEF AloneInv, UploadsHaveRows
    <2>2. ASSUME NEW g \in FileIds, fileRow[g] = "absent", up'[g] \in {"running", "done"}
          PROVE  \E r \in Reqs : txRow'[r][g] = "live"
      <3>1. PICK r \in Reqs : txRow[r][g] = "live"
        BY <1>1, <1>3, <2>2 DEF AloneInv, UploadsHaveRows
      <3>2. CASE txRow' = txRow
        BY <3>1, <3>2
      <3>3. CASE txRow' # txRow
        <4>1. txRow[r][f] = "live" /\ up'[f] = "failed"
          BY <1>4, <3>3, OnlyRequest
        <4>2. InsertAlone(r) /\ DeleteAlone(r)
          BY DEF AloneInv
        <4>3. g = f
          BY <3>1, <4>1, <4>2 DEF InsertAlone, DeleteAlone
        <4> QED BY <2>2, <4>1, <4>3
      <3> QED BY <3>2, <3>3
    <2> QED BY <1>1, <2>1, <2>2 DEF AloneInv, UploadsHaveRows, columns
  <1>7. ObjectsStay'
    <2>1. \A g \in FileIds : Deleting(g) <=> Deleting(g)'
      BY <1>1 DEF Deleting
    <2> QED BY <1>1, <1>3, <2>1 DEF AloneInv, ObjectsStay, columns
  <1>8. HalfSharedAlone'
    <2>1. halfShared \subseteq FileIds /\ f \notin halfShared
      BY <1>1 DEF TypeInv, TypeOK, AloneInv, HalfSharedAlone
    <2> QED BY <1>1, <1>3, <2>1 DEF AloneInv, HalfSharedAlone, columns
  <1> QED BY <1>1, <1>5, <1>6, <1>7, <1>8 DEF AloneInv

(* Nothing is in flight at the start. *)
LEMMA InitAlone == Init => AloneInv
  <1> SUFFICES ASSUME Init PROVE AloneInv
    OBVIOUS
  <1>1. NoRequest.path = "none"
    BY DEF NoRequest
  <1>2. \A r \in Reqs : /\ req[r].path = "none" /\ pc[r] = "idle"
                        /\ \A f \in FileIds : txRow[r][f] = None
    BY <1>1 DEF Init, NoRows
  <1>3. \A r \in Reqs : DeleteAlone(r) /\ InsertAlone(r)
    BY <1>2 DEF DeleteAlone, InsertAlone, DeletePaths, None
  <1>4. /\ Len(Preload) \in Nat /\ nextId = Len(Preload) + 1 /\ crashes = 0
        /\ \A f \in FileIds : up[f] = "none"
        /\ \A f \in FileIds : f <= Len(Preload) => fileRow[f] = "live"
    BY ConstantFacts DEF Init
  <1>5. UploadsHaveRows
    BY <1>4 DEF UploadsHaveRows
  <1>6. \A f \in FileIds : f <= Len(Preload) => fileCid[f] \in s3
    <2> TAKE f \in FileIds
    <2> HAVE f <= Len(Preload)
    <2>1. f \in 1..Len(Preload) /\ DOMAIN Preload = 1..Len(Preload)
      BY IdsAreNumbers, <1>4, ConstantsAssumption
    <2> QED BY <2>1 DEF Init
  <1>7. ObjectsStay
    BY <1>4, <1>6 DEF ObjectsStay
  <1>8. HalfSharedAlone
    BY DEF Init, HalfSharedAlone
  <1> QED BY <1>3, <1>4, <1>5, <1>7, <1>8 DEF AloneInv

(* While requests come one after the other, nothing takes away what one has found out
   or an object that a row needs. *)
LEMMA AloneInvHolds == ASSUME Alone PROVE Spec => []AloneInv
  <1>1. TypeInv /\ TypeInv' /\ RowsInv /\ AloneInv /\ [Next]_vars => AloneInv'
    <2> SUFFICES ASSUME TypeInv, TypeInv', RowsInv, AloneInv, [Next]_vars
                 PROVE  AloneInv'
      OBVIOUS
    <2>1. CASE UNCHANGED vars
      <3>1. /\ UNCHANGED <<fileRow, perm, s3, fileCid, nextId, pc, req, txSt, txRow, up,
                           halfShared, crashes>>
        BY <2>1 DEF vars
      <3>2. \A r \in Reqs : DeleteAlone(r)'
        <4>1. \A c : /\ Holders(c)' = Holders(c) /\ LiveRows(c)' = LiveRows(c)
                     /\ HalfSharedCopy(c)' <=> HalfSharedCopy(c)
          BY <3>1 DEF HalfSharedCopy, Holders, LiveRows
        <4>2. ASSUME NEW r \in Reqs, DeleteAlone(r) PROVE DeleteAlone(r)'
          BY <3>1, <4>1, <4>2 DEF DeleteAlone
        <4> QED BY <4>2 DEF AloneInv
      <3>3. \A r \in Reqs : InsertAlone(r)'
        BY <2>1, <3>1 DEF AloneInv, InsertAlone
      <3>4. UploadsHaveRows' /\ HalfSharedAlone'
        BY <2>1, <3>1 DEF AloneInv, UploadsHaveRows, HalfSharedAlone
      <3>5. ObjectsStay'
        BY <2>1, <3>1 DEF AloneInv, ObjectsStay, Deleting
      <3> QED BY <2>1, <3>1, <3>2, <3>3, <3>4, <3>5 DEF AloneInv
    <2>2. ASSUME NEW r \in Reqs, Step(r) PROVE AloneInv'
      BY <2>2, DeleteReads, OtherReads, DeleteWrites, ObjectDeleted, RowInserted,
         EndsOfRequests DEF Step
    <2>3. ~Crash
      BY DEF Alone, AloneInv, Crash
    <2> QED BY <2>1, <2>2, <2>3, CallsAlone, UploadsAlone DEF Next
  <1> QED BY <1>1, InitAlone, TypeInvHolds, RowsInvHolds, PTL DEF Spec

(* While requests come one after the other (Alone), a delete never removes the object
   of a file that a user still has, and looks in vain for a next owner only where a
   failed share has left a copy of the content without a user, whatever uploads,
   copies and shares there have been (DeletesAreSafe).  *)
THEOREM DeletesKeepWhatOthersHave ==
  ASSUME Alone
  PROVE  Spec => []DeletesAreSafe
  <1>1. TypeInv /\ AloneInv => DeletesAreSafe
    <2> SUFFICES ASSUME TypeInv, AloneInv PROVE DeletesAreSafe
      OBVIOUS
    <2>1. UploadedFilesKeepObject
      BY DEF AloneInv, ObjectsStay, UploadedFilesKeepObject
    <2>2. ASSUME NEW r \in Reqs, pc[r] = "panicked" PROVE HalfSharedCopy(req[r].cid)
      BY <2>2 DEF AloneInv, DeleteAlone, InsertAlone
    <2> QED BY <2>1, <2>2 DEF DeletesAreSafe
  <1> QED BY <1>1, TypeInvHolds, AloneInvHolds, PTL

-----------------------------------------------------------------------------
(* The account of a user                                                   *)

(* At the start nobody has been charged for more than there is. *)
NothingOwed ==
    \A u \in Users :
        PreStorage[u] <= SumFunctionOnSet([f \in DOMAIN Preload |-> SizeOf[Preload[f].cid]],
                                          {f \in DOMAIN Preload : Preload[f].user = u})

Charging == {"readUsed", "charge", "commit"}

(* The row that a request has just inserted, and that is not yet charged or, from the
   pool, not yet there. *)
NewRow(r, f) ==
    /\ f = nextId - 1
    /\ \/ pc[r] \in {"readUsed", "charge"} /\ req[r].path \in {"upload", "create"}
       \/ pc[r] = "commit" /\ req[r].path = "pool" /\ txRow[r][f] = "live"

Uncharged == {f \in FileIds : \E r \in Reqs : NewRow(r, f)}

(* The file that a delete has taken from storage_used, but not yet deleted. *)
TakenOff(r, f) == /\ req[r].path = "sole" /\ req[r].file = f
                  /\ pc[r] \in {"deleteRow", "deletePermission", "commit"}

Debited == {f \in FileIds : \E r \in Reqs : TakenOff(r, f)}

(* A user was never charged for more than all of the rows, and if for all of them, then
   storage_used is what is there. *)
Balanced(u) ==
    /\ charged[u] <= Size(RowsOf(u) \ Uncharged)
    /\ charged[u] = Size(RowsOf(u) \ Uncharged) =>
          storage[u] = Size(LiveRowsOf(u) \ Debited)

(* An upload or a creation will add the size of its row to what it has read. *)
ChargeAlone(r) ==
    req[r].path \in {"upload", "create"} /\ pc[r] \in Charging =>
        LET f == nextId - 1 IN
        /\ f \in FileIds /\ fileCid[f] = req[r].cid /\ fileUser[f] = req[r].user
        /\ fileRow[f] = "absent"
        /\ pc[r] # "readUsed" => req[r].used = storage[req[r].user]
        /\ txSt[r] = "open" =>
              /\ txRow[r][f] = "live"
              /\ pc[r] = "commit" =>
                    txUsed[r] = [NoUsed EXCEPT ![req[r].user] =
                                    req[r].used + SizeOf[req[r].cid]]

(* A delete takes the size of its file from what it has read. *)
DebitAlone(r) ==
    req[r].path \in {"delete", "sole"} /\ pc[r] = "debitNow" =>
        req[r].used = storage[req[r].user]

(* No row but these is written, and the storage of nobody else. *)
WritesAlone(r) ==
    /\ \A f \in FileIds : txRow[r][f] # None =>
          \/ /\ f = nextId - 1 /\ txRow[r][f] = "live"
             /\ req[r].path \in {"upload", "create", "pool"}
             /\ req[r].path = "pool" => pc[r] = "commit" /\ up[f] = "none"
          \/ req[r].path = "sole" /\ f = req[r].file
    /\ txUsed[r] # NoUsed => req[r].path \in {"upload", "create"} /\ pc[r] = "commit"
    /\ pc[r] = "poolHead" => req[r].path = "pool"

(* With contents that all differ, a delete is of the only row. *)
BooksOf(r) == /\ req[r].path \notin {"owner", "own", "shared"}
              /\ ChargeAlone(r) /\ DebitAlone(r) /\ WritesAlone(r)

(* Contents all differ, and each delete, over or in flight, is by the row's user.  *)
OwnRows == /\ NoCopies /\ OwnDeletes
           /\ \A r \in Reqs : req[r].path \in {"delete", "sole"} => Related(r)

(* As long as that is so, the account of each user is balanced.  *)
BooksInv == OwnRows => /\ \A u \in Users : Balanced(u)
                       /\ \A r \in Reqs : BooksOf(r)

(* There are finitely many rows. *)
LEMMA FileIdsAreFinite == IsFiniteSet(FileIds)
  <1>1. Len(Preload) + MaxRequests \in Int
    BY ConstantFacts, ConstantsAssumption
  <1> QED BY <1>1, FS_Interval DEF FileIds

(* The sizes of some files add up to a number, in whichever order. *)
LEMMA SizesAddUp ==
  ASSUME TypeInv, NEW S \in SUBSET FileIds
  PROVE  /\ IsFiniteSet(S) /\ Size(S) \in Nat
         /\ \A f \in S : Size(S) = SizeOf[fileCid[f]] + Size(S \ {f})
  <1> DEFINE sizes == [f \in FileIds |-> SizeOf[fileCid[f]]]
  <1>1. IsFiniteSet(FileIds)
    BY FileIdsAreFinite
  <1>2. IsFiniteSet(S)
    BY <1>1, FS_Subset
  <1>3. \A f \in S : sizes[f] = SizeOf[fileCid[f]] /\ sizes[f] \in Nat
    BY ConstantsAssumption DEF TypeInv, TypeOK
  <1>4. Size(S) \in Nat
    <2> HIDE DEF sizes
    <2>1. SumFunctionOnSet(sizes, S) \in Nat
      BY <1>2, <1>3, SumIsNatural
    <2> QED BY <2>1 DEF Size, sizes
  <1>5. ASSUME NEW f \in S PROVE Size(S) = SizeOf[fileCid[f]] + Size(S \ {f})
    <2> HIDE DEF sizes
    <2>1. SumFunctionOnSet(sizes, S) = sizes[f] + SumFunctionOnSet(sizes, S \ {f})
      BY <1>2, <1>3, SumWithout
    <2>2. Size(S) = SumFunctionOnSet(sizes, S) /\ Size(S \ {f}) = SumFunctionOnSet(sizes, S \ {f})
      BY DEF Size, sizes
    <2> QED BY <1>3, <2>1, <2>2
  <1> QED BY <1>2, <1>4, <1>5

(* Rows that come later do not change it. *)
LEMMA SizeStays ==
  ASSUME NEW S \in SUBSET FileIds, \A f \in S : fileCid'[f] = fileCid[f]
  PROVE  SumFunctionOnSet([f \in FileIds |-> SizeOf[fileCid'[f]]], S) = Size(S)
  <1> DEFINE sizes == [f \in FileIds |-> SizeOf[fileCid[f]]]
             after == [f \in FileIds |-> SizeOf[fileCid'[f]]]
  <1>1. IsFiniteSet(FileIds)
    BY FileIdsAreFinite
  <1>2. IsFiniteSet(S)
    BY <1>1, FS_Subset
  <1>3. \A f \in S : after[f] = sizes[f]
    OBVIOUS
  <1>4. SumFunctionOnSet(after, S) = SumFunctionOnSet(sizes, S)
    <2> HIDE DEF sizes, after
    <2> QED BY <1>2, <1>3, SumOfSame
  <1> QED BY <1>4 DEF Size

(* The same of the files that a step adds to. *)
LEMMA SizeGrows ==
  ASSUME TypeInv', NEW S \in SUBSET FileIds, NEW n \in FileIds \ S,
         \A f \in S : fileCid'[f] = fileCid[f]
  PROVE  SumFunctionOnSet([f \in FileIds |-> SizeOf[fileCid'[f]]], S \cup {n})
           = SizeOf[fileCid'[n]] + Size(S)
  <1> DEFINE after == [f \in FileIds |-> SizeOf[fileCid'[f]]]
             T == S \cup {n}
  <1>1. IsFiniteSet(FileIds)
    BY FileIdsAreFinite
  <1>2. IsFiniteSet(T) /\ T \ {n} = S /\ n \in T
    BY <1>1, FS_Subset
  <1>3. \A f \in FileIds : after[f] \in Nat
    BY ConstantsAssumption DEF TypeInv, TypeOK
  <1>4. after[n] = SizeOf[fileCid'[n]]
    OBVIOUS
  <1>5. SumFunctionOnSet(after, T) = after[n] + SumFunctionOnSet(after, T \ {n})
    <2> HIDE DEF after
    <2>1. \A f \in T : after[f] \in Nat
      BY <1>3
    <2> HIDE DEF T
    <2> QED BY <1>2, <2>1, SumWithout
  <1>6. SumFunctionOnSet(after, S) = Size(S)
    BY SizeStays
  <1> QED BY <1>2, <1>4, <1>5, <1>6

(* The files that a user is charged for, and those in storage_used. *)
LEMMA AccountFiles ==
  ASSUME TypeInv, NEW u \in Users
  PROVE  /\ RowsOf(u) \ Uncharged \in SUBSET FileIds
         /\ LiveRowsOf(u) \ Debited \in SUBSET FileIds
         /\ \A f \in LiveRowsOf(u) : f \in RowsOf(u)
         /\ Size(RowsOf(u) \ Uncharged) \in Nat /\ Size(LiveRowsOf(u) \ Debited) \in Nat
         /\ charged[u] \in Nat /\ storage[u] \in Nat
  <1>1. /\ RowsOf(u) \ Uncharged \in SUBSET FileIds
        /\ LiveRowsOf(u) \ Debited \in SUBSET FileIds
        /\ \A f \in LiveRowsOf(u) : f \in RowsOf(u)
    BY DEF RowsOf, LiveRowsOf, Inserted
  <1> QED BY <1>1, SizesAddUp DEF TypeInv, TypeOK

(* An account stays balanced if its files stay, ... *)
LEMMA BalancedStays ==
  ASSUME TypeInv, NEW u \in Users, Balanced(u),
         charged'[u] = charged[u], storage'[u] = storage[u],
         \A f \in RowsOf(u) : fileCid'[f] = fileCid[f],
         (RowsOf(u) \ Uncharged)' = RowsOf(u) \ Uncharged,
         (LiveRowsOf(u) \ Debited)' = LiveRowsOf(u) \ Debited
  PROVE  Balanced(u)'
  <1> DEFINE R == RowsOf(u) \ Uncharged
             L == LiveRowsOf(u) \ Debited
             sizes == [f \in FileIds |-> SizeOf[fileCid'[f]]]
  <1>1. /\ R \in SUBSET FileIds /\ \A f \in R : fileCid'[f] = fileCid[f]
        /\ L \in SUBSET FileIds /\ \A f \in L : fileCid'[f] = fileCid[f]
    BY AccountFiles
  <1>2. SumFunctionOnSet(sizes, R) = Size(R) /\ SumFunctionOnSet(sizes, L) = Size(L)
    <2> HIDE DEF R, L
    <2> QED BY <1>1, SizeStays
  <1>3. Size(R)' = Size(R) /\ Size(L)' = Size(L)
    <2>1. R' = R /\ L' = L
      OBVIOUS
    <2> HIDE DEF R, L
    <2> QED BY <1>2, <2>1 DEF Size
  <1> QED BY <1>3 DEF Balanced

(* ... if a row is added that it is not charged for, or if it is charged, ... *)
LEMMA BalancedGrows ==
  ASSUME TypeInv, TypeInv', NEW u \in Users, Balanced(u),
         NEW n \in FileIds, n \notin RowsOf(u) \ Uncharged,
         \A f \in RowsOf(u) : f # n => fileCid'[f] = fileCid[f],
         storage'[u] = storage[u],
         (RowsOf(u) \ Uncharged)' = (RowsOf(u) \ Uncharged) \cup {n},
         n \notin LiveRowsOf(u) \ Debited,
         \/ /\ charged'[u] = charged[u]
            /\ (LiveRowsOf(u) \ Debited)' = (LiveRowsOf(u) \ Debited) \cup {n}
         \/ /\ charged'[u] = charged[u] \/ charged'[u] = charged[u] + SizeOf[fileCid'[n]]
            /\ (LiveRowsOf(u) \ Debited)' = LiveRowsOf(u) \ Debited
  PROVE  Balanced(u)'
  <1> DEFINE R == RowsOf(u) \ Uncharged
             L == LiveRowsOf(u) \ Debited
             s == SizeOf[fileCid'[n]]
             sizes == [f \in FileIds |-> SizeOf[fileCid'[f]]]
  <1>1. /\ R \in SUBSET FileIds /\ \A f \in R : fileCid'[f] = fileCid[f]
        /\ L \in SUBSET FileIds /\ \A f \in L : fileCid'[f] = fileCid[f]
        /\ n \notin R /\ n \notin L /\ s \in Nat
    BY AccountFiles, ConstantsAssumption DEF TypeInv, TypeOK
  <1>2. /\ SumFunctionOnSet(sizes, R \cup {n}) = s + Size(R)
        /\ SumFunctionOnSet(sizes, L \cup {n}) = s + Size(L)
        /\ SumFunctionOnSet(sizes, L) = Size(L)
    <2> HIDE DEF R, L
    <2> QED BY <1>1, SizeStays, SizeGrows
  <1>3. /\ R' = R \cup {n} /\ Size(R)' = s + Size(R)
        /\ \/ L' = L \cup {n} /\ charged'[u] = charged[u] /\ Size(L)' = s + Size(L)
           \/ L' = L /\ charged'[u] \in {charged[u], charged[u] + s} /\ Size(L)' = Size(L)
    <2>1. /\ R' = R \cup {n}
          /\ \/ L' = L \cup {n} /\ charged'[u] = charged[u]
             \/ L' = L /\ charged'[u] \in {charged[u], charged[u] + s}
      OBVIOUS
    <2> HIDE DEF R, L, s
    <2> QED BY <1>2, <2>1 DEF Size
  <1>4. Size(R) \in Nat /\ Size(L) \in Nat /\ charged[u] \in Nat /\ storage[u] \in Nat
    BY AccountFiles
  <1>5. charged[u] <= Size(R) /\ (charged[u] = Size(R) => storage[u] = Size(L))
    BY DEF Balanced
  <1>6. charged'[u] <= Size(R)' /\ (charged'[u] = Size(R)' => storage'[u] = Size(L)')
    <2> HIDE DEF R, L, s
    <2> QED BY <1>1, <1>3, <1>4, <1>5
  <1> QED BY <1>6 DEF Balanced

(* ... and if storage_used changes with the files. *)
LEMMA BalancedUsed ==
  ASSUME TypeInv, TypeInv', NEW u \in Users, Balanced(u), NEW n \in FileIds,
         \A f \in RowsOf(u) : fileCid'[f] = fileCid[f], charged'[u] = charged[u],
         (RowsOf(u) \ Uncharged)' = RowsOf(u) \ Uncharged,
         \/ /\ n \notin LiveRowsOf(u) \ Debited
            /\ (LiveRowsOf(u) \ Debited)' = (LiveRowsOf(u) \ Debited) \cup {n}
            /\ storage'[u] = storage[u] + SizeOf[fileCid'[n]]
         \/ /\ n \in LiveRowsOf(u) \ Debited
            /\ (LiveRowsOf(u) \ Debited)' = (LiveRowsOf(u) \ Debited) \ {n}
            /\ storage'[u] = Debit(storage[u], SizeOf[fileCid[n]])
  PROVE  Balanced(u)'
  <1> DEFINE R == RowsOf(u) \ Uncharged
             L == LiveRowsOf(u) \ Debited
             s == SizeOf[fileCid[n]]
             t == SizeOf[fileCid'[n]]
             sizes == [f \in FileIds |-> SizeOf[fileCid'[f]]]
  <1>1. /\ R \in SUBSET FileIds /\ \A f \in R : fileCid'[f] = fileCid[f]
        /\ L \in SUBSET FileIds /\ \A f \in L : fileCid'[f] = fileCid[f]
        /\ s \in Nat /\ t \in Nat
    BY AccountFiles, ConstantsAssumption DEF TypeInv, TypeOK
  <1>2. /\ SumFunctionOnSet(sizes, R) = Size(R)
        /\ n \notin L => SumFunctionOnSet(sizes, L \cup {n}) = t + Size(L)
        /\ SumFunctionOnSet(sizes, L \ {n}) = Size(L \ {n})
        /\ n \in L => Size(L) = s + Size(L \ {n})
    <2> HIDE DEF R, L, s, t, sizes
    <2>1. SumFunctionOnSet(sizes, R) = Size(R)
      BY <1>1, SizeStays DEF sizes
    <2>2. n \notin L => SumFunctionOnSet(sizes, L \cup {n}) = t + Size(L)
      BY <1>1, SizeGrows DEF sizes, t
    <2>3. SumFunctionOnSet(sizes, L \ {n}) = Size(L \ {n})
      <3>1. L \ {n} \in SUBSET FileIds /\ \A f \in L \ {n} : fileCid'[f] = fileCid[f]
        BY <1>1
      <3> QED BY <3>1, SizeStays DEF sizes
    <2>4. n \in L => Size(L) = s + Size(L \ {n})
      BY <1>1, SizesAddUp DEF s
    <2> QED BY <2>1, <2>2, <2>3, <2>4
  <1>3. /\ Size(R)' = Size(R)
        /\ \/ n \notin L /\ Size(L)' = t + Size(L) /\ storage'[u] = storage[u] + t
           \/ n \in L /\ Size(L)' = Size(L \ {n}) /\ storage'[u] = Debit(storage[u], s)
    <2>1. /\ R' = R
          /\ \/ n \notin L /\ L' = L \cup {n} /\ storage'[u] = storage[u] + t
             \/ n \in L /\ L' = L \ {n} /\ storage'[u] = Debit(storage[u], s)
      OBVIOUS
    <2> HIDE DEF R, L, s, t
    <2> QED BY <1>2, <2>1 DEF Size
  <1>4. /\ Size(R) \in Nat /\ Size(L) \in Nat /\ Size(L \ {n}) \in Nat
        /\ charged[u] \in Nat /\ storage[u] \in Nat
    <2>1. L \ {n} \in SUBSET FileIds
      BY <1>1
    <2>2. Size(L \ {n}) \in Nat
      BY <2>1, SizesAddUp
    <2> QED BY <2>2, AccountFiles
  <1>5. charged[u] <= Size(R) /\ (charged[u] = Size(R) => storage[u] = Size(L))
    BY DEF Balanced
  <1>6. charged[u] <= Size(R)' /\ (charged[u] = Size(R)' => storage'[u] = Size(L)')
    <2> HIDE DEF R, L, s, t
    <2>1. CASE n \notin L
      BY <1>1, <1>3, <1>4, <1>5, <2>1
    <2>2. CASE n \in L
      <3>1. Size(L) = s + Size(L \ {n})
        BY <1>2, <2>2
      <3>2. /\ Size(R)' = Size(R) /\ Size(L)' = Size(L \ {n})
            /\ storage'[u] = IF s <= storage[u] THEN storage[u] - s ELSE 0
        BY <1>3, <2>2 DEF Debit
      <3> QED BY <1>1, <1>4, <1>5, <3>1, <3>2
    <2> QED BY <2>1, <2>2
  <1> QED BY <1>6 DEF Balanced

(* Two rows of a content keep having it. *)
LEMMA CopiesStay ==
  ASSUME TypeInv, TypeInv', NoCopies', nextId <= nextId',
         \A f \in FileIds : f < nextId => fileCid'[f] = fileCid[f]
  PROVE  NoCopies
  <1>1. nextId \in Nat /\ nextId' \in Nat
    BY DEF TypeInv, TypeOK
  <1> QED BY <1>1, IdsAreNumbers DEF NoCopies, Inserted

(* A live row has been inserted. *)
LEMMA LiveRowsInserted ==
  ASSUME TypeInv, NEW f \in FileIds, fileRow[f] = "live"
  PROVE  f \in Inserted
  <1>1. ~(nextId <= f)
    BY DEF TypeInv, RowsKnown
  <1> QED BY <1>1, IdsAreNumbers DEF Inserted, TypeInv, TypeOK

(* Where a request may be while all contents differ. *)
LEMMA RequestsOfSoleRows ==
  ASSUME Alone, TypeInv, AloneInv, BooksInv, OwnRows, NEW r \in Reqs
  PROVE  /\ BooksOf(r) /\ Reqs = {r} /\ req[r] \in Request
         /\ \/ /\ req[r].path = "delete" /\ pc[r] \in {"holders", "copies"}
            \/ /\ req[r].path = "sole"
               /\ pc[r] \in {"s3Delete", "readUsed", "debitNow", "deleteRow",
                             "deletePermission", "commit"}
            \/ /\ req[r].path \in {"none", "upload", "create", "pool", "share"}
               /\ pc[r] \in {"idle", "head", "holdersOfCid", "poolHead", "insert",
                             "readUsed", "charge", "relate", "commit"}
  <1>1. BooksOf(r) /\ Reqs = {r} /\ req[r] \in Request /\ DeleteAlone(r) /\ InsertAlone(r)
    BY OnlyRequest DEF BooksInv, AloneInv, TypeInv, TypeOK
  <1>2. ~AtLeastTwo(Holders(req[r].cid))
    <2>1. \A f \in LiveRows(req[r].cid) : f \in Inserted /\ fileCid[f] = req[r].cid
      BY LiveRowsInserted DEF LiveRows
    <2> QED BY <2>1 DEF AtLeastTwo, Holders, OwnRows, NoCopies
  <1>3. CASE req[r].path \in DeletePaths
    <2>1. req[r].path \in {"delete", "sole"}
      BY <1>1, <1>3 DEF BooksOf, DeletePaths
    <2>2. pc[r] \in DeletePhases[req[r].path] /\ pc[r] # "isOwner"
      BY <1>1, <1>2, <1>3 DEF DeleteAlone
    <2> QED BY <1>1, <2>1, <2>2 DEF DeletePhases
  <1>4. CASE req[r].path \notin DeletePaths
    BY <1>1, <1>4 DEF InsertAlone
  <1> QED BY <1>1, <1>3, <1>4

(* A step that changes neither files nor accounts. *)
LEMMA BooksKept ==
  ASSUME Alone, TypeInv, BooksInv, OwnRows, NEW r \in Reqs,
         UNCHANGED <<fileRow, columns, storage, charged>>,
         \A f \in FileIds : NewRow(r, f)' <=> NewRow(r, f),
         \A f \in FileIds : TakenOff(r, f)' <=> TakenOff(r, f),
         BooksOf(r)'
  PROVE  BooksInv'
  <1>1. Reqs = {r}
    BY OnlyRequest
  <1>2. Uncharged' = Uncharged /\ Debited' = Debited
    <2> HIDE DEF NewRow, TakenOff
    <2> QED BY <1>1 DEF Uncharged, Debited
  <1>3. \A u \in Users : RowsOf(u)' = RowsOf(u) /\ LiveRowsOf(u)' = LiveRowsOf(u)
    BY DEF RowsOf, LiveRowsOf, Inserted, columns
  <1>4. ASSUME NEW u \in Users PROVE Balanced(u)'
    BY <1>2, <1>3, BalancedStays DEF BooksInv, columns
  <1> QED BY <1>1, <1>4 DEF BooksInv

(* A request that is over owes nothing. *)
LEMMA BooksClosed ==
  ASSUME NEW r \in Reqs, req'[r] = NoRequest, pc'[r] = "idle", txRow'[r] = NoRows,
         txUsed'[r] = NoUsed
  PROVE  /\ BooksOf(r)'
         /\ \A f \in FileIds : ~NewRow(r, f)' /\ ~TakenOff(r, f)'
  <1>1. NoRequest.path = "none"
    BY DEF NoRequest
  <1> QED BY <1>1 DEF BooksOf, ChargeAlone, DebitAlone, WritesAlone, NewRow, TakenOff,
                      NoRows, Charging

(* A request that reads, before it writes to its transaction. *)
LEMMA BooksRead ==
  ASSUME Alone, TypeInv, AloneInv, BooksInv, OwnRows, NEW r \in Reqs,
         \/ HeadObject(r) \/ DecideInPool(r) \/ HeadPoolObject(r)
         \/ FindUsersByFileCID(r) \/ FindFilesByUserAndFileCID(r) \/ ReadUsed(r)
         \/ DeleteFileFromS3(r)
  PROVE  BooksInv'
  <1>0. /\ BooksOf(r) /\ Reqs = {r} /\ req[r] \in Request /\ InsertAlone(r)
        /\ req \in [Reqs -> Request] /\ pc \in [Reqs -> Phases]
    BY RequestsOfSoleRows DEF AloneInv, TypeInv, TypeOK
  <1>1. ASSUME NEW p, NEW q, req'[r] = q, pc'[r] = p,
               UNCHANGED <<fileRow, columns, storage, charged, up, txSt, txRow, txUsed>>,
               p \in {"holdersOfCid", "insert", "commit"}, q.path = req[r].path,
               pc[r] \in {"head", "holdersOfCid", "poolHead"},
               p = "commit" => q.path = "pool"
        PROVE  BooksInv'
    <2>1. /\ req[r].path \in {"none", "upload", "create", "pool", "share"}
          /\ \A f \in FileIds : txRow[r][f] # "live"
      BY <1>0, <1>1, RequestsOfSoleRows DEF InsertAlone, DeletePaths
    <2>2. \A f \in FileIds : txRow[r][f] = None
      BY <1>0, <2>1 DEF BooksOf, WritesAlone
    <2>3. txUsed[r] = NoUsed
      BY <1>0, <1>1 DEF BooksOf, WritesAlone
    <2>4. BooksOf(r)'
      BY <1>1, <2>1, <2>2, <2>3 DEF BooksOf, ChargeAlone, DebitAlone, WritesAlone, Charging
    <2>5. \A f \in FileIds : ~NewRow(r, f) /\ ~NewRow(r, f)'
      BY <1>1, <2>1, <2>2 DEF NewRow, None
    <2>6. \A f \in FileIds : ~TakenOff(r, f) /\ ~TakenOff(r, f)'
      BY <1>1, <2>1 DEF TakenOff
    <2> HIDE DEF BooksOf, NewRow, TakenOff
    <2> QED BY <1>1, <2>4, <2>5, <2>6, BooksKept
  <1>2. ASSUME NEW p, NEW q, req'[r] = q, pc'[r] = p,
               UNCHANGED <<fileRow, columns, storage, charged, up, txSt, txRow, txUsed>>,
               req[r].path \in {"delete", "sole"}, q.path \in {req[r].path, "sole"},
               q.file = req[r].file, q.user = req[r].user,
               pc[r] \in {"holders", "copies", "s3Delete", "readUsed"},
               p \in {"copies", "isOwner", "s3Delete", "readUsed", "debitNow"},
               p = "debitNow" => q.used = storage[q.user]
        PROVE  BooksInv'
    <2>1. BooksOf(r)'
      BY <1>0, <1>2 DEF BooksOf, ChargeAlone, DebitAlone, WritesAlone, columns
    <2>2. \A f \in FileIds : ~NewRow(r, f) /\ ~NewRow(r, f)'
      BY <1>2 DEF NewRow
    <2>3. \A f \in FileIds : ~TakenOff(r, f) /\ ~TakenOff(r, f)'
      BY <1>2 DEF TakenOff
    <2> HIDE DEF BooksOf, NewRow, TakenOff
    <2> QED BY <1>2, <2>1, <2>2, <2>3, BooksKept
  <1>3. ASSUME NEW p, NEW q, Reads(r, p, q)
        PROVE  /\ req'[r] = q /\ pc'[r] = p
               /\ UNCHANGED <<fileRow, columns, storage, charged, up, txSt, txRow, txUsed>>
    BY <1>0, <1>3 DEF Reads, Goto, dbVars, txVars
  <1>4. CASE HeadObject(r)
    <2>1. PICK p \in {"holdersOfCid", "insert"} : Reads(r, p, req[r])
      BY <1>4 DEF HeadObject
    <2>2. pc[r] = "head"
      BY <1>4 DEF HeadObject
    <2> QED BY <1>1, <1>3, <2>1, <2>2
  <1>5. CASE DecideInPool(r)
    <2>1. PICK x \in {"shared", "owner"} : Reads(r, "insert", [req[r] EXCEPT !.perm = x])
      BY <1>5 DEF DecideInPool
    <2>2. [req[r] EXCEPT !.perm = x].path = req[r].path
      BY <1>0 DEF Request
    <2>3. pc[r] = "holdersOfCid"
      BY <1>5 DEF DecideInPool
    <2> QED BY <1>1, <1>3, <2>1, <2>2, <2>3
  <1>6. CASE HeadPoolObject(r)
    <2>1. PICK p \in {"insert", "commit"} : Reads(r, p, req[r])
      BY <1>6 DEF HeadPoolObject
    <2>2. req[r].path = "pool" /\ pc[r] = "poolHead"
      BY <1>0, <1>6 DEF HeadPoolObject, BooksOf, WritesAlone
    <2> QED BY <1>1, <1>3, <2>1, <2>2
  <1>7. CASE FindUsersByFileCID(r)
    <2>1. PICK q : /\ Reads(r, "copies", q)
                   /\ q = [req[r] EXCEPT !.others = AtLeastTwo(Holders(req[r].cid))]
      BY <1>7 DEF FindUsersByFileCID
    <2>2. q.path = req[r].path /\ q.file = req[r].file /\ q.user = req[r].user
      BY <1>0, <2>1 DEF Request
    <2>3. pc[r] = "holders" /\ req[r].path = "delete"
      BY <1>7, RequestsOfSoleRows DEF FindUsersByFileCID
    <2>4. /\ req'[r] = q /\ pc'[r] = "copies"
          /\ UNCHANGED <<fileRow, columns, storage, charged, up, txSt, txRow, txUsed>>
      BY <1>3, <2>1
    <2> QED BY <1>2, <2>2, <2>3, <2>4
  <1>8. CASE FindFilesByUserAndFileCID(r)
    <2>1. PICK p, q :
             /\ Reads(r, p, q) /\ pc[r] = "copies" /\ p \in {"isOwner", "s3Delete"}
             /\ \/ \E x : q = [req[r] EXCEPT !.copies = x]
                \/ q = [req[r] EXCEPT !.path = "sole"]
      BY <1>8 DEF FindFilesByUserAndFileCID
    <2>2. q.path \in {req[r].path, "sole"} /\ q.file = req[r].file /\ q.user = req[r].user
      BY <1>0, <2>1 DEF Request
    <2>3. req[r].path = "delete"
      BY <2>1, RequestsOfSoleRows
    <2> QED BY <1>2, <1>3, <2>1, <2>2, <2>3
  <1>9. CASE DeleteFileFromS3(r)
    <2>1. /\ req'[r] = req[r] /\ pc[r] = "s3Delete" /\ pc'[r] = "readUsed"
          /\ UNCHANGED <<fileRow, columns, storage, charged, up, txSt, txRow, txUsed>>
      BY <1>0, <1>9 DEF DeleteFileFromS3, Goto, dbVars, txVars
    <2>2. req[r].path = "sole"
      BY <2>1, RequestsOfSoleRows
    <2> QED BY <1>2, <2>1, <2>2
  <1>10. CASE ReadUsed(r)
    <2>1. PICK p, q : /\ Reads(r, p, q) /\ q = [req[r] EXCEPT !.used = storage[req[r].user]]
                      /\ pc[r] = "readUsed"
                      /\ req[r].path = "sole" => p = "debitNow"
                      /\ req[r].path \in {"upload", "create"} => p = "charge"
      BY <1>10 DEF ReadUsed
    <2>2. /\ q.path = req[r].path /\ q.file = req[r].file /\ q.user = req[r].user
          /\ q.cid = req[r].cid /\ q.used = storage[q.user]
      BY <1>0, <2>1 DEF Request
    <2>3. CASE req[r].path = "sole"
      <3>1. /\ req'[r] = q /\ pc'[r] = "debitNow"
            /\ UNCHANGED <<fileRow, columns, storage, charged, up, txSt, txRow, txUsed>>
        BY <1>3, <2>1, <2>3
      <3> QED BY <1>2, <2>1, <2>2, <2>3, <3>1
    <2>4. CASE req[r].path # "sole"
      <3>1. req[r].path \in {"upload", "create"}
        BY <1>0, <2>1, <2>4, RequestsOfSoleRows DEF InsertAlone, DeletePaths
      <3>2. /\ req'[r] = q /\ pc'[r] = "charge"
            /\ UNCHANGED <<fileRow, columns, storage, charged, up, txSt, txRow, txUsed>>
        BY <1>3, <2>1, <3>1
      <3>3. ChargeAlone(r) /\ WritesAlone(r)
        BY <1>0 DEF BooksOf
      <3>4. ChargeAlone(r)'
        BY <2>1, <2>2, <3>1, <3>2, <3>3 DEF ChargeAlone, Charging, columns
      <3>5. WritesAlone(r)' /\ DebitAlone(r)'
        BY <2>1, <2>2, <3>1, <3>2, <3>3 DEF WritesAlone, DebitAlone, columns
      <3>6. BooksOf(r)'
        BY <2>2, <3>1, <3>2, <3>4, <3>5 DEF BooksOf
      <3>7. \A f \in FileIds : NewRow(r, f)' <=> NewRow(r, f)
        BY <2>1, <2>2, <3>1, <3>2 DEF NewRow, columns
      <3>8. \A f \in FileIds : ~TakenOff(r, f) /\ ~TakenOff(r, f)'
        BY <2>2, <3>1, <3>2 DEF TakenOff
      <3> HIDE DEF BooksOf, NewRow, TakenOff
      <3> QED BY <3>2, <3>6, <3>7, <3>8, BooksKept
    <2> QED BY <2>3, <2>4
  <1> QED BY <1>4, <1>5, <1>6, <1>7, <1>8, <1>9, <1>10


(* The statements of a delete: storage_used changes before the row does. *)
LEMMA BooksOfDelete ==
  ASSUME Alone, TypeInv, TypeInv', AloneInv, BooksInv, OwnRows, NEW r \in Reqs,
         DebitNow(r) \/ DeleteFileUser(r) \/ DeleteFilePermission(r)
  PROVE  BooksInv'
  <1>1. /\ BooksOf(r) /\ Reqs = {r} /\ req[r] \in Request /\ DeleteAlone(r)
        /\ pc \in [Reqs -> Phases]
        /\ txRow \in [Reqs -> [FileIds -> {None, "live", "deleted"}]]
    BY RequestsOfSoleRows DEF AloneInv, TypeInv, TypeOK
  <1>2. pc[r] \in {"debitNow", "deleteRow", "deletePermission"}
    BY DEF DebitNow, DeleteFileUser, DeleteFilePermission, Ready
  <1>3. req[r].path = "sole"
    BY <1>2, RequestsOfSoleRows
  <1>4. /\ req[r].user = fileUser[req[r].file] /\ req[r].cid = fileCid[req[r].file]
        /\ req[r].file \in FileIds /\ fileRow[req[r].file] = "live"
        /\ pc[r] = "debitNow" => req[r].used = storage[req[r].user]
        /\ txUsed[r] = NoUsed /\ \A f \in FileIds \ {req[r].file} : txRow[r][f] = None
    BY <1>1, <1>3 DEF BooksOf, DebitAlone, WritesAlone, DeleteAlone, DeletePaths, OwnRows,
                      Related
  <1>5. req' = req /\ UNCHANGED <<fileRow, columns, charged, up, txSt, txUsed>>
    BY DEF DebitNow, DeleteFileUser, DeleteFilePermission, dbVars, txVars
  <1>6. /\ pc'[r] \in {"deleteRow", "deletePermission", "commit"}
        /\ \A f \in FileIds \ {req[r].file} : txRow'[r][f] = None
    BY <1>1, <1>3, <1>4 DEF DebitNow, DeleteFileUser, DeleteFilePermission, Goto, txVars
  <1>7. BooksOf(r)'
    BY <1>3, <1>4, <1>5, <1>6 DEF BooksOf, ChargeAlone, DebitAlone, WritesAlone, columns
  <1>8. \A f \in FileIds : ~NewRow(r, f) /\ ~NewRow(r, f)'
    BY <1>3, <1>5 DEF NewRow
  <1>9. \A f \in FileIds : /\ TakenOff(r, f) <=> f = req[r].file /\ pc[r] # "debitNow"
                           /\ TakenOff(r, f)' <=> f = req[r].file
    BY <1>2, <1>3, <1>5, <1>6 DEF TakenOff
  <1>10. CASE DeleteFileUser(r) \/ DeleteFilePermission(r)
    <2>1. UNCHANGED storage /\ pc[r] # "debitNow"
      BY <1>10 DEF DeleteFileUser, DeleteFilePermission, dbVars, Ready
    <2> HIDE DEF BooksOf, NewRow, TakenOff
    <2> QED BY <1>5, <1>7, <1>8, <1>9, <2>1, BooksKept
  <1>11. CASE DebitNow(r)
    <2>0. PICK n \in FileIds, u \in Users : n = req[r].file /\ u = req[r].user
      BY <1>1, <1>4 DEF Request
    <2>1. /\ pc[r] = "debitNow" /\ storage \in [Users -> Nat]
          /\ storage' = [storage EXCEPT ![u] = Debit(storage[u], SizeOf[fileCid[n]])]
      BY <1>1, <1>4, <1>11, <2>0 DEF DebitNow, Ready, TypeInv, TypeOK
    <2>2. /\ Uncharged' = {} /\ Uncharged = {} /\ Debited = {} /\ Debited' = {n}
      <3> HIDE DEF NewRow, TakenOff
      <3> QED BY <1>1, <1>4, <1>5, <1>8, <1>9, <2>0, <2>1 DEF Uncharged, Debited
    <2>3. n \in LiveRowsOf(u) /\ \A v \in Users \ {u} : n \notin LiveRowsOf(v)
      BY <1>1, <1>4, <2>0 DEF LiveRowsOf, RowsOf, Inserted, TypeInv, NextKnown
    <2>4. \A v \in Users : RowsOf(v)' = RowsOf(v) /\ LiveRowsOf(v)' = LiveRowsOf(v)
      BY <1>5 DEF RowsOf, LiveRowsOf, Inserted, columns
    <2>5. fileCid' = fileCid /\ charged' = charged
      BY <1>5 DEF columns
    <2>6. Balanced(u)'
      <3>1. Balanced(u)
        BY DEF BooksInv
      <3>2. storage'[u] = Debit(storage[u], SizeOf[fileCid[n]])
        BY <2>1
      <3>3. /\ (RowsOf(u) \ Uncharged)' = RowsOf(u) \ Uncharged
            /\ n \in LiveRowsOf(u) \ Debited
            /\ (LiveRowsOf(u) \ Debited)' = (LiveRowsOf(u) \ Debited) \ {n}
        BY <2>1, <2>2, <2>3, <2>4
      <3>4. charged'[u] = charged[u] /\ \A f \in RowsOf(u) : fileCid'[f] = fileCid[f]
        BY <2>5
      <3> QED BY <2>1, <3>1, <3>2, <3>3, <3>4, BalancedUsed
    <2>7. ASSUME NEW v \in Users \ {u} PROVE Balanced(v)'
      <3>1. Balanced(v) /\ storage'[v] = storage[v]
        BY <2>1 DEF BooksInv
      <3>2. LiveRowsOf(v) \ Debited' = LiveRowsOf(v) \ Debited
        BY <2>2, <2>3
      <3> QED BY <2>2, <2>4, <2>5, <3>1, <3>2, BalancedStays
    <2>8. \A v \in Users : Balanced(v)'
      BY <2>6, <2>7
    <2>9. \A q \in Reqs : BooksOf(q)'
      BY <1>1, <1>7
    <2> QED BY <2>8, <2>9 DEF BooksInv
  <1> QED BY <1>10, <1>11

(* What a request does not do while all contents differ: the delete of a file that
   others have. *)
LEMMA BooksOfSoleRows ==
  ASSUME Alone, TypeInv, AloneInv, BooksInv, OwnRows, NEW r \in Reqs
  PROVE  /\ ~IsFileOwner(r) /\ ~DebitOwner(r) /\ ~GetNextOwner(r) /\ ~GetNextFileUser(r)
         /\ ~SetOwnerPermision(r) /\ ~ReadNextUsed(r) /\ ~CreditNextOwner(r)
         /\ ~SetNextFileInPool(r) /\ ~StatementFailsUnnoticed(r) /\ ~DeadlockVictim(r)
  <1>1. pc[r] \notin {"isOwner", "debit", "nextOwner", "nextCopy", "giveOwner", "readNextUsed",
                      "credit", "leavePool"}
    BY RequestsOfSoleRows
  <1>2. ~DeadlockVictim(r)
    <2> SUFFICES ASSUME NEW S \in SUBSET Reqs, r \in S,
                        \A a \in S : /\ pc[a] \notin Autocommit
                                     /\ \E b \in S : BlockedBy(a, b)
                 PROVE  FALSE
      BY DEF DeadlockVictim, InDeadlock
    <2>1. BlockedBy(r, r) /\ pc[r] \notin Autocommit
      BY OnlyRequest
    <2> QED BY <2>1 DEF BlockedBy, Autocommit
  <1> QED BY <1>1, <1>2 DEF IsFileOwner, DebitOwner, GetNextOwner, GetNextFileUser,
        SetOwnerPermision, ReadNextUsed, CreditNextOwner, SetNextFileInPool,
        StatementFailsUnnoticed, Ready

(* The row that an insertion adds belongs to the user of the request alone. *)
LEMMA BooksOfInsert ==
  ASSUME Alone, TypeInv, TypeInv', AloneInv, BooksInv, OwnRows, NEW r \in Reqs,
         TxCreate(r) \/ CommitSharedCopy(r)
  PROVE  BooksInv'
  <1>1. /\ BooksOf(r) /\ Reqs = {r} /\ req[r] \in Request /\ InsertAlone(r)
        /\ pc[r] = "insert" /\ req[r].path \in {"upload", "create", "pool", "share"}
        /\ txSt[r] = "open" /\ \A f \in FileIds : txRow[r][f] # "live"
    <2>1. pc[r] = "insert"
      BY DEF TxCreate, CommitSharedCopy
    <2>2. BooksOf(r) /\ Reqs = {r} /\ req[r] \in Request /\ InsertAlone(r)
      BY RequestsOfSoleRows DEF AloneInv
    <2>3. req[r].path \in {"none", "upload", "create", "pool", "share"}
      BY <2>1, RequestsOfSoleRows
    <2> QED BY <2>1, <2>2, <2>3 DEF InsertAlone, DeletePaths
  <1>2. txUsed[r] = NoUsed /\ \A f \in FileIds : txRow[r][f] = None
    BY <1>1 DEF BooksOf, WritesAlone
  <1>3. PICK n \in FileIds, u \in Users : n = nextId /\ u = req[r].user
    BY <1>1 DEF TxCreate, CommitSharedCopy, Request
  <1>4. /\ nextId' = n + 1 /\ n \in Nat /\ \A f \in FileIds : f \in Nat
        /\ fileCid'[n] = req[r].cid /\ fileUser'[n] = u
        /\ \A f \in FileIds \ {n} : fileCid'[f] = fileCid[f] /\ fileUser'[f] = fileUser[f]
        /\ storage' = storage /\ charged' = charged /\ txSt' = txSt /\ txUsed' = txUsed
    BY <1>3, IdsAreNumbers DEF TxCreate, CommitSharedCopy, TypeInv, TypeOK, dbVars, txVars
  <1>5. fileRow[n] = "absent" /\ up[n] = "none"
    BY <1>3, <1>4 DEF TypeInv, RowsKnown, AloneInv, UploadsHaveRows
  <1>6. Uncharged = {} /\ Debited = {}
    BY <1>1 DEF Uncharged, Debited, NewRow, TakenOff
  <1>7. /\ RowsOf(u)' = RowsOf(u) \cup {n} /\ n \notin RowsOf(u)
        /\ \A v \in Users \ {u} : RowsOf(v)' = RowsOf(v)
        /\ \A v \in Users : n \notin RowsOf(v)
    <2>0. n \in Nat /\ nextId = n /\ nextId' = n + 1
      BY <1>3, <1>4
    <2>1. ASSUME NEW f \in FileIds PROVE ~(n < n) /\ (f < n + 1 <=> f < n \/ f = n)
      BY <2>0, IdsAreNumbers
    <2>2. n \notin Inserted /\ n \in Inserted' /\ Inserted' = Inserted \cup {n}
      BY <2>0, <2>1 DEF Inserted
    <2> HIDE DEF Inserted
    <2>3. \A f \in Inserted : f \in FileIds \ {n}
      BY <2>2 DEF Inserted
    <2> QED BY <1>4, <2>2, <2>3 DEF RowsOf
  <1>8. \A v \in Users : \A f \in RowsOf(v) : fileCid'[f] = fileCid[f]
    BY <1>4, <1>7 DEF RowsOf, Inserted
  <1>9. CASE TxCreate(r)
    <2>1. /\ req' = req /\ fileRow' = fileRow /\ req[r].path # "share"
          /\ txRow' = [txRow EXCEPT ![r][n] = "live"]
          /\ up' = IF req[r].path = "upload" THEN [up EXCEPT ![n] = "running"] ELSE up
          /\ pc'[r] = IF req[r].path = "pool" THEN "commit" ELSE "readUsed"
      BY <1>3, <1>9 DEF TxCreate, Goto, dbVars, TypeInv, TypeOK
    <2>2. \A f \in FileIds : txRow'[r][f] = IF f = n THEN "live" ELSE None
      BY <1>2, <2>1 DEF TypeInv, TypeOK
    <2>3. ChargeAlone(r)'
      BY <1>1, <1>3, <1>4, <1>5, <2>1, <2>2 DEF ChargeAlone
    <2>4. DebitAlone(r)' /\ WritesAlone(r)'
      BY <1>1, <1>2, <1>4, <1>5, <2>1, <2>2 DEF DebitAlone, WritesAlone
    <2>5. Uncharged' = {n}
      <3>1. \A f \in FileIds : NewRow(r, f)' <=> f = n
        BY <1>1, <1>4, <2>1, <2>2 DEF NewRow
      <3> QED BY <1>1, <3>1 DEF Uncharged
    <2>6. Debited' = {}
      BY <1>1, <2>1 DEF Debited, TakenOff
    <2>7. \A v \in Users : LiveRowsOf(v)' = LiveRowsOf(v)
      BY <1>5, <1>7, <2>1 DEF LiveRowsOf
    <2>8. ASSUME NEW v \in Users PROVE Balanced(v)'
      <3>1. /\ (RowsOf(v) \ Uncharged)' = RowsOf(v) \ Uncharged
            /\ (LiveRowsOf(v) \ Debited)' = LiveRowsOf(v) \ Debited
        BY <1>6, <1>7, <2>5, <2>6, <2>7
      <3> QED BY <1>4, <1>8, <3>1, BalancedStays DEF BooksInv
    <2>9. \A q \in Reqs : BooksOf(q)'
      BY <1>1, <2>1, <2>3, <2>4 DEF BooksOf
    <2> QED BY <2>8, <2>9 DEF BooksInv
  <1>10. CASE CommitSharedCopy(r)
    <2>1. /\ req' = [req EXCEPT ![r].next = nextId] /\ req[r].path = "share"
          /\ fileRow' = [fileRow EXCEPT ![n] = "live"]
          /\ txRow' = txRow /\ up' = up /\ pc'[r] = "relate"
      BY <1>3, <1>10 DEF CommitSharedCopy, Goto, txVars, TypeInv, TypeOK
    <2>2. req'[r].path = "share"
      BY <2>1 DEF TypeInv, TypeOK, Request
    <2>3. BooksOf(r)'
      BY <1>2, <1>4, <2>1, <2>2 DEF BooksOf, ChargeAlone, DebitAlone, WritesAlone
    <2>4. Uncharged' = {} /\ Debited' = {}
      BY <1>1, <2>2 DEF Uncharged, Debited, NewRow, TakenOff
    <2>5. /\ LiveRowsOf(u)' = LiveRowsOf(u) \cup {n} /\ n \notin LiveRowsOf(u)
          /\ \A v \in Users \ {u} : LiveRowsOf(v)' = LiveRowsOf(v)
      BY <1>5, <1>7, <2>1 DEF LiveRowsOf, TypeInv, TypeOK
    <2>6. Balanced(u)'
      <3>1. /\ (RowsOf(u) \ Uncharged)' = (RowsOf(u) \ Uncharged) \cup {n}
            /\ (LiveRowsOf(u) \ Debited)' = (LiveRowsOf(u) \ Debited) \cup {n}
            /\ n \notin RowsOf(u) \ Uncharged /\ n \notin LiveRowsOf(u) \ Debited
        BY <1>6, <1>7, <2>4, <2>5
      <3>2. Balanced(u) /\ storage'[u] = storage[u] /\ charged'[u] = charged[u]
        BY <1>4 DEF BooksInv
      <3>3. \A f \in RowsOf(u) : f # n => fileCid'[f] = fileCid[f]
        BY <1>8
      <3> QED BY <3>1, <3>2, <3>3, BalancedGrows
    <2>7. ASSUME NEW v \in Users \ {u} PROVE Balanced(v)'
      <3>1. /\ (RowsOf(v) \ Uncharged)' = RowsOf(v) \ Uncharged
            /\ (LiveRowsOf(v) \ Debited)' = LiveRowsOf(v) \ Debited
        BY <1>6, <1>7, <2>4, <2>5
      <3> QED BY <1>4, <1>8, <3>1, BalancedStays DEF BooksInv
    <2>8. \A v \in Users : Balanced(v)'
      BY <2>6, <2>7
    <2>9. \A q \in Reqs : BooksOf(q)'
      BY <1>1, <2>3
    <2> QED BY <2>8, <2>9 DEF BooksInv
  <1> QED BY <1>9, <1>10

(* A row that was not yet counted is from now on. *)
LEMMA BooksCounted ==
  ASSUME TypeInv, TypeInv', BooksInv, OwnRows, NEW r \in Reqs, Reqs = {r}, BooksOf(r)',
         NEW n \in FileIds, NEW u \in Users, n \in RowsOf(u), fileRow[n] # "live",
         UNCHANGED <<columns, storage>>, Uncharged = {n}, Debited = {},
         \A f \in FileIds : ~NewRow(r, f)' /\ ~TakenOff(r, f)',
         \A f \in FileIds \ {n} : fileRow'[f] = fileRow[f],
         \A v \in Users \ {u} : charged'[v] = charged[v],
         \/ charged'[u] = charged[u]
         \/ charged'[u] = charged[u] + SizeOf[fileCid[n]] /\ fileRow'[n] # "live"
  PROVE  BooksInv'
  <1>1. Uncharged' = {} /\ Debited' = {}
    <2> HIDE DEF NewRow, TakenOff
    <2> QED BY DEF Uncharged, Debited
  <1>2. \A v \in Users : RowsOf(v)' = RowsOf(v)
    BY DEF RowsOf, Inserted, columns
  <1>3. \A v \in Users \ {u} : n \notin RowsOf(v) /\ LiveRowsOf(v)' = LiveRowsOf(v)
    BY DEF RowsOf, LiveRowsOf, Inserted, columns
  <1>4. /\ n \notin LiveRowsOf(u)
        /\ LiveRowsOf(u)' = IF fileRow'[n] = "live" THEN LiveRowsOf(u) \cup {n} ELSE LiveRowsOf(u)
    BY <1>2 DEF LiveRowsOf, RowsOf, Inserted
  <1>5. fileCid' = fileCid /\ storage' = storage
    BY DEF columns
  <1>6. Balanced(u)'
    <2>1. /\ (RowsOf(u) \ Uncharged)' = (RowsOf(u) \ Uncharged) \cup {n}
          /\ n \notin RowsOf(u) \ Uncharged /\ n \notin LiveRowsOf(u) \ Debited
          /\ (LiveRowsOf(u) \ Debited)' =
                IF fileRow'[n] = "live" THEN (LiveRowsOf(u) \ Debited) \cup {n}
                                        ELSE LiveRowsOf(u) \ Debited
      BY <1>1, <1>2, <1>4
    <2>2. Balanced(u)
      BY DEF BooksInv
    <2>3. /\ \A f \in RowsOf(u) : f # n => fileCid'[f] = fileCid[f]
          /\ storage'[u] = storage[u]
      BY <1>5
    <2>4. \/ /\ charged'[u] = charged[u]
             /\ (LiveRowsOf(u) \ Debited)' = (LiveRowsOf(u) \ Debited) \cup {n}
          \/ /\ charged'[u] = charged[u] \/ charged'[u] = charged[u] + SizeOf[fileCid'[n]]
             /\ (LiveRowsOf(u) \ Debited)' = LiveRowsOf(u) \ Debited
      BY <1>5, <2>1
    <2> QED BY <2>1, <2>2, <2>3, <2>4, BalancedGrows
  <1>7. ASSUME NEW v \in Users \ {u} PROVE Balanced(v)'
    <2>1. /\ (RowsOf(v) \ Uncharged)' = RowsOf(v) \ Uncharged
          /\ (LiveRowsOf(v) \ Debited)' = LiveRowsOf(v) \ Debited
      BY <1>1, <1>2, <1>3
    <2> QED BY <1>5, <2>1, BalancedStays DEF BooksInv
  <1>8. \A v \in Users : Balanced(v)'
    BY <1>6, <1>7
  <1> QED BY <1>8 DEF BooksInv

(* What a charge is about: the newest row, which is the only one in doubt. *)
LEMMA ChargesNewRow ==
  ASSUME Alone, TypeInv, AloneInv, BooksInv, OwnRows, NEW r \in Reqs,
         req[r].path \in {"upload", "create"}, pc[r] \in Charging
  PROVE  \E n \in FileIds, u \in Users :
            /\ n = nextId - 1 /\ u = req[r].user /\ n \in RowsOf(u)
            /\ fileCid[n] = req[r].cid /\ fileRow[n] = "absent" /\ Debited = {}
            /\ Uncharged = IF pc[r] = "commit" THEN {} ELSE {n}
            /\ pc[r] # "readUsed" => req[r].used = storage[u]
            /\ \A f \in FileIds \ {n} : txRow[r][f] = None
  <1>1. BooksOf(r) /\ Reqs = {r} /\ req[r] \in Request
    BY RequestsOfSoleRows
  <1>2. PICK n \in FileIds, u \in Users : n = nextId - 1 /\ u = req[r].user
    BY <1>1 DEF BooksOf, ChargeAlone, Request
  <1>3. /\ fileCid[n] = req[r].cid /\ fileUser[n] = u /\ fileRow[n] = "absent"
        /\ pc[r] # "readUsed" => req[r].used = storage[u]
    BY <1>1, <1>2 DEF BooksOf, ChargeAlone
  <1>4. n \in RowsOf(u)
    BY <1>2, <1>3, IdsAreNumbers DEF RowsOf, Inserted, TypeInv, TypeOK
  <1>5. \A f \in FileIds \ {n} : txRow[r][f] = None
    BY <1>1, <1>2 DEF BooksOf, WritesAlone
  <1>6. \A f \in FileIds : /\ ~TakenOff(r, f)
                           /\ NewRow(r, f) <=> f = n /\ pc[r] # "commit"
    BY <1>2 DEF TakenOff, NewRow, Charging
  <1>7. Debited = {} /\ Uncharged = IF pc[r] = "commit" THEN {} ELSE {n}
    <2> HIDE DEF TakenOff, NewRow
    <2> QED BY <1>1, <1>6 DEF Debited, Uncharged
  <1> QED BY <1>2, <1>3, <1>4, <1>5, <1>7

(* An upload or a creation is charged, or fails to be; a share ends. *)
LEMMA BooksOfCharge ==
  ASSUME Alone, TypeInv, TypeInv', AloneInv, BooksInv, OwnRows, NEW r \in Reqs,
         \/ Charge(r) \/ StatementFails(r)
         \/ CommitSharedRelation(r) \/ SharedRelationFails(r)
  PROVE  BooksInv'
  <1>0. /\ BooksOf(r) /\ Reqs = {r} /\ req[r] \in Request /\ InsertAlone(r) /\ DeleteAlone(r)
        /\ pc \in [Reqs -> Phases] /\ req \in [Reqs -> Request]
        /\ txUsed \in [Reqs -> [Users -> Nat \cup {NoWrite}]]
        /\ DOMAIN txRow = Reqs /\ charged \in [Users -> Nat]
    BY RequestsOfSoleRows DEF AloneInv, TypeInv, TypeOK
  <1>1. Return(r) => /\ pc'[r] = "idle" /\ req'[r] = NoRequest
                     /\ txRow'[r] = NoRows /\ txUsed'[r] = NoUsed
    BY <1>0 DEF Return, Goto, Discard
  <1>2. CASE CommitSharedRelation(r) \/ SharedRelationFails(r)
    <2>1. /\ pc[r] = "relate" /\ Return(r) /\ UNCHANGED <<fileRow, columns, storage, charged>>
      BY <1>2 DEF CommitSharedRelation, SharedRelationFails, dbVars
    <2>2. \A f \in FileIds : ~NewRow(r, f) /\ ~TakenOff(r, f)
      BY <2>1 DEF NewRow, TakenOff
    <2>3. BooksOf(r)' /\ \A f \in FileIds : ~NewRow(r, f)' /\ ~TakenOff(r, f)'
      BY <1>1, <2>1, BooksClosed
    <2> HIDE DEF NewRow, TakenOff, BooksOf
    <2> QED BY <2>1, <2>2, <2>3, BooksKept
  <1>3. CASE StatementFails(r)
    <2>1. /\ pc[r] \in {"charge", "deleteRow", "deletePermission"} /\ txSt[r] # "open"
          /\ Return(r) /\ UNCHANGED <<fileRow, columns, storage, charged>>
      BY <1>3 DEF StatementFails, dbVars
    <2>2. req[r].path \notin DeletePaths
      BY <1>0, <2>1 DEF DeleteAlone
    <2>3. pc[r] = "charge" /\ req[r].path \in {"upload", "create"}
      BY <1>0, <2>1, <2>2 DEF InsertAlone
    <2>4. PICK n \in FileIds, u \in Users : /\ n \in RowsOf(u) /\ fileRow[n] = "absent"
                                            /\ Debited = {} /\ Uncharged = {n}
      BY <2>3, ChargesNewRow DEF Charging
    <2>5. BooksOf(r)' /\ \A f \in FileIds : ~NewRow(r, f)' /\ ~TakenOff(r, f)'
      BY <1>1, <2>1, BooksClosed
    <2> HIDE DEF NewRow, TakenOff, BooksOf
    <2> QED BY <1>0, <2>1, <2>4, <2>5, BooksCounted
  <1>4. CASE Charge(r)
    <2>1. /\ pc[r] = "charge" /\ pc'[r] = "commit" /\ txSt[r] = "open"
          /\ UNCHANGED <<fileRow, columns, storage, req, up, txSt, txRow>>
          /\ LET size == SizeOf[req[r].cid] IN
             /\ txUsed' = [txUsed EXCEPT ![r][req[r].user] = req[r].used + size]
             /\ charged' = [charged EXCEPT ![req[r].user] = @ + size]
      BY <1>0, <1>4 DEF Charge, Ready, WriteUsed, Goto, dbVars
    <2>2. req[r].path \in {"upload", "create"}
      <3>1. req[r].path \notin DeletePaths
        BY <1>0, <2>1 DEF DeleteAlone, DeletePaths, DeletePhases
      <3> QED BY <1>0, <2>1, <3>1 DEF InsertAlone
    <2>3. PICK n \in FileIds, u \in Users :
             /\ n = nextId - 1 /\ u = req[r].user /\ n \in RowsOf(u)
             /\ fileCid[n] = req[r].cid /\ fileRow[n] = "absent" /\ Debited = {}
             /\ Uncharged = {n} /\ req[r].used = storage[u]
      BY <2>1, <2>2, ChargesNewRow DEF Charging
    <2>4. /\ charged'[u] = charged[u] + SizeOf[fileCid[n]]
          /\ \A v \in Users \ {u} : charged'[v] = charged[v]
      BY <1>0, <2>1, <2>3
    <2>5. txUsed[r] = NoUsed
      BY <1>0, <2>1 DEF BooksOf, WritesAlone
    <2>6. txUsed'[r] = [NoUsed EXCEPT ![req[r].user] = req[r].used + SizeOf[req[r].cid]]
      BY <1>0, <2>1, <2>5
    <2>7. ChargeAlone(r) /\ DebitAlone(r) /\ WritesAlone(r)
      BY <1>0 DEF BooksOf
    <2>8. ChargeAlone(r)'
      BY <2>1, <2>2, <2>6, <2>7 DEF ChargeAlone, Charging, columns
    <2>9. BooksOf(r)'
      <3>1. WritesAlone(r)' /\ DebitAlone(r)'
        BY <2>1, <2>2, <2>7 DEF WritesAlone, DebitAlone, columns
      <3> QED BY <2>1, <2>2, <2>8, <3>1 DEF BooksOf
    <2>10. \A f \in FileIds : ~NewRow(r, f)' /\ ~TakenOff(r, f)'
      BY <2>1, <2>2 DEF NewRow, TakenOff
    <2>11. UNCHANGED <<columns, storage>> /\ fileRow' = fileRow
      BY <2>1
    <2> HIDE DEF NewRow, TakenOff, BooksOf
    <2> QED BY <1>0, <2>3, <2>4, <2>9, <2>10, <2>11, BooksCounted
  <1> QED BY <1>2, <1>3, <1>4

(* What a request has written becomes what is there. *)
LEMMA BooksOfCommit ==
  ASSUME Alone, TypeInv, TypeInv', RowsInv, AloneInv, BooksInv, OwnRows, NEW r \in Reqs,
         Commit(r)
  PROVE  BooksInv'
  <1>0. /\ BooksOf(r) /\ Reqs = {r} /\ req[r] \in Request /\ InsertAlone(r) /\ DeleteAlone(r)
        /\ pc \in [Reqs -> Phases] /\ req \in [Reqs -> Request] /\ DOMAIN txRow = Reqs
        /\ DOMAIN txUsed = Reqs /\ storage \in [Users -> Nat]
        /\ fileRow \in [FileIds -> RowStates]
        /\ txRow[r] \in [FileIds -> {None, "live", "deleted"}]
    BY RequestsOfSoleRows DEF AloneInv, TypeInv, TypeOK
  <1>1. /\ pc[r] = "commit" /\ pc'[r] = "idle" /\ req'[r] = NoRequest
        /\ txRow'[r] = NoRows /\ txUsed'[r] = NoUsed /\ UNCHANGED <<columns, charged>>
        /\ \/ txSt[r] = "open" /\ Publish(r)
           \/ txSt[r] # "open" /\ UNCHANGED dbVars
    BY <1>0 DEF Commit, Return, Goto, Discard
  <1>2. BooksOf(r)' /\ \A f \in FileIds : ~NewRow(r, f)' /\ ~TakenOff(r, f)'
    BY <1>1, BooksClosed
  <1>3. req[r].path \in {"upload", "create", "pool", "share", "sole"}
    BY <1>0, <1>1, RequestsOfSoleRows DEF InsertAlone, DeletePaths
  <1>4. ASSUME \A f \in FileIds : txRow[r][f] = None, txUsed[r] = NoUsed
        PROVE  UNCHANGED <<fileRow, storage>>
    <2>1. CASE txSt[r] # "open"
      BY <1>1, <2>1 DEF dbVars
    <2>2. CASE txSt[r] = "open"
      <3>1. fileRow' = [f \in FileIds |-> fileRow[f]] /\ storage' = [u \in Users |-> storage[u]]
        BY <1>1, <1>4, <2>2 DEF Publish, NoUsed
      <3> QED BY <1>0, <3>1
    <2> QED BY <2>1, <2>2
  <1>5. ASSUME \A f \in FileIds : txRow[r][f] = None, txUsed[r] = NoUsed,
               req[r].path # "sole"
        PROVE  BooksInv'
    <2>1. \A f \in FileIds : ~NewRow(r, f) /\ ~TakenOff(r, f)
      BY <1>1, <1>5 DEF NewRow, TakenOff, None
    <2>2. UNCHANGED <<fileRow, columns, storage, charged>>
      BY <1>1, <1>4, <1>5
    <2> HIDE DEF NewRow, TakenOff, BooksOf
    <2> QED BY <1>2, <2>1, <2>2, BooksKept
  <1>6. \A f \in FileIds : txRow[r][f] \in {None, "live", "deleted"}
    BY <1>0
  <1>7. CASE req[r].path = "share"
    <2>1. txUsed[r] = NoUsed /\ \A f \in FileIds : txRow[r][f] = None
      BY <1>0, <1>7 DEF BooksOf, WritesAlone
    <2> QED BY <1>5, <1>7, <2>1
  <1>8. CASE req[r].path = "pool"
    <2>1. txUsed[r] = NoUsed
      BY <1>0, <1>8 DEF BooksOf, WritesAlone
    <2>2. CASE \A f \in FileIds : txRow[r][f] = None
      BY <1>5, <1>8, <2>1, <2>2
    <2>3. CASE \E f \in FileIds : txRow[r][f] # None
      <3>1. PICK n \in FileIds : n = nextId - 1 /\ txRow[r][n] = "live"
        BY <1>0, <1>8, <2>3 DEF BooksOf, WritesAlone
      <3>2. \A f \in FileIds \ {n} : txRow[r][f] = None
        BY <1>0, <1>8, <3>1 DEF BooksOf, WritesAlone
      <3>3. fileRow[n] = "absent"
        BY <3>1 DEF RowsInv, InsertsBoth
      <3>4. txSt[r] = "open"
        BY <1>0, <1>8, <3>1 DEF InsertAlone, DeletePaths
      <3>5. PICK u \in Users : u = fileUser[n]
        BY DEF TypeInv, TypeOK
      <3>6. n \in RowsOf(u)
        BY <3>1, <3>5, IdsAreNumbers DEF RowsOf, Inserted, TypeInv, TypeOK
      <3>7. /\ \A f \in FileIds \ {n} : fileRow'[f] = fileRow[f]
            /\ storage' = [v \in Users |-> storage[v]]
        BY <1>1, <2>1, <3>2, <3>4 DEF Publish, NoUsed
      <3>8. storage' = storage
        BY <1>0, <3>7
      <3>9. Uncharged = {n} /\ Debited = {}
        <4>1. \A f \in FileIds : (NewRow(r, f) <=> f = n) /\ ~TakenOff(r, f)
          BY <1>1, <1>8, <3>1 DEF NewRow, TakenOff
        <4> HIDE DEF NewRow, TakenOff
        <4> QED BY <1>0, <4>1 DEF Uncharged, Debited
      <3>10. fileRow[n] # "live"
        BY <3>3
      <3>11. UNCHANGED <<columns, storage>> /\ charged' = charged
        BY <1>1, <3>8
      <3> HIDE DEF NewRow, TakenOff, BooksOf
      <3> QED BY <1>0, <1>2, <3>6, <3>7, <3>9, <3>10, <3>11, BooksCounted
    <2> QED BY <2>2, <2>3
  <1>9. CASE req[r].path \in {"upload", "create"}
    <2>1. PICK n \in FileIds, u \in Users :
             /\ n = nextId - 1 /\ u = req[r].user /\ n \in RowsOf(u)
             /\ fileCid[n] = req[r].cid /\ fileRow[n] = "absent" /\ Debited = {}
             /\ Uncharged = {} /\ req[r].used = storage[u]
             /\ \A f \in FileIds \ {n} : txRow[r][f] = None
      BY <1>1, <1>9, ChargesNewRow DEF Charging
    <2>2. Uncharged' = {} /\ Debited' = {}
      <3> HIDE DEF NewRow, TakenOff
      <3> QED BY <1>0, <1>2 DEF Uncharged, Debited
    <2>3. \A v \in Users : RowsOf(v)' = RowsOf(v)
      BY <1>1 DEF RowsOf, Inserted, columns
    <2>4. fileCid' = fileCid /\ charged' = charged
      BY <1>1 DEF columns
    <2>5. CASE txSt[r] # "open"
      <3>1. UNCHANGED <<fileRow, columns, storage, charged>>
        BY <1>1, <2>5 DEF dbVars
      <3>2. \A f \in FileIds : ~NewRow(r, f) /\ ~TakenOff(r, f)
        BY <1>1, <1>9 DEF NewRow, TakenOff
      <3> HIDE DEF NewRow, TakenOff, BooksOf
      <3> QED BY <1>2, <3>1, <3>2, BooksKept
    <2>6. CASE txSt[r] = "open"
      <3>1. /\ txRow[r][n] = "live"
            /\ txUsed[r] = [NoUsed EXCEPT ![u] = storage[u] + SizeOf[fileCid[n]]]
        BY <1>0, <1>1, <1>9, <2>1, <2>6 DEF BooksOf, ChargeAlone, Charging
      <3>2. fileRow'[n] = "live" /\ \A f \in FileIds \ {n} : fileRow'[f] = fileRow[f]
        BY <1>1, <2>1, <2>6, <3>1 DEF Publish, None
      <3>3. storage[u] + SizeOf[fileCid[n]] \in Nat
        <4>1. fileCid[n] \in Cids /\ storage[u] \in Nat
          BY DEF TypeInv, TypeOK
        <4> QED BY <4>1, ConstantsAssumption
      <3>4. /\ txUsed[r][u] = storage[u] + SizeOf[fileCid[n]] /\ txUsed[r][u] # NoWrite
            /\ \A v \in Users \ {u} : txUsed[r][v] = NoWrite
        BY <3>1, <3>3 DEF NoUsed, NoWrite
      <3>5. /\ storage'[u] = storage[u] + SizeOf[fileCid[n]]
            /\ \A v \in Users \ {u} : storage'[v] = storage[v]
        BY <1>1, <2>6, <3>4 DEF Publish
      <3>6. /\ LiveRowsOf(u)' = LiveRowsOf(u) \cup {n} /\ n \notin LiveRowsOf(u)
            /\ \A v \in Users \ {u} : LiveRowsOf(v)' = LiveRowsOf(v)
        <4>1. \A v \in Users \ {u} : n \notin RowsOf(v)
          BY <2>1 DEF RowsOf
        <4>2. \A v \in Users : \A f \in RowsOf(v) : f \in FileIds
          BY DEF RowsOf, Inserted
        <4> QED BY <2>1, <2>3, <3>2, <4>1, <4>2 DEF LiveRowsOf
      <3>7. Balanced(u)'
        <4>1. /\ (RowsOf(u) \ Uncharged)' = RowsOf(u) \ Uncharged
              /\ (LiveRowsOf(u) \ Debited)' = (LiveRowsOf(u) \ Debited) \cup {n}
              /\ n \notin LiveRowsOf(u) \ Debited
          BY <2>1, <2>2, <2>3, <3>6
        <4>2. /\ Balanced(u) /\ charged'[u] = charged[u]
              /\ \A f \in RowsOf(u) : fileCid'[f] = fileCid[f]
              /\ storage'[u] = storage[u] + SizeOf[fileCid'[n]]
          BY <2>4, <3>5 DEF BooksInv
        <4> QED BY <4>1, <4>2, BalancedUsed
      <3>8. ASSUME NEW v \in Users \ {u} PROVE Balanced(v)'
        <4>1. /\ (RowsOf(v) \ Uncharged)' = RowsOf(v) \ Uncharged
              /\ (LiveRowsOf(v) \ Debited)' = LiveRowsOf(v) \ Debited
          BY <2>1, <2>2, <2>3, <3>6
        <4> QED BY <2>4, <3>5, <4>1, BalancedStays DEF BooksInv
      <3>9. \A v \in Users : Balanced(v)'
        BY <3>7, <3>8
      <3>10. \A q \in Reqs : BooksOf(q)'
        BY <1>0, <1>2
      <3> QED BY <3>9, <3>10 DEF BooksInv
    <2> QED BY <2>5, <2>6
  <1>10. CASE req[r].path = "sole"
    <2>1. PICK n \in FileIds : n = req[r].file
      BY <1>0, <1>10 DEF DeleteAlone, DeletePaths
    <2>2. /\ txSt[r] = "open" /\ txRow[r][n] = "deleted" /\ fileRow[n] = "live"
          /\ txUsed[r] = NoUsed /\ \A f \in FileIds \ {n} : txRow[r][f] = None
      BY <1>0, <1>1, <1>10, <2>1
         DEF DeleteAlone, DeletePaths, RowIsDeleted, BooksOf, WritesAlone
    <2>3. /\ fileRow'[n] = "deleted" /\ \A f \in FileIds \ {n} : fileRow'[f] = fileRow[f]
          /\ storage' = [v \in Users |-> storage[v]]
      BY <1>1, <2>2 DEF Publish, None, NoUsed
    <2>4. storage' = storage /\ fileCid' = fileCid /\ charged' = charged
      BY <1>0, <1>1, <2>3 DEF columns
    <2>5. Uncharged' = {} /\ Debited' = {} /\ Uncharged = {} /\ Debited = {n}
      <3>1. \A f \in FileIds : ~NewRow(r, f) /\ (TakenOff(r, f) <=> f = n)
        BY <1>1, <1>10, <2>1 DEF NewRow, TakenOff
      <3> HIDE DEF NewRow, TakenOff
      <3> QED BY <1>0, <1>2, <3>1 DEF Uncharged, Debited
    <2>6. \A v \in Users : RowsOf(v)' = RowsOf(v)
      BY <1>1 DEF RowsOf, Inserted, columns
    <2>7. \A v \in Users : LiveRowsOf(v)' = LiveRowsOf(v) \ {n}
      <3>1. \A v \in Users : \A f \in RowsOf(v) : f \in FileIds
        BY DEF RowsOf, Inserted
      <3> QED BY <2>3, <2>6, <3>1 DEF LiveRowsOf
    <2>8. ASSUME NEW v \in Users PROVE Balanced(v)'
      <3>1. /\ (RowsOf(v) \ Uncharged)' = RowsOf(v) \ Uncharged
            /\ (LiveRowsOf(v) \ Debited)' = LiveRowsOf(v) \ Debited
        BY <2>5, <2>6, <2>7
      <3> QED BY <2>4, <3>1, BalancedStays DEF BooksInv
    <2>9. \A q \in Reqs : BooksOf(q)'
      BY <1>0, <1>2
    <2> QED BY <2>8, <2>9 DEF BooksInv
  <1> QED BY <1>3, <1>7, <1>8, <1>9, <1>10

(* A call owes nothing yet. *)
LEMMA BooksOfCalls ==
  ASSUME Alone, TypeInv, AloneInv, BooksInv, OwnRows, NEW r \in Reqs, Calls(r)
  PROVE  BooksInv'
  <1>1. PICK route \in Routes, p \in Phases, q \in Request :
           Call(r, route, p, q) /\ NewRequest(p, q)
    BY CallsMakeRequests
  <1>2. /\ BooksOf(r) /\ InsertAlone(r) /\ DeleteAlone(r) /\ pc[r] = "idle"
        /\ req'[r] = q /\ pc'[r] = p
        /\ UNCHANGED <<fileRow, columns, storage, charged, up, txRow, txUsed>>
    BY <1>1, RequestsOfSoleRows DEF Call, Goto, dbVars, AloneInv, TypeInv, TypeOK
  <1>3. req[r].path = "none"
    <2>1. req[r].path \notin DeletePaths
      BY <1>2 DEF DeleteAlone, DeletePaths, DeletePhases
    <2> QED BY <1>2, <2>1 DEF InsertAlone
  <1>4. txUsed[r] = NoUsed /\ \A f \in FileIds : txRow[r][f] = None
    BY <1>2, <1>3 DEF BooksOf, WritesAlone
  <1>5. /\ q.path \in Routes /\ p \in {"insert", "head", "poolHead", "holders"}
        /\ p = "poolHead" => q.path = "pool"
        /\ q.path = "delete" => p = "holders"
    BY <1>1 DEF NewRequest
  <1>6. BooksOf(r)'
    BY <1>2, <1>4, <1>5 DEF BooksOf, ChargeAlone, DebitAlone, WritesAlone, Charging, columns, Routes
  <1>7. \A f \in FileIds : /\ ~NewRow(r, f) /\ ~NewRow(r, f)'
                           /\ ~TakenOff(r, f) /\ ~TakenOff(r, f)'
    BY <1>2, <1>5 DEF NewRow, TakenOff
  <1> HIDE DEF BooksOf, NewRow, TakenOff
  <1> QED BY <1>2, <1>6, <1>7, BooksKept

(* An upload that ends changes no account. *)
LEMMA BooksOfUploads ==
  ASSUME Alone, TypeInv, AloneInv, BooksInv, OwnRows, NEW r \in Reqs, NEW f \in FileIds,
         UploadDone(f) \/ UploadFail(f)
  PROVE  BooksInv'
  <1>1. /\ BooksOf(r) /\ Reqs = {r} /\ InsertAlone(r) /\ DeleteAlone(r)
        /\ up \in [FileIds -> {"none", "running", "done", "failed"}]
        /\ DOMAIN txRow = Reqs /\ DOMAIN txUsed = Reqs /\ DOMAIN txSt = Reqs
    BY RequestsOfSoleRows DEF AloneInv, TypeInv, TypeOK
  <1>2. /\ UNCHANGED <<fileRow, columns, storage, charged, pc, req>> /\ up[f] = "running"
        /\ \A g \in FileIds : up[g] = "none" => up'[g] = "none"
    BY <1>1 DEF UploadDone, UploadFail, dbVars
  <1>3. \/ UNCHANGED <<txSt, txRow, txUsed>>
        \/ /\ txRow[r][f] = "live" /\ txSt'[r] = "closed"
           /\ txRow'[r] = NoRows /\ txUsed'[r] = NoUsed
    BY <1>1 DEF UploadDone, UploadFail, txVars, Discard
  <1>4. ChargeAlone(r) /\ DebitAlone(r) /\ WritesAlone(r)
    BY <1>1 DEF BooksOf
  <1>5. ChargeAlone(r)' /\ DebitAlone(r)' /\ WritesAlone(r)'
    <2>1. CASE UNCHANGED <<txSt, txRow, txUsed>>
      BY <1>2, <1>4, <2>1 DEF ChargeAlone, DebitAlone, WritesAlone, columns
    <2>2. CASE txSt'[r] = "closed" /\ txRow'[r] = NoRows /\ txUsed'[r] = NoUsed
      BY <1>2, <1>4, <2>2 DEF ChargeAlone, DebitAlone, WritesAlone, columns, NoRows
    <2> QED BY <1>3, <2>1, <2>2
  <1>6. BooksOf(r)'
    BY <1>1, <1>2, <1>5 DEF BooksOf
  <1>7. \A g \in FileIds : NewRow(r, g)' <=> NewRow(r, g)
    <2>1. CASE UNCHANGED <<txSt, txRow, txUsed>>
      BY <1>2, <2>1 DEF NewRow, columns
    <2>2. CASE txRow[r][f] = "live"
      <3>1. req[r].path # "pool"
        BY <1>2, <1>4, <2>2 DEF WritesAlone, None
      <3> QED BY <1>2, <3>1 DEF NewRow, columns
    <2> QED BY <1>3, <2>1, <2>2
  <1>8. \A g \in FileIds : TakenOff(r, g)' <=> TakenOff(r, g)
    BY <1>2 DEF TakenOff
  <1> HIDE DEF BooksOf, NewRow, TakenOff
  <1> QED BY <1>2, <1>6, <1>7, <1>8, BooksKept

(* The columns of a row are written when it is inserted, and never again. *)
LEMMA ColumnsStay ==
  ASSUME TypeInv, [Next]_vars
  PROVE  /\ nextId <= nextId'
         /\ \A f \in FileIds : f < nextId => /\ fileCid'[f] = fileCid[f]
                                            /\ fileUser'[f] = fileUser[f]
  <1> DEFINE Stay == /\ nextId <= nextId'
                     /\ \A f \in FileIds : f < nextId => /\ fileCid'[f] = fileCid[f]
                                                        /\ fileUser'[f] = fileUser[f]
  <1>0. /\ nextId \in Nat /\ \A f \in FileIds : f \in Nat
        /\ fileCid \in [FileIds -> Cids] /\ fileUser \in [FileIds -> Users]
    BY IdsAreNumbers DEF TypeInv, TypeOK
  <1>1. ASSUME UNCHANGED columns
        PROVE  /\ nextId <= nextId'
         /\ \A f \in FileIds : f < nextId => /\ fileCid'[f] = fileCid[f]
                                            /\ fileUser'[f] = fileUser[f]
    BY <1>0, <1>1 DEF columns
  <1>2. ASSUME NEW r \in Reqs, Calls(r) PROVE UNCHANGED columns
    BY <1>2 DEF Calls, PutUploadFiles, CreateFile, CheckFilesExistInPool,
                ShareFile, DeleteFile, Call
  <1>3. ASSUME NEW r \in Reqs, Step(r)
        PROVE  UNCHANGED columns \/ TxCreate(r) \/ CommitSharedCopy(r)
    <2>1. CASE \/ HeadObject(r) \/ DecideInPool(r) \/ HeadPoolObject(r)
               \/ ReadUsed(r) \/ FindUsersByFileCID(r)
               \/ FindFilesByUserAndFileCID(r) \/ IsFileOwner(r)
               \/ GetNextOwner(r) \/ GetNextFileUser(r) \/ ReadNextUsed(r)
               \/ SetNextFileInPool(r) \/ StatementFailsUnnoticed(r)
      BY <2>1 DEF HeadObject, DecideInPool, HeadPoolObject, ReadUsed,
                  FindUsersByFileCID, FindFilesByUserAndFileCID, IsFileOwner,
                  GetNextOwner, GetNextFileUser, ReadNextUsed,
                  SetNextFileInPool, StatementFailsUnnoticed, Panic, Reads
    <2>2. CASE \/ Charge(r) \/ DebitOwner(r) \/ CreditNextOwner(r)
               \/ DeleteFileFromS3(r) \/ DebitNow(r) \/ DeleteFileUser(r)
               \/ DeleteFilePermission(r) \/ SetOwnerPermision(r)
               \/ StatementFails(r) \/ DeadlockVictim(r)
      BY <2>2 DEF Charge, DebitOwner, CreditNextOwner, WriteUsed,
                  DeleteFileFromS3, DebitNow, DeleteFileUser,
                  DeleteFilePermission, SetOwnerPermision, StatementFails,
                  DeadlockVictim
    <2>3. CASE Commit(r) \/ CommitSharedRelation(r) \/ SharedRelationFails(r)
      BY <2>3 DEF Commit, CommitSharedRelation, SharedRelationFails
    <2> QED BY <1>3, <2>1, <2>2, <2>3 DEF Step
  <1>4. ASSUME \/ \E f \in FileIds : UploadDone(f) \/ UploadFail(f)
               \/ Crash \/ UNCHANGED vars
        PROVE  UNCHANGED columns
    BY <1>4 DEF UploadDone, UploadFail, Crash, vars, columns
  <1>5. ASSUME NEW r \in Reqs, TxCreate(r) \/ CommitSharedCopy(r)
        PROVE  /\ nextId <= nextId'
         /\ \A f \in FileIds : f < nextId => /\ fileCid'[f] = fileCid[f]
                                            /\ fileUser'[f] = fileUser[f]
    <2>1. /\ nextId \in FileIds /\ nextId' = nextId + 1
          /\ fileCid' = [fileCid EXCEPT ![nextId] = req[r].cid]
          /\ fileUser' = [fileUser EXCEPT ![nextId] = req[r].user]
      BY <1>5 DEF TxCreate, CommitSharedCopy
    <2> QED BY <1>0, <2>1
  <1> QED BY <1>1, <1>2, <1>3, <1>4, <1>5 DEF Next

(* A transaction takes away the permission of the file that its request deletes, and
   only if the request is of the user of the file. *)
TakesOwn(r) == \A f \in FileIds : txPerm[r][f] = "deleted" =>
                  req[r].path \in DeletePaths /\ req[r].file = f /\ Related(r)

(* The request goes on to delete what it has begun to delete. *)
GoesOn(r) == /\ req'[r].file = req[r].file /\ req'[r].user = req[r].user
             /\ req[r].path \in DeletePaths => req'[r].path \in DeletePaths
             /\ req[r].path \in {"delete", "sole"} /\ pc[r] # "isOwner" =>
                   req'[r].path \in {"delete", "sole"}

(* A delete of the only row of a content ends with its commit. *)
LEMMA DeletesEnd ==
  ASSUME Alone, TypeInv, AloneInv, NEW r \in Reqs, Step(r)
  PROVE  \/ GoesOn(r) /\ \/ UNCHANGED txPerm
                         \/ txPerm'[r] = NoRows
                         \/ DeleteFilePermission(r)
                         \/ SetOwnerPermision(r)
                         \/ TxCreate(r)
         \/ /\ txPerm'[r] = NoRows /\ req[r].path \notin DeletePaths
         \/ /\ txPerm'[r] = NoRows /\ pc[r] = "commit" /\ txSt[r] = "open" /\ Publish(r)
  <1>0. /\ Reqs = {r} /\ DeleteAlone(r) /\ InsertAlone(r) /\ req[r] \in Request
        /\ req \in [Reqs -> Request] /\ DOMAIN txPerm = Reqs
    BY OnlyRequest DEF AloneInv, TypeInv, TypeOK
  <1>1. ASSUME NEW p, NEW q, Reads(r, p, q), q.file = req[r].file, q.user = req[r].user,
               \/ q.path = req[r].path
               \/ q.path \in DeletePaths /\ (pc[r] = "isOwner" \/ q.path = "sole")
        PROVE  GoesOn(r) /\ UNCHANGED txPerm
    BY <1>0, <1>1 DEF Reads, GoesOn, txVars
  <1>2. CASE \/ HeadObject(r) \/ HeadPoolObject(r) \/ GetNextOwner(r)
             \/ SetNextFileInPool(r) \/ StatementFailsUnnoticed(r)
    <2>1. PICK p, q : Reads(r, p, q) /\ (q = req[r] \/ \E g : q = [req[r] EXCEPT !.next = g])
      BY <1>2 DEF HeadObject, HeadPoolObject, GetNextOwner, SetNextFileInPool,
                  StatementFailsUnnoticed, Panic
    <2>2. q.file = req[r].file /\ q.user = req[r].user /\ q.path = req[r].path
      BY <1>0, <2>1 DEF Request
    <2> QED BY <1>1, <2>1, <2>2
  <1>3. CASE \/ DecideInPool(r) \/ ReadUsed(r) \/ ReadNextUsed(r)
             \/ FindUsersByFileCID(r) \/ FindFilesByUserAndFileCID(r) \/ IsFileOwner(r)
    <2>1. PICK p, q :
             /\ Reads(r, p, q)
             /\ \/ \E x : \/ q = [req[r] EXCEPT !.perm = x]
                         \/ q = [req[r] EXCEPT !.used = x]
                         \/ q = [req[r] EXCEPT !.others = x]
                         \/ q = [req[r] EXCEPT !.copies = x]
                \/ \E x \in DeletePaths : /\ q = [req[r] EXCEPT !.path = x]
                                          /\ pc[r] = "isOwner" \/ x = "sole"
      BY <1>3 DEF DecideInPool, ReadUsed, ReadNextUsed, FindUsersByFileCID,
                  FindFilesByUserAndFileCID, IsFileOwner, DeletePaths
    <2>2. /\ q.file = req[r].file /\ q.user = req[r].user
          /\ \/ q.path = req[r].path
             \/ q.path \in DeletePaths /\ (pc[r] = "isOwner" \/ q.path = "sole")
      BY <1>0, <2>1 DEF Request
    <2> QED BY <1>1, <2>1, <2>2
  <1>4. ~GetNextFileUser(r)
    <2>1. pc[r] # "nextCopy"
      BY <1>0 DEF DeleteAlone, InsertAlone, DeletePaths, DeletePhases
    <2> QED BY <2>1 DEF GetNextFileUser
  <1>5. CASE \/ TxCreate(r) \/ Charge(r) \/ DebitOwner(r) \/ CreditNextOwner(r)
             \/ DeleteFileFromS3(r) \/ DebitNow(r) \/ DeleteFileUser(r)
             \/ DeleteFilePermission(r) \/ SetOwnerPermision(r) \/ DeadlockVictim(r)
    <2>1. req' = req
      BY <1>5 DEF TxCreate, Charge, DebitOwner, CreditNextOwner, WriteUsed, DeleteFileFromS3,
                  DebitNow, DeleteFileUser, DeleteFilePermission, SetOwnerPermision,
                  DeadlockVictim
    <2>2. DeadlockVictim(r) => txPerm'[r] = NoRows
      BY <1>0 DEF DeadlockVictim, Discard
    <2>3. \/ Charge(r) \/ DebitOwner(r) \/ CreditNextOwner(r)
          \/ DeleteFileFromS3(r) \/ DebitNow(r) \/ DeleteFileUser(r)
          => txPerm' = txPerm
      BY DEF Charge, DebitOwner, CreditNextOwner, WriteUsed, DeleteFileFromS3,
             DebitNow, DeleteFileUser, txVars
    <2> QED BY <1>5, <2>1, <2>2, <2>3 DEF GoesOn
  <1>6. CASE CommitSharedCopy(r)
    <2>1. req'[r] = [req[r] EXCEPT !.next = nextId] /\ txPerm' = txPerm
      BY <1>0, <1>6 DEF CommitSharedCopy, txVars
    <2> QED BY <1>0, <2>1 DEF Request, GoesOn
  <1>7. Return(r) => txPerm'[r] = NoRows
    BY <1>0 DEF Return, Discard
  <1>8. CASE CommitSharedRelation(r) \/ SharedRelationFails(r) \/ StatementFails(r)
    <2>1. Return(r) /\ (pc[r] = "relate" \/ txSt[r] # "open")
      BY <1>8 DEF CommitSharedRelation, SharedRelationFails, StatementFails
    <2>2. req[r].path \notin DeletePaths
      BY <1>0, <2>1 DEF DeleteAlone, DeletePaths, DeletePhases
    <2> QED BY <1>7, <2>1, <2>2
  <1>9. CASE Commit(r)
    <2>1. /\ pc[r] = "commit" /\ Return(r)
          /\ txSt[r] = "open" => Publish(r)
      BY <1>9 DEF Commit
    <2>2. txSt[r] # "open" => req[r].path \notin DeletePaths
      BY <1>0 DEF DeleteAlone
    <2> QED BY <1>7, <2>1, <2>2
  <1> QED BY <1>2, <1>3, <1>4, <1>5, <1>6, <1>8, <1>9 DEF Step

(* What a transaction takes away goes on being its own. *)
LEMMA TakesOwnInductive ==
  ASSUME Alone, TypeInv, TypeInv', RowsInv, AloneInv, [Next]_vars,
         \A r \in Reqs : TakesOwn(r)
  PROVE  \A r \in Reqs : TakesOwn(r)'
  <1> SUFFICES ASSUME NEW r \in Reqs PROVE TakesOwn(r)'
    OBVIOUS
  <1>0. /\ Reqs = {r} /\ TakesOwn(r) /\ DeleteAlone(r) /\ InsertAlone(r) /\ InsertsBoth(r)
        /\ txPerm \in [Reqs -> [FileIds -> Permissions \cup {None}]]
    BY OnlyRequest DEF AloneInv, RowsInv, TypeInv, TypeOK
  <1>1. \A f \in FileIds : txPerm[r][f] = "deleted" => fileUser'[f] = fileUser[f]
    <2> TAKE f \in FileIds
    <2> HAVE txPerm[r][f] = "deleted"
    <2>1. ~(nextId <= f)
      BY <1>0 DEF InsertsBoth, None
    <2> QED BY <2>1, ColumnsStay, IdsAreNumbers DEF TypeInv, TypeOK
  <1>2. ASSUME GoesOn(r),
               \A f \in FileIds : txPerm'[r][f] = "deleted" => txPerm[r][f] = "deleted"
        PROVE  TakesOwn(r)'
    BY <1>0, <1>1, <1>2 DEF TakesOwn, GoesOn, Related
  <1>3. ASSUME txPerm'[r] = NoRows PROVE TakesOwn(r)'
    BY <1>3 DEF TakesOwn, NoRows, None
  <1>4. ASSUME \A f \in FileIds : txPerm[r][f] # "deleted", txPerm' = txPerm
        PROVE  TakesOwn(r)'
    BY <1>4 DEF TakesOwn
  <1>5. ASSUME Step(r) PROVE TakesOwn(r)'
    <2>1. CASE DeleteFilePermission(r)
      <3>1. /\ req' = req /\ fileUser' = fileUser /\ pc[r] = "deletePermission"
            /\ txPerm' = IF Related(r)
                         THEN [txPerm EXCEPT ![r][req[r].file] = "deleted"]
                         ELSE txPerm
        BY <2>1 DEF DeleteFilePermission, Ready, columns
      <3>2. req[r].path \in DeletePaths
        BY <1>0, <3>1 DEF InsertAlone
      <3> QED BY <1>0, <3>1, <3>2 DEF TakesOwn, Related
    <2>2. CASE SetOwnerPermision(r) \/ TxCreate(r)
      <3>1. req' = req
        BY <2>2 DEF SetOwnerPermision, TxCreate
      <3>2. \E n : \E p \in {"owner", "shared", None} :
               txPerm' = [txPerm EXCEPT ![r] = [txPerm[r] EXCEPT ![n] = p]]
        <4>1. req[r].perm \in {"owner", "shared", None}
          BY DEF TypeInv, TypeOK, Request
        <4> QED BY <2>2, <4>1 DEF SetOwnerPermision, TxCreate
      <3>3. \A f \in FileIds : txPerm'[r][f] = "deleted" => txPerm[r][f] = "deleted"
        BY <1>0, <3>2 DEF None
      <3> QED BY <1>2, <3>1, <3>3 DEF GoesOn
    <2> QED BY <1>2, <1>3, <1>5, <2>1, <2>2, DeletesEnd
  <1>6. ASSUME Calls(r) PROVE TakesOwn(r)'
    <2>1. pc[r] = "idle" /\ txPerm' = txPerm
      BY <1>6 DEF Calls, PutUploadFiles, CreateFile, CheckFilesExistInPool,
                  ShareFile, DeleteFile, Call
    <2>2. req[r].path \notin DeletePaths
      BY <1>0, <2>1 DEF DeleteAlone, DeletePaths, DeletePhases
    <2> QED BY <1>0, <1>4, <2>1, <2>2 DEF TakesOwn
  <1>7. ASSUME NEW f \in FileIds, UploadDone(f) \/ UploadFail(f) PROVE TakesOwn(r)'
    <2>1. req' = req /\ (txPerm' = txPerm \/ txPerm'[r] = NoRows)
      BY <1>0, <1>7 DEF UploadDone, UploadFail, Discard, txVars
    <2> QED BY <1>2, <1>3, <2>1 DEF GoesOn
  <1>8. CASE UNCHANGED vars
    BY <1>2, <1>8 DEF vars, GoesOn
  <1>9. ~Crash
    BY DEF Alone, AloneInv, Crash
  <1> QED BY <1>0, <1>5, <1>6, <1>7, <1>8, <1>9 DEF Next

(* A row deleted by a stranger keeps its files_users row, and a stranger's delete can
   only be over by leaving such a row: once rows are not their users', they never are
   again. *)
LEMMA OwnRowsStay ==
  ASSUME Alone, TypeInv, TypeInv', RowsInv, AloneInv, [Next]_vars,
         \A r \in Reqs : TakesOwn(r), OwnRows'
  PROVE  OwnRows
  <1>1. /\ nextId <= nextId'
        /\ \A f \in FileIds : f < nextId => /\ fileCid'[f] = fileCid[f]
                                           /\ fileUser'[f] = fileUser[f]
    BY ColumnsStay
  <1>2. NoCopies
    BY <1>1, CopiesStay DEF OwnRows
  <1>3. \A f \in Inserted : f \in Inserted'
    BY <1>1, IdsAreNumbers DEF Inserted, TypeInv, TypeOK
  <1>4. ASSUME NEW r \in Reqs, Publish(r), NEW f \in Inserted,
               fileRow'[f] = "deleted", perm[f] # "deleted"
        PROVE  /\ req[r].path \in DeletePaths /\ req[r].file = f /\ Related(r)
               /\ fileRow[f] = "live"
    <2>1. perm'[f] = "deleted" /\ f \in FileIds
      BY <1>3, <1>4 DEF OwnRows, OwnDeletes, Inserted
    <2>2. txPerm[r][f] = "deleted"
      BY <1>4, <2>1 DEF Publish
    <2> QED BY <2>1, <2>2 DEF TakesOwn, AloneInv, DeleteAlone
  <1>5. OwnDeletes
    <2> SUFFICES ASSUME NEW f \in Inserted, fileRow[f] = "deleted", perm[f] # "deleted"
                 PROVE  FALSE
      BY DEF OwnDeletes
    <2>1. f \in FileIds /\ f # nextId /\ (fileRow'[f] = "deleted" => perm'[f] = "deleted")
      BY <1>3, IdsAreNumbers DEF OwnRows, OwnDeletes, Inserted, TypeInv, TypeOK
    <2>2. ASSUME NEW r \in Reqs, CommitSharedCopy(r) PROVE FALSE
      BY <2>1, <2>2 DEF CommitSharedCopy, TypeInv, TypeOK
    <2>3. ASSUME NEW r \in Reqs, CommitSharedRelation(r) PROVE FALSE
      BY <2>1, <2>3 DEF CommitSharedRelation, TypeInv, TypeOK
    <2>4. ASSUME NEW r \in Reqs, Publish(r) PROVE FALSE
      <3>1. fileRow'[f] = "deleted"
        <4>1. txRow[r][f] \in {None, "live", "deleted"} /\ txRow[r][f] # "live"
          BY <2>1 DEF TypeInv, TypeOK, RowsInv, InsertsBoth
        <4> QED BY <2>1, <2>4, <4>1 DEF Publish
      <3> QED BY <1>4, <2>4, <3>1
    <2> QED BY <2>1, <2>2, <2>3, <2>4, RowsWritten
  <1>6. ASSUME NEW r \in Reqs, req[r].path \in {"delete", "sole"} PROVE Related(r)
    <2> DEFINE n == req[r].file
    <2>0. /\ Reqs = {r} /\ DeleteAlone(r) /\ req[r].path \in DeletePaths
          /\ req[r] \in Request
      BY <1>6, OnlyRequest DEF AloneInv, DeletePaths, TypeInv, TypeOK
    <2>1. n \in FileIds /\ fileRow[n] = "live" /\ perm[n] # "deleted"
      BY <2>0 DEF DeleteAlone, RowsInv, LiveFilesKeepPermission
    <2>2. n \in Inserted
      BY <2>1, LiveRowsInserted
    <2>3. ASSUME GoesOn(r), req'[r].path \in {"delete", "sole"} PROVE Related(r)
      BY <1>1, <2>2, <2>3 DEF OwnRows, Related, GoesOn, Inserted
    <2>4. pc[r] # "isOwner"
      <3>1. \A f \in LiveRows(req[r].cid) : f \in Inserted /\ fileCid[f] = req[r].cid
        BY LiveRowsInserted DEF LiveRows
      <3>2. ~AtLeastTwo(Holders(req[r].cid))
        BY <1>2, <3>1 DEF AtLeastTwo, Holders, NoCopies
      <3> QED BY <2>0, <3>2 DEF DeleteAlone
    <2>5. ASSUME Step(r) PROVE Related(r)
      <3>1. CASE GoesOn(r)
        <4>1. req'[r].path \in {"delete", "sole"}
          BY <1>6, <2>4, <3>1 DEF GoesOn
        <4> QED BY <2>3, <3>1, <4>1
      <3>2. CASE pc[r] = "commit" /\ txSt[r] = "open" /\ Publish(r)
        <4>1. txRow[r][n] = "deleted"
          BY <2>0, <3>2 DEF DeleteAlone, RowIsDeleted
        <4>2. fileRow'[n] = "deleted"
          BY <2>1, <3>2, <4>1 DEF Publish, None
        <4> QED BY <1>4, <2>1, <2>2, <3>2, <4>2
      <3> QED BY <2>0, <2>5, <3>1, <3>2, DeletesEnd
    <2>6. CASE req' = req
      BY <1>6, <2>3, <2>6 DEF GoesOn
    <2>7. ~Calls(r)
      <3>1. pc[r] # "idle"
        BY <2>0 DEF DeleteAlone, DeletePaths, DeletePhases
      <3> QED BY <3>1 DEF Calls, PutUploadFiles, CreateFile, CheckFilesExistInPool,
                  ShareFile, DeleteFile, Call
    <2>8. ~Crash
      BY DEF Alone, AloneInv, Crash
    <2>9. (\E f \in FileIds : UploadDone(f) \/ UploadFail(f)) \/ UNCHANGED vars => req' = req
      BY DEF UploadDone, UploadFail, vars
    <2> QED BY <2>0, <2>5, <2>6, <2>7, <2>8, <2>9 DEF Next
  <1> QED BY <1>2, <1>5, <1>6 DEF OwnRows

(* At the start the accounts are as the administrator has filled them. *)
LEMMA InitBooks == ASSUME NothingOwed, Init PROVE BooksInv
  <1> DEFINE old == [f \in DOMAIN Preload |-> SizeOf[Preload[f].cid]]
             sizes == [f \in FileIds |-> SizeOf[fileCid[f]]]
             Of(u) == {f \in DOMAIN Preload : Preload[f].user = u}
  <1>1. /\ NoRequest.path = "none" /\ Len(Preload) \in Nat
        /\ DOMAIN Preload = 1..Len(Preload) /\ nextId = Len(Preload) + 1
        /\ storage = PreStorage /\ charged = PreStorage
    BY ConstantsAssumption DEF Init, NoRequest
  <1>2. /\ \A r \in Reqs : /\ req[r].path = "none" /\ pc[r] = "idle"
                           /\ txRow[r] = NoRows /\ txUsed[r] = NoUsed
    BY <1>1 DEF Init
  <1>3. \A r \in Reqs : BooksOf(r)
    BY <1>2 DEF BooksOf, ChargeAlone, DebitAlone, WritesAlone, NoRows
  <1>4. Uncharged = {} /\ Debited = {}
    BY <1>2 DEF Uncharged, Debited, NewRow, TakenOff
  <1>5. /\ \A f \in FileIds : f \in Inserted <=> f \in DOMAIN Preload
        /\ \A f \in DOMAIN Preload : f \in FileIds
    <2>1. MaxRequests \in Nat
      BY ConstantsAssumption
    <2>2. \A f \in FileIds : f \in Nat \ {0}
      BY IdsAreNumbers
    <2>3. \A f \in FileIds : f < Len(Preload) + 1 <=> f \in 1..Len(Preload)
      BY <1>1, <2>2
    <2>4. \A f \in 1..Len(Preload) : f \in FileIds
      BY <1>1, <2>1 DEF FileIds
    <2> QED BY <1>1, <2>3, <2>4 DEF Inserted
  <1>6. \A f \in DOMAIN Preload : /\ fileRow[f] = "live" /\ fileUser[f] = Preload[f].user
                                  /\ fileCid[f] = Preload[f].cid
    <2>1. \A f \in DOMAIN Preload : f <= Len(Preload)
      BY <1>1
    <2> QED BY <1>5, <2>1 DEF Init
  <1>7. ASSUME NEW u \in Users
        PROVE  RowsOf(u) = Of(u) /\ LiveRowsOf(u) = Of(u)
    <2>1. RowsOf(u) = Of(u)
      BY <1>5, <1>6 DEF RowsOf, Inserted
    <2>2. LiveRowsOf(u) = Of(u)
      BY <1>6, <2>1 DEF LiveRowsOf
    <2> QED BY <2>1, <2>2
  <1>8. ASSUME NEW u \in Users PROVE Balanced(u)
    <2>1. IsFiniteSet(Of(u)) /\ \A f \in Of(u) : old[f] = sizes[f]
      <3>1. Of(u) \in SUBSET FileIds
        BY <1>5
      <3>2. IsFiniteSet(Of(u))
        BY <3>1, FileIdsAreFinite, FS_Subset
      <3> QED BY <1>5, <1>6, <3>2
    <2>2. PreStorage[u] <= SumFunctionOnSet(old, Of(u))
      BY DEF NothingOwed
    <2>3. SumFunctionOnSet(old, Of(u)) = Size(Of(u))
      <3> HIDE DEF old, sizes, Of
      <3>1. SumFunctionOnSet(old, Of(u)) = SumFunctionOnSet(sizes, Of(u))
        BY <2>1, SumOfSame
      <3> QED BY <3>1 DEF Size, sizes
    <2>4. RowsOf(u) \ Uncharged = Of(u) /\ LiveRowsOf(u) \ Debited = Of(u)
      BY <1>4, <1>7
    <2> HIDE DEF old, sizes, Of
    <2> QED BY <1>1, <2>2, <2>3, <2>4 DEF Balanced
  <1> QED BY <1>3, <1>8 DEF BooksInv

(* If nobody was charged for more than there was, the accounts stay balanced as long as
   all contents differ. *)
LEMMA BooksInvHolds == ASSUME Alone, NothingOwed PROVE Spec => []BooksInv
  <1> DEFINE Taken == \A r \in Reqs : TakesOwn(r)
  <1>1. ASSUME TypeInv, TypeInv', RowsInv, AloneInv, Taken, BooksInv, [Next]_vars
        PROVE  BooksInv'
    <2> SUFFICES ASSUME OwnRows' PROVE BooksInv'
      BY DEF BooksInv
    <2>2. OwnRows
      BY <1>1, OwnRowsStay
    <2>3. CASE UNCHANGED vars
      <3>1. UNCHANGED <<fileRow, columns, storage, charged, pc, req, txSt, txRow, txUsed, up>>
        BY <2>3 DEF vars, columns
      <3>2. \A r \in Reqs : BooksOf(r)'
        BY <1>1, <2>2, <3>1
           DEF BooksInv, BooksOf, ChargeAlone, DebitAlone, WritesAlone, columns
      <3>3. /\ Uncharged' = Uncharged /\ Debited' = Debited
            /\ \A u \in Users : RowsOf(u)' = RowsOf(u) /\ LiveRowsOf(u)' = LiveRowsOf(u)
        BY <3>1 DEF Uncharged, Debited, NewRow, TakenOff, RowsOf, LiveRowsOf, Inserted, columns
      <3>4. ASSUME NEW u \in Users PROVE Balanced(u)'
        BY <1>1, <2>2, <3>1, <3>3, BalancedStays DEF BooksInv, columns
      <3> QED BY <3>2, <3>4 DEF BooksInv
    <2>4. ASSUME NEW r \in Reqs, Step(r) PROVE BooksInv'
      BY <1>1, <2>2, <2>4, BooksRead, BooksOfDelete, BooksOfSoleRows, BooksOfInsert,
         BooksOfCharge, BooksOfCommit DEF Step
    <2>5. ASSUME NEW r \in Reqs, Calls(r) PROVE BooksInv'
      BY <1>1, <2>2, <2>5, BooksOfCalls
    <2>6. ASSUME NEW f \in FileIds, UploadDone(f) \/ UploadFail(f) PROVE BooksInv'
      <3>1. CASE Reqs = {}
        <4>1. UNCHANGED <<fileRow, columns, storage, charged>>
          BY <2>6 DEF UploadDone, UploadFail, dbVars
        <4>2. Uncharged' = {} /\ Debited' = {} /\ Uncharged = {} /\ Debited = {}
          BY <3>1 DEF Uncharged, Debited
        <4>3. \A u \in Users : RowsOf(u)' = RowsOf(u) /\ LiveRowsOf(u)' = LiveRowsOf(u)
          BY <4>1 DEF RowsOf, LiveRowsOf, Inserted, columns
        <4>4. ASSUME NEW u \in Users PROVE Balanced(u)'
          BY <1>1, <2>2, <4>1, <4>2, <4>3, BalancedStays DEF BooksInv, columns
        <4> QED BY <3>1, <4>4 DEF BooksInv
      <3>2. ASSUME NEW r \in Reqs PROVE BooksInv'
        BY <1>1, <2>2, <2>6, BooksOfUploads
      <3> QED BY <3>1, <3>2
    <2>7. ~Crash
      BY <1>1 DEF Alone, AloneInv, Crash
    <2> QED BY <1>1, <2>3, <2>4, <2>5, <2>6, <2>7 DEF Next
  <1>2. Init => BooksInv
    BY InitBooks
  <1>3. TypeInv /\ TypeInv' /\ RowsInv /\ AloneInv /\ [Next]_vars /\ Taken => Taken'
    BY TakesOwnInductive
  <1>4. Init => Taken
    BY DEF Init, TakesOwn, NoRows, None
  <1> QED BY <1>1, <1>2, <1>3, <1>4, TypeInvHolds, RowsInvHolds, AloneInvHolds, PTL DEF Spec

(* While requests come one after the other (Alone), and if at the start nobody was
   charged for more than there was, storage_used is what the live files of a user add up
   to whenever no request is in flight, as long as every row has a content of its
   own, was charged and was deleted by nobody but its user (StorageExactWithoutCopies). *)
THEOREM AccountsAreExact ==
  ASSUME Alone, NothingOwed
  PROVE  Spec => []StorageExactWithoutCopies
  <1>1. AloneInv /\ BooksInv => StorageExactWithoutCopies
    <2> SUFFICES ASSUME AloneInv, BooksInv, \A r \in Reqs : pc[r] = "idle",
                        NoCopies, OwnDeletes, NEW u \in Users, charged[u] = Size(RowsOf(u))
                 PROVE  storage[u] = Size(LiveRowsOf(u))
      BY DEF StorageExactWithoutCopies
    <2>1. Uncharged = {} /\ Debited = {}
      BY DEF Uncharged, Debited, NewRow, TakenOff
    <2>2. RowsOf(u) \ Uncharged = RowsOf(u) /\ LiveRowsOf(u) \ Debited = LiveRowsOf(u)
      BY <2>1
    <2>3. OwnRows
      <3>1. \A r \in Reqs : req[r].path \notin {"delete", "sole"}
        BY DEF AloneInv, DeleteAlone, DeletePaths, DeletePhases
      <3> QED BY <3>1 DEF OwnRows
    <2> QED BY <2>2, <2>3 DEF BooksInv, Balanced
  <1> QED BY <1>1, AloneInvHolds, BooksInvHolds, PTL
=============================================================================
