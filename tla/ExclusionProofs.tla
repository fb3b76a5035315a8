-------------------------- MODULE ExclusionProofs ---------------------------
(***************************************************************************)
(* Lemmas about terms, cells and orderings, for the proofs about Gcd and   *)
(* about Deriver.                                                          *)
(***************************************************************************)
EXTENDS Exclusions, Sequences, TLAPS, FiniteSetTheorems, SequenceTheorems,
        FunctionTheorems, WellFoundedInduction

-----------------------------------------------------------------------------
(* Terms and cells *)

LEMMA ValuesFinite ==
  ASSUME NEW p \in Param
  PROVE  IsFiniteSet(Values(p)) /\ Values(p) \subseteq Nat
<1>1. ValueCount[p] - 1 \in Int /\ 0 \in Int
  BY ParamAssumption
<1>2. IsFiniteSet(0 .. ValueCount[p] - 1)
  BY <1>1, FS_Interval
<1> QED BY <1>1, <1>2 DEF Values

LEMMA TermShape ==
  /\ Term \subseteq Nat \X Nat
  /\ \A t \in Term : t[1] \in Param /\ t[2] \in Values(t[1]) /\ t = <<t[1], t[2]>>
  /\ \A p \in Param : \A v \in Values(p) : <<p, v>> \in Term
BY ParamAssumption, ValuesFinite DEF Term

LEMMA TermFinite == IsFiniteSet(Term)
<1> DEFINE col(p)  == {p} \X Values(p)
           cols    == { col(p) : p \in Param }
           colFun  == [p \in Param |-> col(p)]
<1>1. colFun \in Surjection(Param, cols)
  BY DEF Surjection
<1>2. IsFiniteSet(cols)
  BY <1>1, ParamAssumption, FS_Surjection
<1>3. \A C \in cols : IsFiniteSet(C)
  <2> SUFFICES ASSUME NEW p \in Param PROVE IsFiniteSet(col(p))
    OBVIOUS
  <2> QED BY ValuesFinite, FS_Singleton, FS_Product
<1>4. IsFiniteSet(UNION cols)
  BY <1>2, <1>3, FS_UNION
<1> QED BY <1>4 DEF Term

(* A cell over S gives every parameter of S one value. *)
LEMMA CellShape ==
  ASSUME NEW S \in SUBSET Param, NEW k \in Cells(S)
  PROVE  /\ k \subseteq Term
         /\ ParamsOf(k) = S
         /\ Consistent(k)
<1>1. PICK f \in [S -> UNION { Values(p) : p \in S }] :
        /\ \A p \in S : f[p] \in Values(p)
        /\ k = { <<p, f[p]>> : p \in S }
  BY DEF Cells
<1>2. k \subseteq Term
  BY <1>1, TermShape
<1>3. ParamsOf(k) = S
  <2>1. \A t \in k : t[1] \in S
    BY <1>1
  <2>2. \A p \in S : <<p, f[p]>> \in k /\ <<p, f[p]>>[1] = p
    BY <1>1
  <2> QED BY <2>1, <2>2 DEF ParamsOf
<1>4. Consistent(k)
  BY <1>1 DEF Consistent
<1> QED BY <1>2, <1>3, <1>4

LEMMA SubsetsOfTermFinite ==
  ASSUME NEW S \in SUBSET Term
  PROVE  IsFiniteSet(S) /\ Cardinality(S) \in Nat
BY TermFinite, FS_Subset, FS_CardinalityType

LEMMA SetsOfCellsFinite ==
  ASSUME NEW K \in SUBSET (SUBSET Term)
  PROVE  IsFiniteSet(K) /\ Cardinality(K) \in Nat
BY TermFinite, FS_SUBSET, FS_Subset, FS_CardinalityType

LEMMA SubsetsOfParamFinite ==
  ASSUME NEW S \in SUBSET Param
  PROVE  IsFiniteSet(S) /\ Cardinality(S) \in Nat
BY ParamAssumption, FS_Subset, FS_CardinalityType

-----------------------------------------------------------------------------
(* Orderings of finite sets *)

LEMMA OrderedShape ==
  ASSUME NEW S, IsFiniteSet(S), NEW key, \A x \in S : key[x] \in Int,
         NEW s \in Ordered(S, key)
  PROVE  /\ s \in Seq(S)
         /\ DOMAIN s = 1 .. Cardinality(S)
         /\ \A i, j \in DOMAIN s : s[i] = s[j] => i = j
<1>1. Cardinality(S) \in Nat
  BY FS_CardinalityType
<1>2. s \in [1 .. Cardinality(S) -> S]
  BY DEF Ordered
<1>3. s \in Seq(S)
  BY <1>1, <1>2
<1>4. ASSUME NEW i \in DOMAIN s, NEW j \in DOMAIN s, s[i] = s[j]
      PROVE  i = j
  <2>1. i \in 1 .. Cardinality(S) /\ j \in 1 .. Cardinality(S)
    BY <1>2
  <2>2. ~ (i < j) /\ ~ (j < i)
    <3>1. key[s[i]] \in Int
      BY <1>2, <2>1
    <3>2. /\ i < j => key[s[i]] < key[s[j]]
          /\ j < i => key[s[j]] < key[s[i]]
      BY <2>1 DEF Ordered
    <3> QED BY <3>1, <3>2, <1>4
  <2> QED BY <2>1, <2>2, <1>1
<1> QED BY <1>2, <1>3, <1>4

LEMMA AnyOrderShape ==
  ASSUME NEW S, IsFiniteSet(S), NEW s \in AnyOrder(S)
  PROVE  /\ s \in Seq(S)
         /\ DOMAIN s = 1 .. Cardinality(S)
         /\ \A i, j \in DOMAIN s : s[i] = s[j] => i = j
<1>1. Cardinality(S) \in Nat
  BY FS_CardinalityType
<1>2. s \in [1 .. Cardinality(S) -> S]
  BY DEF AnyOrder
<1> QED BY <1>1, <1>2 DEF AnyOrder

(* Every member is in an ordering. *)
LEMMA OrderingsAreAll ==
  ASSUME NEW S, IsFiniteSet(S), NEW s \in [1 .. Cardinality(S) -> S],
         \A i, j \in 1 .. Cardinality(S) : s[i] = s[j] => i = j
  PROVE  \A x \in S : \E i \in DOMAIN s : s[i] = x
<1>1. Cardinality(S) \in Nat
  BY FS_CardinalityType
<1>2. s \in Injection(1 .. Cardinality(S), S)
  BY DEF Injection, IsInjective
<1>3. Cardinality(1 .. Cardinality(S)) = Cardinality(S)
  BY <1>1, FS_Interval
<1>4. s \in Surjection(1 .. Cardinality(S), S)
  BY <1>2, <1>3, FS_Injection
<1> QED BY <1>4 DEF Surjection

LEMMA AnyOrderAll ==
  ASSUME NEW S, IsFiniteSet(S), NEW s \in AnyOrder(S)
  PROVE  \A x \in S : \E i \in DOMAIN s : s[i] = x
BY OrderingsAreAll DEF AnyOrder

LEMMA OrderedAll ==
  ASSUME NEW S, IsFiniteSet(S), NEW key, \A x \in S : key[x] \in Int,
         NEW s \in Ordered(S, key)
  PROVE  \A x \in S : \E i \in DOMAIN s : s[i] = x
<1>1. s \in [1 .. Cardinality(S) -> S]
  BY DEF Ordered
<1>2. /\ DOMAIN s = 1 .. Cardinality(S)
      /\ \A i, j \in DOMAIN s : s[i] = s[j] => i = j
  BY OrderedShape
<1> QED BY <1>1, <1>2, OrderingsAreAll

(* A concatenation has the members of both lists. *)
LEMMA ConcatMembers ==
  ASSUME NEW T, NEW a \in Seq(T), NEW b \in Seq(T)
  PROVE  /\ \A i \in DOMAIN a : i \in DOMAIN (a \o b) /\ (a \o b)[i] = a[i]
         /\ \A i \in DOMAIN b : /\ Len(a) + i \in DOMAIN (a \o b)
                               /\ (a \o b)[Len(a) + i] = b[i]
<1>1. /\ Len(a) \in Nat /\ Len(b) \in Nat
      /\ DOMAIN a = 1 .. Len(a) /\ DOMAIN b = 1 .. Len(b)
  OBVIOUS
<1>2. /\ DOMAIN (a \o b) = 1 .. (Len(a) + Len(b))
      /\ \A i \in 1 .. (Len(a) + Len(b)) :
           (a \o b)[i] = IF i <= Len(a) THEN a[i] ELSE b[i - Len(a)]
  BY ConcatProperties
<1>3. \A i \in DOMAIN b : Len(a) + i > Len(a) /\ (Len(a) + i) - Len(a) = i
  BY <1>1
<1>4. \A i \in DOMAIN b : Len(a) + i \in 1 .. (Len(a) + Len(b))
  BY <1>1
<1>5. \A i \in DOMAIN b : (a \o b)[Len(a) + i] = b[i]
  <2> SUFFICES ASSUME NEW i \in DOMAIN b PROVE (a \o b)[Len(a) + i] = b[i]
    OBVIOUS
  <2>1. Len(a) + i \in 1 .. (Len(a) + Len(b)) /\ ~ (Len(a) + i <= Len(a))
    BY <1>1, <1>4
  <2>2. (a \o b)[Len(a) + i] = b[(Len(a) + i) - Len(a)]
    BY <1>2, <2>1
  <2> QED BY <1>3, <2>2
<1> QED BY <1>1, <1>2, <1>4, <1>5

-----------------------------------------------------------------------------
(* Finite sets: what is largest, and what lies between. *)

(* A function with integer values has a largest one on a finite set. *)
LEMMA Largest ==
  ASSUME NEW S, IsFiniteSet(S), S # {}, NEW f, \A x \in S : f[x] \in Int
  PROVE  \E y \in S : \A x \in S : f[x] <= f[y]
<1> DEFINE Above(y) == { x \in S : f[y] < f[x] }
           T == { Above(y) : y \in S }
<1>1. IsWellFoundedOn(StrictSubsetOrdering(S), SUBSET S)
  BY FS_StrictSubsetOrderingWellFounded, FS_FiniteSubsetsOfFinite
<1>2. T # {} /\ T \subseteq SUBSET S
  OBVIOUS
<1>3. PICK A \in T : \A B \in T : ~ (<<B, A>> \in StrictSubsetOrdering(S))
  BY <1>1, <1>2, WFMin
<1>4. PICK y \in S : A = Above(y)
  OBVIOUS
<1>5. ASSUME NEW x \in S, ~ (f[x] <= f[y])
      PROVE  FALSE
  <2>1. x \in Above(y) /\ x \notin Above(x)
    BY <1>5
  <2>2. Above(x) \subseteq Above(y)
    BY <1>5
  <2>3. <<Above(x), A>> \in StrictSubsetOrdering(S)
    BY <1>4, <2>1, <2>2 DEF StrictSubsetOrdering
  <2> QED BY <1>3, <2>3
<1> QED BY <1>5

(* Between a set of at most k members and one of at least k, one has k. *)
LEMMA Between ==
  ASSUME NEW k \in Nat, NEW B, IsFiniteSet(B), NEW A \in SUBSET B,
         Cardinality(A) <= k, k <= Cardinality(B)
  PROVE  \E S \in SUBSET B : A \subseteq S /\ Cardinality(S) = k
<1> DEFINE T == { S \in SUBSET B : A \subseteq S /\ k <= Cardinality(S) }
<1>1. IsWellFoundedOn(StrictSubsetOrdering(B), SUBSET B)
  BY FS_StrictSubsetOrderingWellFounded, FS_FiniteSubsetsOfFinite
<1>2. B \in T /\ T \subseteq SUBSET B
  OBVIOUS
<1>3. PICK S \in T : \A R \in T : ~ (<<R, S>> \in StrictSubsetOrdering(B))
  <2> HIDE DEF T
  <2> QED BY <1>1, <1>2, WFMin
<1>4. /\ IsFiniteSet(S) /\ Cardinality(S) \in Nat
      /\ IsFiniteSet(A) /\ Cardinality(A) \in Nat
  BY FS_Subset, FS_CardinalityType
<1>5. ASSUME Cardinality(S) # k
      PROVE  FALSE
  <2>1. k < Cardinality(S)
    BY <1>4, <1>5
  <2>2. S # A
    BY <1>4, <2>1
  <2>3. PICK x \in S : x \notin A
    BY <2>2
  <2>4. Cardinality(S \ {x}) = Cardinality(S) - 1
    BY <1>4, <2>3, FS_RemoveElement
  <2>5. S \ {x} \in T
    BY <1>4, <2>1, <2>3, <2>4
  <2>6. <<S \ {x}, S>> \in StrictSubsetOrdering(B)
    BY <2>3, <2>5 DEF StrictSubsetOrdering
  <2> QED BY <1>3, <2>5, <2>6
<1> QED BY <1>5

-----------------------------------------------------------------------------
(* Rows and their cells *)

(* What a consistent set of terms says of the parameters S, if it has a    *)
(* value for each, is a cell over S.                                       *)
LEMMA ProjectIsCell ==
  ASSUME NEW r \in SUBSET Term, Consistent(r), NEW S \in SUBSET ParamsOf(r)
  PROVE  Project(r, S) \in Cells(S)
<1> DEFINE f == [p \in S |-> (CHOOSE t \in r : t[1] = p)[2]]
<1>1. \A p \in S : /\ \E t \in r : t[1] = p
                   /\ (CHOOSE t \in r : t[1] = p) \in r
                   /\ (CHOOSE t \in r : t[1] = p)[1] = p
  BY DEF ParamsOf
<1>2. \A p \in S : p \in Param /\ f[p] \in Values(p) /\ <<p, f[p]>> \in r
  BY <1>1, TermShape
<1>3. \A t \in r : t[1] \in S => t = <<t[1], f[t[1]]>>
  <2> SUFFICES ASSUME NEW t \in r, t[1] \in S
               PROVE  t = <<t[1], f[t[1]]>>
    OBVIOUS
  <2>1. <<t[1], f[t[1]]>> \in r
    BY <1>2
  <2> QED BY <2>1 DEF Consistent
<1>4. f \in [S -> UNION { Values(p) : p \in S }]
  <2> DEFINE U == UNION { Values(p) : p \in S }
  <2>1. f = [p \in S |-> f[p]]
    OBVIOUS
  <2> HIDE DEF f
  <2>2. \A p \in S : f[p] \in U
    <3> SUFFICES ASSUME NEW p \in S PROVE \E q \in S : f[p] \in Values(q)
      OBVIOUS
    <3> QED BY <1>2
  <2> HIDE DEF U
  <2>3. f \in [S -> U]
    BY <2>1, <2>2
  <2> QED BY <2>3 DEF U
<1>5. Project(r, S) = { <<p, f[p]>> : p \in S }
  <2> HIDE DEF f
  <2>1. \A t \in Project(r, S) : t \in { <<p, f[p]>> : p \in S }
    BY <1>3 DEF Project
  <2>2. \A p \in S : <<p, f[p]>> \in Project(r, S)
    BY <1>2 DEF Project
  <2> QED BY <2>1, <2>2
<1> HIDE DEF f
<1> QED BY <1>2, <1>4, <1>5 DEF Cells

(* A cell within a consistent set of terms is what the set says of the     *)
(* parameters of the cell.                                                 *)
LEMMA CellIsProject ==
  ASSUME NEW r, Consistent(r), NEW k \in SUBSET r
  PROVE  Project(r, ParamsOf(k)) = k
<1>1. \A t \in Project(r, ParamsOf(k)) : t \in k
  BY DEF Project, ParamsOf, Consistent
<1>2. \A t \in k : t \in Project(r, ParamsOf(k))
  BY DEF Project, ParamsOf
<1> QED BY <1>1, <1>2

(* Partial assignments are the consistent sets of terms. *)
LEMMA PartialsAre == \A a : a \in Partials <=> a \in SUBSET Term /\ Consistent(a)
<1>1. ASSUME NEW a \in Partials
      PROVE  a \in SUBSET Term /\ Consistent(a)
  BY CellShape DEF Partials
<1>2. ASSUME NEW a \in SUBSET Term, Consistent(a)
      PROVE  a \in Partials
  <2>1. ParamsOf(a) \in SUBSET Param
    BY TermShape DEF ParamsOf
  <2>2. Project(a, ParamsOf(a)) \in Cells(ParamsOf(a))
    BY <1>2, ProjectIsCell
  <2>3. Project(a, ParamsOf(a)) = a
    BY <1>2, CellIsProject
  <2> QED BY <2>1, <2>2, <2>3 DEF Partials
<1> QED BY <1>1, <1>2

(* From closed exclusions: what violates none can be completed to a row    *)
(* that violates none, one parameter at a time.                            *)
LEMMA Completable ==
  ASSUME NEW E, Closed(E), NEW a \in Partials, ~ ViolatesAny(a, E)
  PROVE  \E r \in Rows : Contained(a, r) /\ ~ ViolatesAny(r, E)
<1> DEFINE S == { x \in Partials : Contained(a, x) /\ ~ ViolatesAny(x, E) }
           size == [x \in S |-> Cardinality(x)]
<1>1. a \in S /\ S \in SUBSET SUBSET Term
  BY PartialsAre DEF Contained
<1>2. IsFiniteSet(S) /\ \A x \in S : size[x] \in Int /\ IsFiniteSet(x)
  BY <1>1, SetsOfCellsFinite, SubsetsOfTermFinite
<1>3. PICK y \in S : \A x \in S : size[x] <= size[y]
  <2> HIDE DEF S, size
  <2> QED BY <1>1, <1>2, Largest
<1>4. y \in SUBSET Term /\ Consistent(y) /\ ParamsOf(y) \in SUBSET Param
  BY PartialsAre, TermShape DEF ParamsOf
<1>5. ASSUME NEW p \in Param \ ParamsOf(y)
      PROVE  FALSE
  <2>1. PICK v \in Values(p) : ~ ViolatesAny(y \cup {<<p, v>>}, E)
    BY DEF Closed
  <2> DEFINE x == y \cup {<<p, v>>}
  <2>2. <<p, v>> \in Term /\ \A t \in y : t[1] # p
    BY TermShape DEF ParamsOf
  <2>3. x \in SUBSET Term /\ Consistent(x)
    BY <1>4, <2>2 DEF Consistent
  <2>4. x \in S
    BY <2>1, <2>3, PartialsAre DEF Contained
  <2>5. Cardinality(x) = Cardinality(y) + 1
    BY <1>2, <2>2, FS_AddElement
  <2>6. Cardinality(y) \in Int
    BY <1>2
  <2> QED BY <1>3, <2>4, <2>5, <2>6
<1>6. ParamsOf(y) = Param
  BY <1>4, <1>5
<1>7. y \in Rows
  <2>1. Project(y, ParamsOf(y)) \in Cells(ParamsOf(y)) /\ Project(y, ParamsOf(y)) = y
    BY <1>4, ProjectIsCell, CellIsProject
  <2> QED BY <1>6, <2>1 DEF Rows
<1> QED BY <1>7

=============================================================================
