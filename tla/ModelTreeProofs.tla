-------------------------- MODULE ModelTreeProofs ---------------------------
(***************************************************************************)
(* Lemmas about the operators ModelTree is built from (folds over lists,   *)
(* sorting, rows and closures, resolved rows) and about recursion, for the *)
(* proofs about PictApi and GcdRunner.                                     *)
(***************************************************************************)
EXTENDS ModelTree, TLAPS, FiniteSetTheorems, FunctionTheorems, SequenceTheorems,
        WellFoundedInduction

-----------------------------------------------------------------------------
(* Finite sets and induction on numbers *)

(* A function with integer values has a largest one on a finite set. *)
LEMMA LargestOf ==
  ASSUME NEW S, IsFiniteSet(S), S # {}, NEW f, \A x \in S : f[x] \in Int
  PROVE  \E y \in S : \A x \in S : f[x] <= f[y]
<1> DEFINE Above(y) == { x \in S : f[y] < f[x] }
           T == { Above(y) : y \in S }
<1>1. IsWellFoundedOn(StrictSubsetOrdering(S), SUBSET S)
  BY FS_StrictSubsetOrderingWellFounded, FS_FiniteSubsetsOfFinite
<1>2. T # {} /\ T \subseteq SUBSET S
  OBVIOUS
<1>3. PICK A \in T : \A B \in T : ~ (<<B, A>> \in StrictSubsetOrdering(S))
  BY <1>1, <1>2, WFMin
<1>4. PICK y \in S : A = Above(y)
  OBVIOUS
<1>5. ASSUME NEW x \in S, ~ (f[x] <= f[y])
      PROVE  FALSE
  <2>1. x \in Above(y) /\ x \notin Above(x)
    BY <1>5
  <2>2. Above(x) \subseteq Above(y)
    BY <1>5
  <2>3. <<Above(x), A>> \in StrictSubsetOrdering(S)
    BY <1>4, <2>1, <2>2 DEF StrictSubsetOrdering
  <2> QED BY <1>3, <2>3
<1> QED BY <1>5

LEMMA LastOf ==
  ASSUME NEW S \in SUBSET Int, IsFiniteSet(S), S # {}
  PROVE  /\ \E y \in S : \A x \in S : x <= y
         /\ \E y \in S : \A x \in S : y <= x
<1>1. \E y \in S : \A x \in S : x <= y
  <2> DEFINE f == [z \in S |-> z]
  <2>1. \A x \in S : f[x] \in Int /\ f[x] = x
    OBVIOUS
  <2> HIDE DEF f
  <2>2. PICK y \in S : \A x \in S : f[x] <= f[y]
    BY <2>1, LargestOf
  <2> QED BY <2>1, <2>2
<1>2. \E y \in S : \A x \in S : y <= x
  <2> DEFINE f == [z \in S |-> 0 - z]
  <2>1. \A x \in S : f[x] \in Int /\ f[x] = 0 - x /\ x \in Int
    OBVIOUS
  <2> HIDE DEF f
  <2>2. PICK y \in S : \A x \in S : f[x] <= f[y]
    BY <2>1, LargestOf
  <2>3. \A x \in S : 0 - x <= 0 - y /\ x \in Int /\ y \in Int
    BY <2>1, <2>2
  <2> QED BY <2>3
<1> QED BY <1>1, <1>2

LEMMA MaxMin ==
  ASSUME NEW S \in SUBSET Int, IsFiniteSet(S), S # {}
  PROVE  /\ Max(S) \in S /\ \A x \in S : x <= Max(S)
         /\ Min(S) \in S /\ \A x \in S : Min(S) <= x
BY LastOf DEF Max, Min

(* Induction from 0 up to n, and from n + 1 down to 1. *)
LEMMA UpTo ==
  ASSUME NEW n \in Nat, NEW G, 0 \in G, \A k \in 1 .. n : k - 1 \in G => k \in G
  PROVE  \A k \in 0 .. n : k \in G
<1> DEFINE S == { k \in 0 .. n : k \notin G }
<1>1. S \in SUBSET Int /\ IsFiniteSet(S)
  <2>1. IsFiniteSet(0 .. n)
    BY FS_Interval
  <2>2. S \in SUBSET (0 .. n) /\ 0 .. n \subseteq Int
    OBVIOUS
  <2> HIDE DEF S
  <2> QED BY <2>1, <2>2, FS_Subset
<1> SUFFICES ASSUME S # {} PROVE FALSE
  OBVIOUS
<1>2. PICK k \in S : \A x \in S : k <= x
  <2> HIDE DEF S
  <2> QED BY <1>1, LastOf
<1>3. k # 0 /\ k \in 1 .. n /\ k - 1 \in 0 .. n
  BY <1>2
<1>4. k - 1 \in G
  BY <1>2, <1>3
<1> QED BY <1>3, <1>4

LEMMA DownFrom ==
  ASSUME NEW n \in Nat, NEW G, n + 1 \in G, \A k \in 1 .. n : k + 1 \in G => k \in G
  PROVE  \A k \in 1 .. n + 1 : k \in G
<1> DEFINE S == { k \in 1 .. n + 1 : k \notin G }
<1>1. S \in SUBSET Int /\ IsFiniteSet(S)
  <2>1. IsFiniteSet(1 .. n + 1)
    BY FS_Interval
  <2>2. S \in SUBSET (1 .. n + 1) /\ 1 .. n + 1 \subseteq Int
    OBVIOUS
  <2> HIDE DEF S
  <2> QED BY <2>1, <2>2, FS_Subset
<1> SUFFICES ASSUME S # {} PROVE FALSE
  OBVIOUS
<1>2. PICK k \in S : \A x \in S : x <= k
  <2> HIDE DEF S
  <2> QED BY <1>1, LastOf
<1>3. k # n + 1 /\ k \in 1 .. n /\ k + 1 \in 1 .. n + 1
  BY <1>2
<1>4. k + 1 \in G
  BY <1>2, <1>3
<1> QED BY <1>3, <1>4

LEMMA MembersFinite ==
  ASSUME NEW A, NEW s \in Seq(A)
  PROVE  IsFiniteSet(ToSet(s)) /\ IsFiniteSet(DOMAIN s) /\ ToSet(s) \subseteq A
<1>1. Len(s) \in Nat /\ DOMAIN s = 1 .. Len(s) /\ \A i \in 1 .. Len(s) : s[i] \in A
  OBVIOUS
<1>2. IsFiniteSet(1 .. Len(s))
  BY <1>1, FS_Interval
<1>3. s \in Surjection(1 .. Len(s), ToSet(s))
  BY <1>1 DEF Surjection, ToSet
<1>4. IsFiniteSet(ToSet(s))
  BY <1>2, <1>3, FS_Surjection
<1> QED BY <1>1, <1>2, <1>4 DEF ToSet

LEMMA OwnMembers ==
  ASSUME NEW A, NEW s \in Seq(A)
  PROVE  s \in Seq(ToSet(s))
<1>1. DOMAIN s = 1 .. Len(s) /\ Len(s) \in Nat /\ s = [i \in 1 .. Len(s) |-> s[i]]
  OBVIOUS
<1>2. \A i \in 1 .. Len(s) : s[i] \in ToSet(s)
  BY <1>1 DEF ToSet
<1> QED BY <1>1, <1>2

LEMMA HeadAndTail ==
  ASSUME NEW A, NEW s \in Seq(A), s # <<>>, IsInjective(s)
  PROVE  /\ Head(s) \in A /\ Head(s) \in ToSet(s) /\ Tail(s) \in Seq(A)
         /\ ToSet(Tail(s)) = ToSet(s) \ {Head(s)} /\ IsInjective(Tail(s))
<1>1. /\ Len(s) \in Nat \ {0} /\ DOMAIN s = 1 .. Len(s) /\ Head(s) = s[1] /\ s[1] \in A
      /\ Tail(s) \in Seq(A) /\ Len(Tail(s)) = Len(s) - 1 /\ DOMAIN Tail(s) = 1 .. Len(s) - 1
      /\ \A i \in 1 .. Len(s) - 1 : Tail(s)[i] = s[i + 1]
  OBVIOUS
<1>2. \A i, j \in 1 .. Len(s) : s[i] = s[j] => i = j
  BY <1>1 DEF IsInjective
<1>3. IsInjective(Tail(s))
  <2> SUFFICES ASSUME NEW i \in 1 .. Len(s) - 1, NEW j \in 1 .. Len(s) - 1, Tail(s)[i] = Tail(s)[j]
               PROVE i = j
    BY <1>1 DEF IsInjective
  <2>1. i + 1 \in 1 .. Len(s) /\ j + 1 \in 1 .. Len(s) /\ s[i + 1] = s[j + 1]
    BY <1>1
  <2> QED BY <1>2, <2>1
<1>4. ASSUME NEW x \in ToSet(Tail(s))
      PROVE  x \in ToSet(s) /\ x # Head(s)
  <2>1. PICK i \in 1 .. Len(s) - 1 : x = s[i + 1]
    BY <1>1 DEF ToSet
  <2>2. i + 1 \in 1 .. Len(s) /\ i + 1 # 1 /\ 1 \in 1 .. Len(s)
    BY <1>1
  <2> QED BY <1>1, <1>2, <2>1, <2>2 DEF ToSet
<1>5. ASSUME NEW x \in ToSet(s), x # Head(s)
      PROVE  x \in ToSet(Tail(s))
  <2>1. PICK i \in 1 .. Len(s) : x = s[i]
    BY <1>1 DEF ToSet
  <2>2. i - 1 \in 1 .. Len(s) - 1 /\ i - 1 + 1 = i
    BY <1>1, <1>5, <2>1
  <2>3. Tail(s)[i - 1] = x
    BY <1>1, <2>1, <2>2
  <2> QED BY <1>1, <2>2, <2>3 DEF ToSet
<1>6. Head(s) \in ToSet(s)
  BY <1>1 DEF ToSet
<1> QED BY <1>1, <1>3, <1>4, <1>5, <1>6

-----------------------------------------------------------------------------
(* Folds *)

(***************************************************************************)
(* What a fold iterates exists: elements of D are taken one by one, as     *)
(* pick says, and h combines each with what the others came to.            *)
(***************************************************************************)
Folds(iter, D, base, h, pick) ==
  \A s \in SUBSET D :
    iter[s] = IF s = {} THEN base ELSE h[<<pick[s], iter[s \ {pick[s]}]>>]

StaysIn(X, D, h) == \A d \in D : \A x \in X : h[<<d, x>>] \in X

PicksFrom(D, pick) == \A s \in SUBSET D : s # {} => pick[s] \in s

LEMMA FoldExists ==
  ASSUME NEW D, IsFiniteSet(D), NEW X, NEW base \in X,
         NEW h, StaysIn(X, D, h), NEW pick, PicksFrom(D, pick)
  PROVE  \E iter \in [SUBSET D -> X] : Folds(iter, D, base, h, pick)
<1> DEFINE Small(k) == { s \in SUBSET D : Cardinality(s) <= k }
           Fold(f, s) == IF s = {} THEN base ELSE h[<<pick[s], f[s \ {pick[s]}]>>]
           G == { k \in 0 .. Cardinality(D) :
                    \E f \in [Small(k) -> X] : \A s \in Small(k) : f[s] = Fold(f, s) }
<1>1. Cardinality(D) \in Nat /\ \A s \in SUBSET D : IsFiniteSet(s) /\ Cardinality(s) \in 0 .. Cardinality(D)
  <2>1. Cardinality(D) \in Nat
    BY FS_CardinalityType
  <2>2. ASSUME NEW s \in SUBSET D
        PROVE  IsFiniteSet(s) /\ Cardinality(s) \in 0 .. Cardinality(D)
    <3>1. IsFiniteSet(s) /\ Cardinality(s) <= Cardinality(D)
      BY FS_Subset
    <3>2. Cardinality(s) \in Nat
      BY <3>1, FS_CardinalityType
    <3> QED BY <2>1, <3>1, <3>2
  <2> QED BY <2>1, <2>2
<1>2. 0 \in G
  <2>1. \A s \in Small(0) : s = {}
    BY <1>1, FS_EmptySet
  <2> DEFINE g == [s \in Small(0) |-> base]
  <2>2. g \in [Small(0) -> X]
    OBVIOUS
  <2>3. \A s \in Small(0) : g[s] = Fold(g, s)
    BY <2>1
  <2>4. 0 \in 0 .. Cardinality(D)
    BY <1>1
  <2> HIDE DEF g, Fold, Small
  <2> QED BY <2>2, <2>3, <2>4
<1>3. ASSUME NEW k \in 1 .. Cardinality(D), k - 1 \in G
      PROVE  k \in G
  <2>1. PICK f \in [Small(k - 1) -> X] : \A s \in Small(k - 1) : f[s] = Fold(f, s)
    BY <1>3
  <2> DEFINE g == [s \in Small(k) |-> Fold(f, s)]
  <2>2. ASSUME NEW s \in Small(k), s # {}
        PROVE  pick[s] \in D /\ s \ {pick[s]} \in Small(k - 1) /\ s \ {pick[s]} \in Small(k)
    <3>1. pick[s] \in s /\ IsFiniteSet(s)
      BY <1>1, <2>2 DEF PicksFrom
    <3>2. Cardinality(s \ {pick[s]}) = Cardinality(s) - 1
      BY <3>1, FS_RemoveElement
    <3>3. s \ {pick[s]} \in SUBSET D /\ Cardinality(s) <= k /\ Cardinality(s) \in Nat /\ Cardinality(s \ {pick[s]}) \in Nat
      BY <1>1
    <3> QED BY <3>1, <3>2, <3>3
  <2>3. g \in [Small(k) -> X]
    <3> SUFFICES ASSUME NEW s \in Small(k) PROVE Fold(f, s) \in X
      OBVIOUS
    <3> QED BY <2>1, <2>2 DEF StaysIn
  <2>4. ASSUME NEW s \in Small(k)
        PROVE  g[s] = Fold(g, s)
    <3>1. CASE s = {}
      BY <3>1
    <3>2. CASE s # {}
      <4>1. g[s \ {pick[s]}] = f[s \ {pick[s]}]
        BY <2>1, <2>2, <3>2
      <4> QED BY <3>2, <4>1
    <3> QED BY <3>1, <3>2
  <2>5. k \in 0 .. Cardinality(D)
    BY <1>1
  <2> HIDE DEF g, Fold, Small
  <2> QED BY <2>3, <2>4, <2>5
<1>4. Cardinality(D) \in G
  <2> HIDE DEF G
  <2> QED BY <1>1, <1>2, <1>3, UpTo
<1>5. Small(Cardinality(D)) = SUBSET D
  BY <1>1
<1>6. PICK f \in [SUBSET D -> X] : \A s \in SUBSET D : f[s] = Fold(f, s)
  BY <1>4, <1>5
<1> QED BY <1>6 DEF Folds

(* FoldLeft takes the last of the list outermost, ...                      *)
LEMMA PrefixRest ==
  ASSUME NEW n \in Nat, NEW k \in 1 .. n
  PROVE  /\ 1 .. k \in SUBSET (1 .. n) /\ 1 .. k # {}
         /\ Max(1 .. k) = k /\ (1 .. k) \ {k} = 1 .. (k - 1)
<1>1. 1 .. k \in SUBSET Int /\ k \in 1 .. k /\ IsFiniteSet(1 .. k)
  BY FS_Interval
<1>2. Max(1 .. k) \in 1 .. k /\ k <= Max(1 .. k)
  BY <1>1, MaxMin
<1> QED BY <1>1, <1>2

(* ... FoldRight the first.                                                *)
LEMMA SuffixRest ==
  ASSUME NEW n \in Nat, NEW k \in 1 .. n
  PROVE  /\ k .. n \in SUBSET (1 .. n) /\ k .. n # {}
         /\ Min(k .. n) = k /\ (k .. n) \ {k} = (k + 1) .. n
<1>1. k .. n \in SUBSET Int /\ k \in k .. n /\ IsFiniteSet(k .. n)
  BY FS_Interval
<1>2. Min(k .. n) \in k .. n /\ Min(k .. n) <= k
  BY <1>1, MaxMin
<1> QED BY <1>1, <1>2

LEMMA PicksOfIntervals ==
  ASSUME NEW n \in Nat, NEW s \in SUBSET (1 .. n), s # {}
  PROVE  Max(s) \in s /\ Min(s) \in s
<1>1. IsFiniteSet(1 .. n)
  BY FS_Interval
<1>2. s \in SUBSET Int
  OBVIOUS
<1>3. IsFiniteSet(s)
  BY <1>1, FS_Subset
<1> QED BY <1>2, <1>3, MaxMin

(***************************************************************************)
(* Exclusions are rewritten submodel by submodel.                          *)
(***************************************************************************)
LEMMA MappedSteps ==
  ASSUME NEW seq \in Seq(Int), NEW E
  PROVE  \E acc : /\ acc[0] = E
                  /\ \A k \in 1 .. Len(seq) :
                       acc[k] = UNION { Rewritten(e, seq[k]) : e \in acc[k - 1] }
                  /\ MappedExclusions(E, seq) = acc[Len(seq)]
<1> DEFINE n == Len(seq)
           D == 1 .. n
           ofPseudo(m) == { <<PseudoOf(m), v>> : v \in PseudoValues(m) }
           ofAll == { ofPseudo(m) : m \in ToSet(seq) }
           T == (UNION E) \cup (UNION ofAll)
           X == SUBSET SUBSET T
           step(k, x) == UNION { Rewritten(e, seq[k]) : e \in x }
           h == [dx \in D \X X |-> step(dx[1], dx[2])]
           pick == [s \in SUBSET D |-> Max(s)]
           Body(f, s) == IF s = {} THEN E ELSE step(Max(s), f[s \ {Max(s)}])
<1>1. n \in Nat /\ DOMAIN seq = D /\ IsFiniteSet(D)
  BY FS_Interval
<1>2. \A s \in SUBSET D : s # {} => Max(s) \in s
  BY <1>1, PicksOfIntervals
<1>3. ASSUME NEW k \in D, NEW x \in X
      PROVE  step(k, x) \in X
  <2>1. seq[k] \in ToSet(seq)
    BY <1>1 DEF ToSet
  <2>2. ASSUME NEW e \in x, NEW f \in Rewritten(e, seq[k])
        PROVE  f \subseteq T
    <3>1. e \subseteq T
      BY <1>3
    <3>2. CASE f = e
      BY <3>1, <3>2
    <3>3. CASE \E v \in PseudoValues(seq[k]) : f = (e \ Related(e, seq[k])) \cup {<<PseudoOf(seq[k]), v>>}
      <4>1. PICK v \in PseudoValues(seq[k]) : f = (e \ Related(e, seq[k])) \cup {<<PseudoOf(seq[k]), v>>}
        BY <3>3
      <4>2. <<PseudoOf(seq[k]), v>> \in ofPseudo(seq[k])
        BY <4>1
      <4>3. <<PseudoOf(seq[k]), v>> \in T
        <5>1. ofPseudo(seq[k]) \in ofAll
          BY <2>1
        <5> HIDE DEF ofPseudo, ofAll
        <5> QED BY <4>2, <5>1
      <4> HIDE DEF T
      <4> QED BY <3>1, <4>1, <4>3
    <3> QED BY <3>2, <3>3 DEF Rewritten
  <2> QED BY <2>2
<1>4. E \in X
  OBVIOUS
<1>5. \E iter \in [SUBSET D -> X] : \A s \in SUBSET D : iter[s] = Body(iter, s)
  <2> HIDE DEF X, D, step
  <2>1. \A d \in D : \A x \in X : h[<<d, x>>] = step(d, x) /\ h[<<d, x>>] \in X
    BY <1>3
  <2>2. \A s \in SUBSET D : pick[s] = Max(s)
    OBVIOUS
  <2> HIDE DEF h, pick
  <2>5. PicksFrom(D, pick)
    BY <1>2, <2>2 DEF PicksFrom
  <2>6. StaysIn(X, D, h)
    BY <2>1 DEF StaysIn
  <2>3. PICK iter \in [SUBSET D -> X] : Folds(iter, D, E, h, pick)
    BY <1>1, <1>4, <2>5, <2>6, FoldExists
  <2>4. ASSUME NEW s \in SUBSET D
        PROVE  iter[s] = Body(iter, s)
    <3>1. CASE s = {}
      BY <2>3, <3>1 DEF Folds
    <3>2. CASE s # {}
      <4>1. Max(s) \in D /\ s \ {Max(s)} \in SUBSET D
        BY <1>2, <3>2
      <4>2. iter[s \ {Max(s)}] \in X
        BY <4>1
      <4> QED BY <2>1, <2>2, <2>3, <3>2, <4>1, <4>2 DEF Folds
    <3> QED BY <3>1, <3>2
  <2> QED BY <2>4
<1>6. \E iter : iter = [s \in SUBSET D |-> Body(iter, s)]
  <2>1. PICK iter \in [SUBSET D -> X] : \A s \in SUBSET D : iter[s] = Body(iter, s)
    BY <1>5
  <2> HIDE DEF X, D, Body
  <2>2. iter = [s \in SUBSET D |-> Body(iter, s)]
    BY <2>1
  <2> QED BY <2>2
<1> DEFINE it == CHOOSE iter : iter = [s \in SUBSET D |-> Body(iter, s)]
<1>7. it = [s \in SUBSET D |-> Body(it, s)]
  <2> HIDE DEF D, Body
  <2> QED BY <1>6
<1>8. MappedExclusions(E, seq) = it[D]
  BY <1>1 DEF MappedExclusions, FoldLeft, MapThenFoldSet
<1> DEFINE acc == [k \in 0 .. n |-> it[1 .. k]]
<1>9. acc[0] = E
  <2>1. 1 .. 0 = {} /\ {} \in SUBSET D
    OBVIOUS
  <2>2. it[{}] = E
    BY <1>7, <2>1
  <2>3. 0 \in 0 .. n
    BY <1>1
  <2> QED BY <2>1, <2>2, <2>3
<1>10. ASSUME NEW k \in 1 .. n
       PROVE  acc[k] = step(k, acc[k - 1])
  <2>1. k \in 0 .. n /\ k - 1 \in 0 .. n
    BY <1>1
  <2>2. it[1 .. k] = step(k, it[1 .. (k - 1)])
    <3>1. /\ 1 .. k \in SUBSET D /\ 1 .. k # {}
          /\ Max(1 .. k) = k /\ (1 .. k) \ {k} = 1 .. (k - 1)
      BY <1>1, PrefixRest
    <3> HIDE DEF it, step
    <3>2. it[1 .. k] = Body(it, 1 .. k)
      <4> HIDE DEF Body, D
      <4> QED BY <1>7, <3>1
    <3> QED BY <3>1, <3>2
  <2> QED BY <2>1, <2>2
<1>11. acc[n] = it[D]
  BY <1>1
<1> HIDE DEF acc
<1> QED BY <1>8, <1>9, <1>10, <1>11

LEMMA AppendedMember ==
  ASSUME NEW A, NEW s \in Seq(A), NEW a \in A
  PROVE  ToSet(Append(s, a)) = ToSet(s) \cup {a}
<1>1. /\ DOMAIN Append(s, a) = DOMAIN s \cup {Len(s) + 1}
      /\ \A i \in DOMAIN s : Append(s, a)[i] = s[i]
      /\ Append(s, a)[Len(s) + 1] = a
  OBVIOUS
<1> QED BY <1>1 DEF ToSet

LEMMA AppendedOnce ==
  ASSUME NEW A, NEW s \in Seq(A), NEW new \in A, IsInjective(s), new \notin ToSet(s)
  PROVE  IsInjective(Append(s, new))
<1> DEFINE t == Append(s, new)
<1>1. /\ DOMAIN t = DOMAIN s \cup {Len(s) + 1}
      /\ \A i \in DOMAIN s : t[i] = s[i]
      /\ t[Len(s) + 1] = new
  OBVIOUS
<1>2. \A i \in DOMAIN s : s[i] # new
  BY DEF ToSet
<1> HIDE DEF t
<1>3. IsInjective(t)
  BY <1>1, <1>2 DEF IsInjective
<1> QED BY <1>3 DEF t

(* What is left of a list without some of its members.                     *)
LEMMA WithoutMembers ==
  ASSUME NEW A, NEW list \in Seq(A), NEW S
  PROVE  /\ Without(list, S) \in Seq(A)
         /\ ToSet(Without(list, S)) = ToSet(list) \ S
         /\ IsInjective(list) => IsInjective(Without(list, S))
<1> DEFINE n == Len(list)
           D == 1 .. n
           X == Seq(A)
           step(k, x) == IF list[k] \in S THEN x ELSE Append(x, list[k])
           h == [dx \in D \X X |-> step(dx[1], dx[2])]
           pick == [s \in SUBSET D |-> Max(s)]
           Body(f, s) == IF s = {} THEN <<>> ELSE step(Max(s), f[s \ {Max(s)}])
<1>1. n \in Nat /\ DOMAIN list = D /\ IsFiniteSet(D) /\ \A k \in D : list[k] \in A
  BY FS_Interval
<1>2. \A s \in SUBSET D : s # {} => Max(s) \in s
  BY <1>1, PicksOfIntervals
<1>3. \A k \in D : \A x \in X : step(k, x) \in X
  BY <1>1
<1>4. <<>> \in X
  OBVIOUS
<1>5. \E iter \in [SUBSET D -> X] : \A s \in SUBSET D : iter[s] = Body(iter, s)
  <2> HIDE DEF X, D, step
  <2>1. \A d \in D : \A x \in X : h[<<d, x>>] = step(d, x) /\ h[<<d, x>>] \in X
    BY <1>3
  <2>2. \A s \in SUBSET D : pick[s] = Max(s)
    OBVIOUS
  <2> HIDE DEF h, pick
  <2>3. PicksFrom(D, pick)
    BY <1>2, <2>2 DEF PicksFrom
  <2>4. StaysIn(X, D, h)
    BY <2>1 DEF StaysIn
  <2>5. PICK iter \in [SUBSET D -> X] : Folds(iter, D, <<>>, h, pick)
    BY <1>1, <1>4, <2>3, <2>4, FoldExists
  <2>6. ASSUME NEW s \in SUBSET D
        PROVE  iter[s] = Body(iter, s)
    <3>1. CASE s = {}
      BY <2>5, <3>1 DEF Folds
    <3>2. CASE s # {}
      <4>1. Max(s) \in D /\ s \ {Max(s)} \in SUBSET D
        BY <1>2, <3>2
      <4>2. iter[s \ {Max(s)}] \in X
        BY <4>1
      <4> QED BY <2>1, <2>2, <2>5, <3>2, <4>1, <4>2 DEF Folds
    <3> QED BY <3>1, <3>2
  <2> QED BY <2>6
<1>6. \E iter : iter = [s \in SUBSET D |-> Body(iter, s)]
  <2>1. PICK iter \in [SUBSET D -> X] : \A s \in SUBSET D : iter[s] = Body(iter, s)
    BY <1>5
  <2> HIDE DEF X, D, Body
  <2>2. iter = [s \in SUBSET D |-> Body(iter, s)]
    BY <2>1
  <2> QED BY <2>2
<1> DEFINE it == CHOOSE iter : iter = [s \in SUBSET D |-> Body(iter, s)]
<1>7. it = [s \in SUBSET D |-> Body(it, s)]
  <2> HIDE DEF D, Body
  <2> QED BY <1>6
<1>8. Without(list, S) = it[D]
  BY <1>1 DEF Without, FoldLeft, MapThenFoldSet
<1>9. it[1 .. 0] = <<>>
  <2>1. 1 .. 0 = {} /\ {} \in SUBSET D
    OBVIOUS
  <2> QED BY <1>7, <2>1
<1>10. ASSUME NEW k \in 1 .. n
       PROVE  it[1 .. k] = step(k, it[1 .. (k - 1)])
  <2>1. /\ 1 .. k \in SUBSET D /\ 1 .. k # {}
        /\ Max(1 .. k) = k /\ (1 .. k) \ {k} = 1 .. (k - 1)
    BY <1>1, PrefixRest
  <2> HIDE DEF it, step
  <2>2. it[1 .. k] = Body(it, 1 .. k)
    <3> HIDE DEF Body, D
    <3> QED BY <1>7, <2>1
  <2> QED BY <2>1, <2>2
<1> HIDE DEF it
<1> DEFINE G == { k \in 0 .. n : /\ it[1 .. k] \in Seq(A)
                                 /\ ToSet(it[1 .. k]) = { list[i] : i \in 1 .. k } \ S
                                 /\ IsInjective(list) => IsInjective(it[1 .. k]) }
<1>11. 0 \in G
  <2>1. ToSet(<<>>) = {} /\ { list[i] : i \in 1 .. 0 } = {} /\ IsInjective(<<>>)
    BY DEF ToSet, IsInjective
  <2>2. 0 \in 0 .. n /\ <<>> \in Seq(A)
    BY <1>1
  <2> QED BY <1>9, <2>1, <2>2
<1>12. ASSUME NEW k \in 1 .. n, k - 1 \in G
       PROVE  k \in G
  <2> DEFINE x == it[1 .. (k - 1)]
  <2>1. /\ x \in Seq(A) /\ ToSet(x) = { list[i] : i \in 1 .. (k - 1) } \ S
        /\ IsInjective(list) => IsInjective(x)
    BY <1>12
  <2>2. it[1 .. k] = IF list[k] \in S THEN x ELSE Append(x, list[k])
    BY <1>10
  <2>3. list[k] \in A /\ k \in 0 .. n /\ 1 .. k = 1 .. (k - 1) \cup {k}
    BY <1>1
  <2>4. { list[i] : i \in 1 .. k } = { list[i] : i \in 1 .. (k - 1) } \cup {list[k]}
    BY <2>3
  <2> HIDE DEF x
  <2>5. ToSet(Append(x, list[k])) = ToSet(x) \cup {list[k]}
    BY <2>1, <2>3, AppendedMember
  <2>6. it[1 .. k] \in Seq(A)
    BY <2>1, <2>2, <2>3
  <2>7. ToSet(it[1 .. k]) = { list[i] : i \in 1 .. k } \ S
    BY <2>1, <2>2, <2>4, <2>5
  <2>8. ASSUME IsInjective(list), list[k] \notin S
        PROVE  IsInjective(Append(x, list[k]))
    <3>1. \A i \in 1 .. (k - 1) : list[i] # list[k]
      BY <1>1, <2>8 DEF IsInjective
    <3>2. list[k] \notin ToSet(x)
      BY <2>1, <3>1
    <3>3. x \in Seq(A) /\ list[k] \in A /\ IsInjective(x)
      BY <2>1, <2>3, <2>8
    <3> HIDE DEF n, G, D, it, Body
    <3> QED BY <3>2, <3>3, AppendedOnce
  <2>9. IsInjective(list) => IsInjective(it[1 .. k])
    BY <2>1, <2>2, <2>8
  <2> QED BY <2>3, <2>6, <2>7, <2>9
<1>13. n \in G
  <2>1. n \in Nat /\ n \in 0 .. n
    BY <1>1
  <2> HIDE DEF G, n
  <2>2. \A k \in 0 .. n : k \in G
    BY <1>11, <1>12, <2>1, UpTo
  <2> QED BY <2>1, <2>2
<1>14. ToSet(list) = { list[i] : i \in 1 .. n }
  BY <1>1 DEF ToSet
<1> QED BY <1>8, <1>13, <1>14

LEMMA ConcatSets ==
  ASSUME NEW A, NEW s \in Seq(A), NEW t \in Seq(A)
  PROVE  s \o t \in Seq(A) /\ ToSet(s \o t) = ToSet(s) \cup ToSet(t)
<1>1. /\ s \o t \in Seq(A) /\ Len(s \o t) = Len(s) + Len(t)
      /\ \A i \in 1 .. Len(s) + Len(t) : (s \o t)[i] = IF i <= Len(s) THEN s[i] ELSE t[i - Len(s)]
  OBVIOUS
<1>2. Len(s) \in Nat /\ Len(t) \in Nat
  OBVIOUS
<1>3. ASSUME NEW i \in 1 .. Len(s) + Len(t)
      PROVE  (s \o t)[i] \in ToSet(s) \cup ToSet(t)
  <2>1. CASE i <= Len(s)
    BY <1>1, <1>2, <2>1 DEF ToSet
  <2>2. CASE ~ (i <= Len(s))
    <3>1. i - Len(s) \in DOMAIN t /\ (s \o t)[i] = t[i - Len(s)]
      BY <1>1, <1>2, <2>2
    <3> QED BY <3>1 DEF ToSet
  <2> QED BY <2>1, <2>2
<1>4. ASSUME NEW i \in 1 .. Len(s)
      PROVE  s[i] \in ToSet(s \o t)
  <2>1. i \in DOMAIN (s \o t) /\ (s \o t)[i] = s[i]
    BY <1>1, <1>2
  <2> QED BY <2>1 DEF ToSet
<1>5. ASSUME NEW i \in 1 .. Len(t)
      PROVE  t[i] \in ToSet(s \o t)
  <2>1. i + Len(s) \in DOMAIN (s \o t) /\ (s \o t)[i + Len(s)] = t[i]
    BY <1>1, <1>2
  <2> QED BY <2>1 DEF ToSet
<1>6. ToSet(s \o t) \subseteq ToSet(s) \cup ToSet(t)
  BY <1>1, <1>3 DEF ToSet
<1>7. ToSet(s) \subseteq ToSet(s \o t) /\ ToSet(t) \subseteq ToSet(s \o t)
  <2>1. ToSet(s) \subseteq ToSet(s \o t)
    BY <1>4 DEF ToSet
  <2>2. ToSet(t) \subseteq ToSet(s \o t)
    BY <1>5 DEF ToSet
  <2> QED BY <2>1, <2>2
<1> QED BY <1>1, <1>6, <1>7

LEMMA ConcatOnce ==
  ASSUME NEW A, NEW s \in Seq(A), NEW t \in Seq(A), IsInjective(s), IsInjective(t),
         ToSet(s) \cap ToSet(t) = {}
  PROVE  IsInjective(s \o t)
<1>1. /\ Len(s) \in Nat /\ Len(t) \in Nat /\ DOMAIN (s \o t) = 1 .. Len(s) + Len(t)
      /\ \A i \in 1 .. Len(s) + Len(t) : (s \o t)[i] = IF i <= Len(s) THEN s[i] ELSE t[i - Len(s)]
  OBVIOUS
<1>2. \A i \in 1 .. Len(s), j \in 1 .. Len(t) : s[i] # t[j]
  BY DEF ToSet
<1> SUFFICES ASSUME NEW i \in 1 .. Len(s) + Len(t), NEW j \in 1 .. Len(s) + Len(t),
                    (s \o t)[i] = (s \o t)[j]
             PROVE  i = j
  BY <1>1 DEF IsInjective
<1>3. CASE i <= Len(s) /\ j <= Len(s)
  BY <1>1, <1>3 DEF IsInjective
<1>4. CASE i <= Len(s) /\ ~ (j <= Len(s))
  <2>1. i \in 1 .. Len(s) /\ j - Len(s) \in 1 .. Len(t)
    BY <1>1, <1>4
  <2> QED BY <1>1, <1>2, <1>4, <2>1
<1>5. CASE ~ (i <= Len(s)) /\ j <= Len(s)
  <2>1. j \in 1 .. Len(s) /\ i - Len(s) \in 1 .. Len(t)
    BY <1>1, <1>5
  <2> QED BY <1>1, <1>2, <1>5, <2>1
<1>6. CASE ~ (i <= Len(s)) /\ ~ (j <= Len(s))
  <2>1. i - Len(s) \in DOMAIN t /\ j - Len(s) \in DOMAIN t /\ t[i - Len(s)] = t[j - Len(s)]
    BY <1>1, <1>6
  <2>2. i - Len(s) = j - Len(s)
    BY <2>1 DEF IsInjective
  <2> QED BY <1>1, <2>2
<1> QED BY <1>3, <1>4, <1>5, <1>6

(***************************************************************************)
(* Every pseudo-parameter gives way to the parameters of its submodel.     *)
(***************************************************************************)
LEMMA ResolvedMembers ==
  ASSUME NEW params \in Seq(Int),
         \A p \in ToSet(params) : IsPseudo(p) =>
            /\ ModelOf(p).parameters \in Seq(Int)
            /\ \A q \in ToSet(ModelOf(p).parameters) : ~ IsPseudo(q)
  PROVE  /\ Resolved(params) \in Seq(Int)
         /\ ToSet(Resolved(params)) =
              { p \in ToSet(params) : ~ IsPseudo(p) }
                \cup UNION { ToSet(ModelOf(p).parameters) : p \in { q \in ToSet(params) : IsPseudo(q) } }
         /\ (/\ IsInjective(params)
             /\ \A p \in ToSet(params) : IsPseudo(p) => IsInjective(ModelOf(p).parameters))
              => IsInjective(Resolved(params))
<1> DEFINE n == Len(params)
           D == 1 .. n
           X == Seq(Int)
           step(k, x) == IF ~ IsPseudo(params[k]) THEN x
                         ELSE CHOOSE list \in { Resolve(params[k], l) : l \in {x} } : TRUE
           h == [dx \in D \X X |-> step(dx[1], dx[2])]
           pick == [s \in SUBSET D |-> Min(s)]
           Body(f, s) == IF s = {} THEN params ELSE step(Min(s), f[s \ {Min(s)}])
           of(k) == ToSet(ModelOf(params[k]).parameters)
           Apiece == \A p \in ToSet(params) : IsPseudo(p) => IsInjective(ModelOf(p).parameters)
<1>1. /\ n \in Nat /\ DOMAIN params = D /\ IsFiniteSet(D)
      /\ \A k \in D : params[k] \in Int /\ params[k] \in ToSet(params)
  <2>1. n \in Nat /\ DOMAIN params = D /\ \A k \in D : params[k] \in Int
    OBVIOUS
  <2>2. IsFiniteSet(D)
    BY <2>1, FS_Interval
  <2> QED BY <2>1, <2>2 DEF ToSet
<1>2. \A s \in SUBSET D : s # {} => Min(s) \in s
  BY <1>1, PicksOfIntervals
<1>3. ASSUME NEW k \in D, NEW x \in X
      PROVE  /\ step(k, x) \in X
             /\ IsPseudo(params[k]) =>
                  ToSet(step(k, x)) = (ToSet(x) \ {params[k]}) \cup (of(k) \ ToSet(x))
             /\ Apiece /\ IsInjective(x) => IsInjective(step(k, x))
  <2>1. CASE ~ IsPseudo(params[k])
    BY <2>1
  <2>2. CASE IsPseudo(params[k])
    <3>1. step(k, x) = Resolve(params[k], x)
      BY <2>2
    <3>2. ModelOf(params[k]).parameters \in Seq(Int)
      BY <1>1, <2>2
    <3>3. /\ Without(x, {params[k]}) \in Seq(Int)
          /\ ToSet(Without(x, {params[k]})) = ToSet(x) \ {params[k]}
          /\ IsInjective(x) => IsInjective(Without(x, {params[k]}))
      BY WithoutMembers
    <3>4. /\ Without(ModelOf(params[k]).parameters, ToSet(x)) \in Seq(Int)
          /\ ToSet(Without(ModelOf(params[k]).parameters, ToSet(x))) = of(k) \ ToSet(x)
          /\ Apiece => IsInjective(Without(ModelOf(params[k]).parameters, ToSet(x)))
      BY <1>1, <2>2, <3>2, WithoutMembers
    <3>5. /\ Resolve(params[k], x) \in Seq(Int)
          /\ ToSet(Resolve(params[k], x)) = (ToSet(x) \ {params[k]}) \cup (of(k) \ ToSet(x))
          /\ Apiece /\ IsInjective(x) => IsInjective(Resolve(params[k], x))
      <4> DEFINE a == Without(x, {params[k]})
                 b == Without(ModelOf(params[k]).parameters, ToSet(x))
      <4>1. a \in Seq(Int) /\ b \in Seq(Int)
        BY <3>3, <3>4
      <4>2. a \o b \in Seq(Int) /\ ToSet(a \o b) = ToSet(a) \cup ToSet(b)
        <5> HIDE DEF a, b
        <5> QED BY <4>1, ConcatSets
      <4>3. Resolve(params[k], x) = a \o b
        BY DEF Resolve
      <4>4. ToSet(a) = ToSet(x) \ {params[k]} /\ ToSet(b) = of(k) \ ToSet(x)
        BY <3>3, <3>4
      <4>5. Apiece /\ IsInjective(x) => IsInjective(a) /\ IsInjective(b)
        BY <3>3, <3>4
      <4> HIDE DEF a, b, of, Apiece
      <4>6. ToSet(a) \cap ToSet(b) = {}
        BY <4>4
      <4>7. Apiece /\ IsInjective(x) => IsInjective(a \o b)
        BY <4>1, <4>5, <4>6, ConcatOnce
      <4> QED BY <4>2, <4>3, <4>4, <4>7
    <3> HIDE DEF step, of, Apiece
    <3> QED BY <3>1, <3>5
  <2> QED BY <2>1, <2>2
<1>4. params \in X
  OBVIOUS
<1>5. \E iter \in [SUBSET D -> X] : \A s \in SUBSET D : iter[s] = Body(iter, s)
  <2>0. \A k \in D : \A x \in X : step(k, x) \in X
    <3> HIDE DEF step, X, D, of, Apiece
    <3> QED BY <1>3
  <2> HIDE DEF X, D, step
  <2>1. \A d \in D : \A x \in X : h[<<d, x>>] = step(d, x) /\ h[<<d, x>>] \in X
    BY <2>0
  <2>2. \A s \in SUBSET D : pick[s] = Min(s)
    OBVIOUS
  <2> HIDE DEF h, pick
  <2>3. PicksFrom(D, pick)
    BY <1>2, <2>2 DEF PicksFrom
  <2>4. StaysIn(X, D, h)
    BY <2>1 DEF StaysIn
  <2>5. PICK iter \in [SUBSET D -> X] : Folds(iter, D, params, h, pick)
    BY <1>1, <1>4, <2>3, <2>4, FoldExists
  <2>6. ASSUME NEW s \in SUBSET D
        PROVE  iter[s] = Body(iter, s)
    <3>1. CASE s = {}
      BY <2>5, <3>1 DEF Folds
    <3>2. CASE s # {}
      <4>1. Min(s) \in D /\ s \ {Min(s)} \in SUBSET D
        BY <1>2, <3>2
      <4>2. iter[s \ {Min(s)}] \in X
        BY <4>1
      <4> QED BY <2>1, <2>2, <2>5, <3>2, <4>1, <4>2 DEF Folds
    <3> QED BY <3>1, <3>2
  <2> QED BY <2>6
<1>6. \E iter : iter = [s \in SUBSET D |-> Body(iter, s)]
  <2>1. PICK iter \in [SUBSET D -> X] : \A s \in SUBSET D : iter[s] = Body(iter, s)
    BY <1>5
  <2> HIDE DEF X, D, Body
  <2>2. iter = [s \in SUBSET D |-> Body(iter, s)]
    BY <2>1
  <2> QED BY <2>2
<1> DEFINE it == CHOOSE iter : iter = [s \in SUBSET D |-> Body(iter, s)]
<1>7. it = [s \in SUBSET D |-> Body(it, s)]
  <2> HIDE DEF D, Body
  <2> QED BY <1>6
<1>8. Resolved(params) = it[D]
  BY <1>1 DEF Resolved, FoldRight, MapThenFoldSet
<1>9. it[(n + 1) .. n] = params
  <2>1. (n + 1) .. n = {} /\ {} \in SUBSET D
    BY <1>1
  <2> QED BY <1>7, <2>1
<1>10. ASSUME NEW k \in 1 .. n
       PROVE  it[k .. n] = step(k, it[(k + 1) .. n])
  <2>1. /\ k .. n \in SUBSET D /\ k .. n # {}
        /\ Min(k .. n) = k /\ (k .. n) \ {k} = (k + 1) .. n
    BY <1>1, SuffixRest
  <2> HIDE DEF it, step
  <2>2. it[k .. n] = Body(it, k .. n)
    <3> HIDE DEF Body, D
    <3> QED BY <1>7, <2>1
  <2> QED BY <2>1, <2>2
<1> HIDE DEF it
<1> DEFINE late(k) == { i \in k .. n : IsPseudo(params[i]) }
           G == { k \in 1 .. n + 1 :
                    /\ it[k .. n] \in Seq(Int)
                    /\ ToSet(it[k .. n]) = (ToSet(params) \ { params[i] : i \in late(k) })
                                             \cup UNION { of(i) : i \in late(k) }
                    /\ Apiece /\ IsInjective(params) => IsInjective(it[k .. n]) }
<1> HIDE DEF Apiece
<1>11. n + 1 \in G
  <2>1. late(n + 1) = {} /\ n + 1 \in 1 .. n + 1
    BY <1>1
  <2> HIDE DEF late
  <2> QED BY <1>9, <2>1
<1>12. ASSUME NEW k \in 1 .. n, k + 1 \in G
       PROVE  k \in G
  <2> DEFINE x == it[(k + 1) .. n]
  <2>1. /\ x \in Seq(Int)
        /\ ToSet(x) = (ToSet(params) \ { params[i] : i \in late(k + 1) }) \cup UNION { of(i) : i \in late(k + 1) }
        /\ Apiece /\ IsInjective(params) => IsInjective(x)
    BY <1>12
  <2>2. it[k .. n] = step(k, x)
    BY <1>10
  <2>3. k \in 1 .. n + 1 /\ k .. n = {k} \cup ((k + 1) .. n)
    BY <1>1
  <2>4. it[k .. n] \in Seq(Int)
    BY <1>3, <2>1, <2>2
  <2>5. ASSUME ~ IsPseudo(params[k])
        PROVE  ToSet(it[k .. n]) = (ToSet(params) \ { params[i] : i \in late(k) }) \cup UNION { of(i) : i \in late(k) }
    <3>1. late(k) = late(k + 1)
      BY <2>3, <2>5
    <3>2. it[k .. n] = x
      BY <2>2, <2>5
    <3> HIDE DEF late, x, of
    <3> QED BY <2>1, <3>1, <3>2
  <2>6. ASSUME IsPseudo(params[k])
        PROVE  ToSet(it[k .. n]) = (ToSet(params) \ { params[i] : i \in late(k) }) \cup UNION { of(i) : i \in late(k) }
    <3>1. late(k) = late(k + 1) \cup {k}
      BY <2>3, <2>6
    <3>2. ToSet(it[k .. n]) = (ToSet(x) \ {params[k]}) \cup (of(k) \ ToSet(x))
      <4> HIDE DEF x, step
      <4> QED BY <1>3, <2>1, <2>2, <2>6
    <3>3. \A i \in late(k) : params[k] \notin of(i)
      BY <1>1, <2>6
    <3>4. { params[i] : i \in late(k) } = { params[i] : i \in late(k + 1) } \cup {params[k]}
      BY <3>1
    <3>5. UNION { of(i) : i \in late(k) } = (UNION { of(i) : i \in late(k + 1) }) \cup of(k)
      <4> HIDE DEF late, of
      <4> QED BY <3>1
    <3>6. params[k] \notin UNION { of(i) : i \in late(k) }
      <4> HIDE DEF late, of
      <4> QED BY <3>3
    <3> DEFINE L == { params[i] : i \in late(k + 1) }
               U == UNION { of(i) : i \in late(k + 1) }
    <3> HIDE DEF late, x, of, L, U
    <3>7. ToSet(x) = (ToSet(params) \ L) \cup U
      BY <2>1 DEF L, U
    <3>8. { params[i] : i \in late(k) } = L \cup {params[k]} /\ UNION { of(i) : i \in late(k) } = U \cup of(k)
      BY <3>4, <3>5 DEF L, U
    <3> QED BY <3>2, <3>6, <3>7, <3>8
  <2>7. Apiece /\ IsInjective(params) => IsInjective(it[k .. n])
    <3> HIDE DEF x, step
    <3> QED BY <1>3, <2>1, <2>2
  <2> HIDE DEF late, of
  <2> QED BY <2>3, <2>4, <2>5, <2>6, <2>7
<1>13. 1 \in G
  <2>1. n \in Nat /\ 1 \in 1 .. n + 1
    BY <1>1
  <2> HIDE DEF G, n
  <2>2. \A k \in 1 .. n + 1 : k \in G
    BY <1>11, <1>12, <2>1, DownFrom
  <2> QED BY <2>1, <2>2
<1>14. ToSet(params) = { params[i] : i \in D }
  BY <1>1 DEF ToSet
<1>15. { params[i] : i \in late(1) } = { q \in ToSet(params) : IsPseudo(q) }
  BY <1>14
<1>16. UNION { of(i) : i \in late(1) } =
         UNION { ToSet(ModelOf(p).parameters) : p \in { q \in ToSet(params) : IsPseudo(q) } }
  BY <1>14
<1>17. /\ it[D] \in Seq(Int)
       /\ ToSet(it[D]) = (ToSet(params) \ { params[i] : i \in late(1) }) \cup UNION { of(i) : i \in late(1) }
       /\ Apiece /\ IsInjective(params) => IsInjective(it[D])
  BY <1>13
<1> HIDE DEF late, of, D
<1> QED BY <1>8, <1>15, <1>16, <1>17 DEF Apiece

-----------------------------------------------------------------------------
(* Sorting *)

StrictOrder(n, ahead) ==
  /\ \A i \in 1 .. n : i \notin ahead[i]
  /\ \A i, j \in 1 .. n : i # j => j \in ahead[i] \/ i \in ahead[j]
  /\ \A i, j, k \in 1 .. n : j \in ahead[i] /\ k \in ahead[j] => k \in ahead[i]

OneRankEach(n, ahead) ==
  /\ \A i \in 1 .. n : Cardinality(ahead[i]) \in 0 .. n - 1
  /\ \A i, j \in 1 .. n : Cardinality(ahead[i]) = Cardinality(ahead[j]) => i = j
  /\ \A k \in 0 .. n - 1 : \E i \in 1 .. n : Cardinality(ahead[i]) = k

(* Ahead by a smaller key or, with equal keys, by an earlier place.        *)
AheadBy(n, key) ==
  [i \in 1 .. n |-> { j \in 1 .. n : key[j] < key[i] \/ (j < i /\ ~ (key[i] < key[j])) } \ {i}]

(***************************************************************************)
(* Who has how many ahead of it: under a strict total order, the ranks are *)
(* 0 to n - 1, one each.                                                   *)
(***************************************************************************)
LEMMA Ranks ==
  ASSUME NEW n \in Nat, NEW ahead \in [1 .. n -> SUBSET (1 .. n)],
         StrictOrder(n, ahead)
  PROVE  OneRankEach(n, ahead)
<1> DEFINE D == 1 .. n
           rank == [i \in D |-> Cardinality(ahead[i])]
<1>1. IsFiniteSet(D) /\ Cardinality(D) = n
  BY FS_Interval
<1>2. \A i \in D : IsFiniteSet(ahead[i]) /\ Cardinality(ahead[i]) \in Nat
  BY <1>1, FS_Subset, FS_CardinalityType
<1>3. ASSUME NEW i \in D, NEW j \in D, j \in ahead[i]
      PROVE  Cardinality(ahead[j]) < Cardinality(ahead[i])
  <2>1. ahead[j] \in SUBSET ahead[i] /\ ahead[j] # ahead[i]
    BY <1>3 DEF StrictOrder
  <2>2. Cardinality(ahead[j]) <= Cardinality(ahead[i]) /\ Cardinality(ahead[j]) # Cardinality(ahead[i])
    BY <1>2, <2>1, FS_Subset
  <2> QED BY <1>2, <2>2
<1>4. ASSUME NEW i \in D
      PROVE  Cardinality(ahead[i]) \in 0 .. n - 1
  <2>1. ahead[i] \in SUBSET D /\ ahead[i] # D
    BY DEF StrictOrder
  <2>2. Cardinality(ahead[i]) <= n /\ Cardinality(ahead[i]) # n
    BY <1>1, <2>1, FS_Subset
  <2> QED BY <1>2, <2>2
<1>5. ASSUME NEW i \in D, NEW j \in D, Cardinality(ahead[i]) = Cardinality(ahead[j])
      PROVE  i = j
  <2>1. Cardinality(ahead[i]) \in Nat
    BY <1>2
  <2> SUFFICES ASSUME i # j PROVE FALSE
    OBVIOUS
  <2>2. j \in ahead[i] \/ i \in ahead[j]
    BY DEF StrictOrder
  <2> QED BY <1>3, <1>5, <2>1, <2>2
<1>6. rank \in Surjection(D, 0 .. n - 1)
  <2>1. rank \in Injection(D, 0 .. n - 1)
    BY <1>4, <1>5 DEF Injection, IsInjective
  <2>2. IsFiniteSet(0 .. n - 1) /\ Cardinality(0 .. n - 1) = n
    BY FS_Interval
  <2> HIDE DEF rank, D
  <2> QED BY <1>1, <2>1, <2>2, FS_Injection
<1>7. \A k \in 0 .. n - 1 : \E i \in D : rank[i] = k
  BY <1>6 DEF Surjection
<1> QED BY <1>4, <1>5, <1>7 DEF OneRankEach

LEMMA KeysAhead ==
  ASSUME NEW n \in Nat, NEW key, \A i \in 1 .. n : key[i] \in Int
  PROVE  OneRankEach(n, AheadBy(n, key))
<1>1. AheadBy(n, key) \in [1 .. n -> SUBSET (1 .. n)]
  BY DEF AheadBy
<1>2. StrictOrder(n, AheadBy(n, key))
  <2>1. \A i, j \in 1 .. n : j \in AheadBy(n, key)[i] <=>
          i # j /\ (key[j] < key[i] \/ (j < i /\ ~ (key[i] < key[j])))
    BY DEF AheadBy
  <2> QED BY <2>1 DEF StrictOrder
<1> QED BY <1>1, <1>2, Ranks

(***************************************************************************)
(* A list put in the order of its ranks has the same members.              *)
(***************************************************************************)
InOrder(list, key, out) ==
  /\ out = [k \in DOMAIN list |-> out[k]]
  /\ \A k \in DOMAIN list :
       (\E i \in DOMAIN list : Cardinality(AheadBy(Len(list), key)[i]) = k - 1)
         => \E i \in DOMAIN list : /\ Cardinality(AheadBy(Len(list), key)[i]) = k - 1
                                  /\ out[k] = list[i]

LEMMA Reordered ==
  ASSUME NEW A, NEW list \in Seq(A), NEW key, \A i \in DOMAIN list : key[i] \in Int,
         NEW out, InOrder(list, key, out)
  PROVE  /\ out \in Seq(A) /\ ToSet(out) = ToSet(list)
         /\ IsInjective(list) => IsInjective(out)
<1> DEFINE n == Len(list)
           ahead == AheadBy(n, key)
<1>1. n \in Nat /\ DOMAIN list = 1 .. n /\ \A i \in 1 .. n : list[i] \in A
  OBVIOUS
<1>2. OneRankEach(n, ahead)
  <2> HIDE DEF n
  <2> QED BY <1>1, KeysAhead
<1>3. /\ out = [k \in DOMAIN list |-> out[k]]
      /\ \A k \in DOMAIN list :
           (\E i \in DOMAIN list : Cardinality(ahead[i]) = k - 1)
             => \E i \in DOMAIN list : Cardinality(ahead[i]) = k - 1 /\ out[k] = list[i]
  BY DEF InOrder
<1> HIDE DEF ahead, n
<1>4. ASSUME NEW k \in 1 .. n
      PROVE  \E i \in 1 .. n : Cardinality(ahead[i]) = k - 1 /\ out[k] = list[i]
  <2>1. k - 1 \in 0 .. n - 1
    BY <1>1
  <2>2. \E i \in 1 .. n : Cardinality(ahead[i]) = k - 1
    BY <1>2, <2>1 DEF OneRankEach
  <2> QED BY <1>1, <1>3, <2>2
<1>5. out \in Seq(A)
  <2>1. \A k \in 1 .. n : out[k] \in A
    BY <1>1, <1>4
  <2>2. out = [k \in 1 .. n |-> out[k]]
    BY <1>1, <1>3
  <2> QED BY <1>1, <2>1, <2>2
<1>6. ASSUME NEW i \in 1 .. n
      PROVE  \E k \in 1 .. n : out[k] = list[i]
  <2> DEFINE k == Cardinality(ahead[i]) + 1
  <2>1. Cardinality(ahead[i]) \in 0 .. n - 1
    BY <1>2 DEF OneRankEach
  <2>2. k \in 1 .. n /\ k - 1 = Cardinality(ahead[i])
    BY <1>1, <2>1
  <2>3. PICK j \in 1 .. n : Cardinality(ahead[j]) = k - 1 /\ out[k] = list[j]
    BY <1>4, <2>2
  <2>4. j = i
    BY <1>2, <2>2, <2>3 DEF OneRankEach
  <2> QED BY <2>2, <2>3, <2>4
<1>7. \A k \in 1 .. n : \E i \in 1 .. n : out[k] = list[i]
  BY <1>4
<1>8. ToSet(out) = ToSet(list)
  <2>1. DOMAIN out = 1 .. n
    BY <1>1, <1>3
  <2>2. ToSet(out) = { out[k] : k \in 1 .. n } /\ ToSet(list) = { list[k] : k \in 1 .. n }
    BY <1>1, <2>1 DEF ToSet
  <2>3. \A x : (\E k \in 1 .. n : x = out[k]) <=> (\E i \in 1 .. n : x = list[i])
    BY <1>6, <1>7, Zenon
  <2> QED BY <2>2, <2>3
<1>9. ASSUME IsInjective(list)
      PROVE  IsInjective(out)
  <2> SUFFICES ASSUME NEW k \in 1 .. n, NEW l \in 1 .. n, out[k] = out[l]
               PROVE  k = l
    BY <1>1, <1>3 DEF IsInjective
  <2>1. PICK i \in 1 .. n : Cardinality(ahead[i]) = k - 1 /\ out[k] = list[i]
    BY <1>4
  <2>2. PICK j \in 1 .. n : Cardinality(ahead[j]) = l - 1 /\ out[l] = list[j]
    BY <1>4
  <2>3. i = j
    BY <1>1, <1>9, <2>1, <2>2 DEF IsInjective
  <2> QED BY <2>1, <2>2, <2>3
<1> QED BY <1>5, <1>8, <1>9

(* std::sort by order, highest first, and by sequence.                     *)
LEMMA SortedByOrder ==
  ASSUME NEW A, NEW list \in Seq(A), NEW known, \A p \in ToSet(list) : known[p].order \in Int
  PROVE  /\ ByOrder(list, known) \in Seq(A) /\ ToSet(ByOrder(list, known)) = ToSet(list)
         /\ IsInjective(list) => IsInjective(ByOrder(list, known))
<1> DEFINE D == DOMAIN list
           out == ByOrder(list, known)
           key == [i \in D |-> 0 - known[list[i]].order]
           before(i) == { j \in D : (known[list[j]].order > known[list[i]].order)
                                     \/ (j < i /\ ~ (known[list[i]].order > known[list[j]].order)) }
<1>1. D = 1 .. Len(list) /\ \A i \in D : list[i] \in ToSet(list)
  BY DEF ToSet
<1>2. \A i \in D : known[list[i]].order \in Int /\ key[i] \in Int
  BY <1>1
<1>3. ASSUME NEW i \in D
      PROVE  AheadBy(Len(list), key)[i] = before(i) \ {i}
  <2>1. AheadBy(Len(list), key)[i] = { j \in D : key[j] < key[i] \/ (j < i /\ ~ (key[i] < key[j])) } \ {i}
    BY <1>1 DEF AheadBy
  <2>2. \A j \in D : /\ key[j] < key[i] <=> known[list[j]].order > known[list[i]].order
                     /\ key[i] < key[j] <=> known[list[i]].order > known[list[j]].order
    <3>1. \A j \in D : key[j] = 0 - known[list[j]].order /\ known[list[j]].order \in Int
      BY <1>2
    <3>2. \A x, y \in Int : (0 - x < 0 - y) <=> (x > y)
      OBVIOUS
    <3> HIDE DEF D, key
    <3> QED BY ONLY i \in D, <3>1, <3>2
  <2> HIDE DEF key
  <2> QED BY <2>1, <2>2
<1>4. out = [k \in D |-> list[CHOOSE i \in D : Cardinality(before(i) \ {i}) = k - 1]]
  BY DEF ByOrder, Sorted
<1> HIDE DEF out, before, key
<1>5. \A i \in D : Cardinality(AheadBy(Len(list), key)[i]) = Cardinality(before(i) \ {i})
  BY <1>3
<1>6. ASSUME NEW k \in D, \E i \in D : Cardinality(before(i) \ {i}) = k - 1
      PROVE  \E i \in D : Cardinality(before(i) \ {i}) = k - 1 /\ out[k] = list[i]
  BY <1>4, <1>6
<1>7. InOrder(list, key, out)
  <2>1. out = [k \in D |-> out[k]]
    BY <1>4
  <2> QED BY <1>5, <1>6, <2>1 DEF InOrder
<1>8. /\ out \in Seq(A) /\ ToSet(out) = ToSet(list)
      /\ IsInjective(list) => IsInjective(out)
  BY <1>2, <1>7, Reordered
<1> QED BY <1>8 DEF out

LEMMA SortedBySequence ==
  ASSUME NEW A, NEW list \in Seq(A), NEW known, \A p \in ToSet(list) : known[p].sequence \in Int
  PROVE  /\ BySequence(list, known) \in Seq(A) /\ ToSet(BySequence(list, known)) = ToSet(list)
         /\ IsInjective(list) => IsInjective(BySequence(list, known))
<1> DEFINE D == DOMAIN list
           out == BySequence(list, known)
           key == [i \in D |-> known[list[i]].sequence]
           before(i) == { j \in D : (known[list[j]].sequence < known[list[i]].sequence)
                                     \/ (j < i /\ ~ (known[list[i]].sequence < known[list[j]].sequence)) }
<1>1. D = 1 .. Len(list) /\ \A i \in D : list[i] \in ToSet(list)
  BY DEF ToSet
<1>2. \A i \in D : known[list[i]].sequence \in Int /\ key[i] \in Int
  BY <1>1
<1>3. ASSUME NEW i \in D
      PROVE  AheadBy(Len(list), key)[i] = before(i) \ {i}
  <2>1. AheadBy(Len(list), key)[i] = { j \in D : key[j] < key[i] \/ (j < i /\ ~ (key[i] < key[j])) } \ {i}
    BY <1>1 DEF AheadBy
  <2>2. \A j \in D : /\ key[j] < key[i] <=> known[list[j]].sequence < known[list[i]].sequence
                     /\ key[i] < key[j] <=> known[list[i]].sequence < known[list[j]].sequence
    BY <1>2
  <2> HIDE DEF key
  <2> QED BY <2>1, <2>2
<1>4. out = [k \in D |-> list[CHOOSE i \in D : Cardinality(before(i) \ {i}) = k - 1]]
  BY DEF BySequence, Sorted
<1> HIDE DEF out, before, key
<1>5. \A i \in D : Cardinality(AheadBy(Len(list), key)[i]) = Cardinality(before(i) \ {i})
  BY <1>3
<1>6. ASSUME NEW k \in D, \E i \in D : Cardinality(before(i) \ {i}) = k - 1
      PROVE  \E i \in D : Cardinality(before(i) \ {i}) = k - 1 /\ out[k] = list[i]
  BY <1>4, <1>6
<1>7. InOrder(list, key, out)
  <2>1. out = [k \in D |-> out[k]]
    BY <1>4
  <2> QED BY <1>5, <1>6, <2>1 DEF InOrder
<1>8. /\ out \in Seq(A) /\ ToSet(out) = ToSet(list)
      /\ IsInjective(list) => IsInjective(out)
  BY <1>2, <1>7, Reordered
<1> QED BY <1>8 DEF out

LEMMA Intervals ==
  ASSUME NEW n \in Nat
  PROVE  /\ IsFiniteSet(0 .. n - 1) /\ Cardinality(0 .. n - 1) = n
         /\ IsFiniteSet(1 .. n) /\ Cardinality(1 .. n) = n
<1>1. 0 \in Int /\ 1 \in Int /\ n \in Int /\ n - 1 \in Int
  OBVIOUS
<1>2. IsFiniteSet(0 .. n - 1) /\ Cardinality(0 .. n - 1) = IF 0 > n - 1 THEN 0 ELSE n - 1 - 0 + 1
  BY <1>1, FS_Interval
<1>3. IsFiniteSet(1 .. n) /\ Cardinality(1 .. n) = IF 1 > n THEN 0 ELSE n - 1 + 1
  BY <1>1, FS_Interval
<1> QED BY <1>2, <1>3

(***************************************************************************)
(* Parameters numbered from zero are sorted by number.                     *)
(***************************************************************************)
LEMMA Numbered ==
  ASSUME NEW n \in Nat, NEW list \in Seq(Int), IsInjective(list), ToSet(list) = 0 .. n - 1,
         NEW known, \A p \in 0 .. n - 1 : known[p].sequence = p
  PROVE  BySequence(list, known) = [k \in 1 .. n |-> k - 1]
<1> DEFINE D == DOMAIN list
           before(i) == { j \in D : (known[list[j]].sequence < known[list[i]].sequence)
                                     \/ (j < i /\ ~ (known[list[i]].sequence < known[list[j]].sequence)) }
           place(v) == CHOOSE j \in D : list[j] = v
<1>1. /\ D = 1 .. Len(list) /\ Len(list) \in Nat
      /\ \A i \in D : list[i] \in 0 .. n - 1 /\ known[list[i]].sequence = list[i]
      /\ \A v \in 0 .. n - 1 : \E j \in D : list[j] = v
      /\ \A i, j \in D : list[i] = list[j] => i = j
  <2>1. D = 1 .. Len(list) /\ Len(list) \in Nat
    OBVIOUS
  <2>2. \A v : v \in 0 .. n - 1 <=> \E j \in D : v = list[j]
    BY DEF ToSet
  <2>3. \A i, j \in D : list[i] = list[j] => i = j
    BY DEF IsInjective
  <2> HIDE DEF D
  <2> QED BY <2>1, <2>2, <2>3
<1>2. \A v \in 0 .. n - 1 : place(v) \in D /\ list[place(v)] = v
  BY <1>1
<1> HIDE DEF place
<1>3. ASSUME NEW i \in D
      PROVE  before(i) \ {i} = { place(v) : v \in 0 .. list[i] - 1 }
  <2>1. \A j \in D : j \in before(i) \ {i} <=> list[j] < list[i]
    <3> SUFFICES ASSUME NEW j \in D PROVE j \in before(i) \ {i} <=> list[j] < list[i]
      OBVIOUS
    <3>1. /\ list[i] \in Int /\ list[j] \in Int
          /\ known[list[i]].sequence = list[i] /\ known[list[j]].sequence = list[j]
          /\ list[i] = list[j] => i = j
      BY <1>1
    <3> QED BY <3>1
  <2>2. \A j \in D : list[j] < list[i] => j = place(list[j]) /\ list[j] \in 0 .. list[i] - 1
    BY <1>1, <1>2
  <2>3. \A v \in 0 .. list[i] - 1 : place(v) \in D /\ list[place(v)] < list[i]
    <3>1. \A v \in 0 .. list[i] - 1 : v \in 0 .. n - 1 /\ v < list[i]
      BY <1>1
    <3> QED BY <1>2, <3>1
  <2>4. before(i) \ {i} \subseteq D
    OBVIOUS
  <2> HIDE DEF before, D
  <2> QED BY <2>1, <2>2, <2>3, <2>4
<1>4. ASSUME NEW i \in D
      PROVE  Cardinality(before(i) \ {i}) = list[i]
  <2> DEFINE S == 0 .. list[i] - 1
             f == [v \in S |-> place(v)]
  <2>1. list[i] \in Nat /\ S \subseteq 0 .. n - 1
    BY <1>1
  <2>2. IsFiniteSet(S) /\ Cardinality(S) = list[i]
    BY <2>1, Intervals
  <2>3. f \in Injection(S, { place(v) : v \in S })
    <3>1. \A v, w \in S : place(v) = place(w) => v = w
      BY <1>2, <2>1
    <3> QED BY <3>1 DEF Injection, IsInjective
  <2>4. f \in Surjection(S, { place(v) : v \in S })
    BY DEF Surjection
  <2> HIDE DEF f, S
  <2>5. ExistsBijection(S, { place(v) : v \in S })
    BY <2>3, <2>4 DEF Bijection, ExistsBijection
  <2>6. Cardinality({ place(v) : v \in S }) = Cardinality(S)
    BY <2>2, <2>5, FS_Bijection
  <2> QED BY <1>3, <2>2, <2>6 DEF S
<1>5. Len(list) = n
  <2> DEFINE f == [i \in D |-> list[i]]
  <2>1. f \in Injection(1 .. Len(list), 0 .. n - 1)
    BY <1>1 DEF Injection, IsInjective
  <2>2. f \in Surjection(1 .. Len(list), 0 .. n - 1)
    BY <1>1 DEF Surjection
  <2>3. /\ IsFiniteSet(1 .. Len(list)) /\ Cardinality(1 .. Len(list)) = Len(list)
        /\ Cardinality(0 .. n - 1) = n
    BY <1>1, Intervals
  <2> HIDE DEF f
  <2>4. ExistsBijection(1 .. Len(list), 0 .. n - 1)
    BY <2>1, <2>2 DEF Bijection, ExistsBijection
  <2>5. Cardinality(0 .. n - 1) = Cardinality(1 .. Len(list))
    BY <2>3, <2>4, FS_Bijection
  <2> QED BY <2>3, <2>5
<1>6. BySequence(list, known)
        = [k \in D |-> list[CHOOSE i \in D : Cardinality(before(i) \ {i}) = k - 1]]
  BY DEF BySequence, Sorted
<1> HIDE DEF before
<1>7. ASSUME NEW k \in D
      PROVE  list[CHOOSE i \in D : Cardinality(before(i) \ {i}) = k - 1] = k - 1
  <2>1. k - 1 \in 0 .. n - 1
    BY <1>1, <1>5
  <2>2. place(k - 1) \in D /\ Cardinality(before(place(k - 1)) \ {place(k - 1)}) = k - 1
    BY <1>2, <1>4, <2>1
  <2> DEFINE i == CHOOSE i \in D : Cardinality(before(i) \ {i}) = k - 1
  <2>3. i \in D /\ Cardinality(before(i) \ {i}) = k - 1
    BY <2>2
  <2> HIDE DEF i
  <2>4. list[i] = k - 1
    BY <1>4, <2>3
  <2> QED BY <2>4 DEF i
<1>8. D = 1 .. n
  BY <1>1, <1>5
<1> HIDE DEF D
<1> QED BY <1>6, <1>7, <1>8

-----------------------------------------------------------------------------
(* Rows and the closure of exclusions *)

RowsOf(params, known) == Engine(ValueCounts(params, known))!Rows

(* r gives each parameter of params the value f says.                      *)
Gives(r, f, params, known) ==
  /\ r = { <<p, f[p]>> : p \in params }
  /\ \A p \in params : f[p] \in 0 .. known[p].valueCount - 1

LEMMA RowsGive ==
  ASSUME NEW params, NEW known, NEW r \in RowsOf(params, known)
  PROVE  \E f : Gives(r, f, params, known)
<1> DEFINE counts == ValueCounts(params, known)
<1>1. DOMAIN counts = params /\ \A p \in params : counts[p] = known[p].valueCount
  BY DEF ValueCounts
<1>2. r \in Engine(counts)!Rows
  BY DEF RowsOf
<1> HIDE DEF counts
<1>3. PICK f \in [DOMAIN counts -> UNION { Engine(counts)!Values(p) : p \in DOMAIN counts }] :
        /\ \A p \in DOMAIN counts : f[p] \in Engine(counts)!Values(p)
        /\ r = { <<p, f[p]>> : p \in DOMAIN counts }
  BY <1>2 DEF Engine!Rows, Engine!Cells
<1>4. \A p \in params : f[p] \in 0 .. known[p].valueCount - 1
  BY <1>1, <1>3 DEF Engine!Values
<1> QED BY <1>1, <1>3, <1>4 DEF Gives

LEMMA RowFinite ==
  ASSUME NEW params, IsFiniteSet(params), NEW known, NEW r \in RowsOf(params, known)
  PROVE  IsFiniteSet(r)
<1>1. PICK f : Gives(r, f, params, known)
  BY RowsGive
<1> DEFINE g == [p \in params |-> <<p, f[p]>>]
<1>2. g \in Surjection(params, r)
  BY <1>1 DEF Gives, Surjection
<1> HIDE DEF g
<1> QED BY <1>2, FS_Surjection

(* Part of a row is a partial assignment of any parameters that include it. *)
LEMMA PartOfRow ==
  ASSUME NEW params, NEW known, NEW r \in RowsOf(params, known),
         NEW e \in SUBSET r, NEW P, ParamsOf(e) \subseteq P
  PROVE  e \in Engine(ValueCounts(P, known))!Partials
<1> DEFINE counts == ValueCounts(P, known)
           S == ParamsOf(e)
<1>1. DOMAIN counts = P /\ \A p \in P : counts[p] = known[p].valueCount
  BY DEF ValueCounts
<1>2. PICK f : Gives(r, f, params, known)
  BY RowsGive
<1>3. \A t \in e : t = <<t[1], f[t[1]]>> /\ t[1] \in params /\ t[1] \in S
  BY <1>2 DEF Gives, ParamsOf
<1>4. \A p \in S : p \in params /\ p \in P /\ <<p, f[p]>> \in e
  BY <1>3 DEF ParamsOf
<1>5. \A p \in S : f[p] \in Engine(counts)!Values(p)
  <2>1. \A p \in S : f[p] \in 0 .. counts[p] - 1
    BY <1>1, <1>2, <1>4 DEF Gives
  <2> HIDE DEF counts, S
  <2> QED BY <2>1 DEF Engine!Values
<1> DEFINE g == [p \in S |-> f[p]]
<1>6. g \in [S -> UNION { Engine(counts)!Values(p) : p \in S }]
  <2> HIDE DEF counts, S
  <2> QED BY <1>5
<1>7. e = { <<p, g[p]>> : p \in S }
  <2> HIDE DEF S
  <2> QED BY <1>3, <1>4
<1>8. e \in Engine(counts)!Cells(S)
  <2>1. \A p \in S : g[p] \in Engine(counts)!Values(p)
    <3> HIDE DEF counts, S
    <3> QED BY <1>5
  <2> HIDE DEF counts, S, g
  <2> QED BY <1>6, <1>7, <2>1 DEF Engine!Cells
<1>9. S \in SUBSET DOMAIN counts
  BY <1>1
<1> HIDE DEF counts, S
<1>10. e \in Engine(counts)!Partials
  BY <1>8, <1>9 DEF Engine!Partials
<1> QED BY <1>10 DEF counts

(***************************************************************************)
(* A row with an exclusion in it has one of the closure in it too: the     *)
(* exclusion is part of no valid row, and so is a least part of it.        *)
(***************************************************************************)
LEMMA ClosureForbids ==
  ASSUME NEW params, IsFiniteSet(params), NEW known, NEW r \in RowsOf(params, known),
         NEW E, NEW e \in E, e \subseteq r, NEW P, ParamsOf(e) \subseteq P
  PROVE  \E b \in ClosureOver(P, known, E) : b \subseteq e
<1> DEFINE counts == ValueCounts(P, known)
           valid == { s \in Engine(counts)!Rows : ~ Engine(counts)!ViolatesAny(s, E) }
           dead == { a \in Engine(counts)!Partials : \A s \in valid : ~ Engine(counts)!Contained(a, s) }
<1>1. ClosureOver(P, known, E) = { a \in dead : \A b \in dead : Engine(counts)!Contained(b, a) => b = a }
  <2>1. ClosureOver(P, known, E) = Engine(counts)!ClosureOf(E)
    <3> DEFINE ce == <<counts, E>>
    <3>1. ClosureOver(P, known, E) = UNION { Engine(c[1])!ClosureOf(c[2]) : c \in {ce} }
      BY DEF ClosureOver
    <3>2. UNION { Engine(c[1])!ClosureOf(c[2]) : c \in {ce} } = Engine(ce[1])!ClosureOf(ce[2])
      <4> HIDE DEF ce
      <4> QED OBVIOUS
    <3>3. ce[1] = counts /\ ce[2] = E
      OBVIOUS
    <3> HIDE DEF counts, ce
    <3> QED BY <3>1, <3>2, <3>3
  <2> HIDE DEF counts
  <2>2. Engine(counts)!ClosureOf(E) = { a \in dead : \A b \in dead : Engine(counts)!Contained(b, a) => b = a }
    BY DEF Engine!ClosureOf
  <2> QED BY <2>1, <2>2
<1>2. e \in dead
  <2>1. e \in Engine(counts)!Partials
    BY PartOfRow
  <2>2. \A s \in valid : ~ Engine(counts)!Contained(e, s)
    <3> HIDE DEF counts
    <3> QED BY DEF Engine!ViolatesAny
  <2> HIDE DEF counts, valid
  <2> QED BY <2>1, <2>2
<1>3. IsFiniteSet(e)
  BY RowFinite, FS_Subset
<1> HIDE DEF dead, counts
<1> DEFINE T == { b \in SUBSET e : b \in dead }
<1>4. T # {} /\ T \subseteq SUBSET e
  BY <1>2
<1>5. IsWellFoundedOn(StrictSubsetOrdering(e), SUBSET e)
  BY <1>3, FS_StrictSubsetOrderingWellFounded, FS_FiniteSubsetsOfFinite
<1>6. PICK b \in T : \A c \in T : ~ (<<c, b>> \in StrictSubsetOrdering(e))
  BY <1>4, <1>5, WFMin
<1>7. ASSUME NEW c \in dead, c \subseteq b
      PROVE  c = b
  <2>1. c \in T /\ c \subseteq e /\ b \subseteq e
    BY <1>7
  <2>2. ~ (<<c, b>> \in StrictSubsetOrdering(e))
    BY <1>6, <2>1
  <2> QED BY <1>7, <2>1, <2>2 DEF StrictSubsetOrdering
<1>8. b \in ClosureOver(P, known, E)
  <2>1. \A c \in dead : Engine(counts)!Contained(c, b) => c = b
    BY <1>7 DEF Engine!Contained
  <2> QED BY <1>1, <2>1
<1> QED BY <1>8

LEMMA DerivedForbids ==
  ASSUME NEW params, IsFiniteSet(params), NEW known, NEW r \in RowsOf(params, known),
         NEW m, NEW E, NEW e \in E, e \subseteq r
  PROVE  \E b \in Derived(m, E, known) : b \subseteq e
<1> DEFINE P == ParamsOf(UNION E)
                  \cup { p \in AllParameters(m) \cup PseudosOf(m) : known[p].valueCount = 0 }
<1>1. ParamsOf(e) \subseteq P
  BY DEF ParamsOf
<1>2. Derived(m, E, known) = ClosureOver(P, known, E)
  BY DEF Derived
<1> HIDE DEF P
<1> QED BY <1>1, <1>2, ClosureForbids

(* The results are what the rows say of the columns.                       *)
RowOf(columns, r) == [i \in DOMAIN columns |-> ColumnValue(columns[i], r)]

LEMMA ResultsAre ==
  ASSUME NEW rows, IsFiniteSet(rows), NEW columns
  PROVE  /\ ResultsOf(columns, rows) \in Seq({ RowOf(columns, r) : r \in rows })
         /\ ToSet(ResultsOf(columns, rows)) = { RowOf(columns, r) : r \in rows }
<1> DEFINE C == { RowOf(columns, r) : r \in rows }
           X == Seq(C)
           pick == [s \in SUBSET rows |-> CHOOSE x \in s : TRUE]
           step(d, x) == Append(x, RowOf(columns, d))
           h == [dx \in rows \X X |-> step(dx[1], dx[2])]
           Body(f, s) == IF s = {} THEN <<>>
                         ELSE Append(f[s \ {CHOOSE x \in s : TRUE}], RowOf(columns, CHOOSE x \in s : TRUE))
<1>1. \A s \in SUBSET rows : s # {} => (CHOOSE x \in s : TRUE) \in s
  OBVIOUS
<1>2. <<>> \in X
  OBVIOUS
<1>3. \A d \in rows : \A x \in X : step(d, x) \in X
  <2> SUFFICES ASSUME NEW d \in rows, NEW x \in X PROVE Append(x, RowOf(columns, d)) \in X
    OBVIOUS
  <2>1. RowOf(columns, d) \in C
    OBVIOUS
  <2> HIDE DEF C
  <2> QED BY <2>1
<1>4. \E iter \in [SUBSET rows -> X] : \A s \in SUBSET rows : iter[s] = Body(iter, s)
  <2> HIDE DEF X
  <2>1. \A d \in rows : \A x \in X : h[<<d, x>>] = Append(x, RowOf(columns, d)) /\ h[<<d, x>>] \in X
    BY <1>3
  <2>2. \A s \in SUBSET rows : pick[s] = CHOOSE x \in s : TRUE
    OBVIOUS
  <2> HIDE DEF h, pick
  <2>3. PicksFrom(rows, pick)
    BY <1>1, <2>2 DEF PicksFrom
  <2>4. StaysIn(X, rows, h)
    BY <2>1 DEF StaysIn
  <2>5. PICK iter \in [SUBSET rows -> X] : Folds(iter, rows, <<>>, h, pick)
    BY <1>2, <2>3, <2>4, FoldExists
  <2>6. ASSUME NEW s \in SUBSET rows
        PROVE  iter[s] = Body(iter, s)
    <3>1. CASE s = {}
      BY <2>5, <3>1 DEF Folds
    <3>2. CASE s # {}
      <4> DEFINE x == CHOOSE y \in s : TRUE
      <4>1. x \in rows /\ s \ {x} \in SUBSET rows /\ pick[s] = x
        BY <1>1, <2>2, <3>2
      <4>2. iter[s] = h[<<x, iter[s \ {x}]>>]
        BY <2>5, <3>2, <4>1 DEF Folds
      <4> HIDE DEF x
      <4>3. iter[s \ {x}] \in X
        BY <4>1
      <4>4. iter[s] = Append(iter[s \ {x}], RowOf(columns, x))
        BY <2>1, <4>1, <4>2, <4>3
      <4> QED BY <3>2, <4>4 DEF x
    <3> QED BY <3>1, <3>2
  <2> QED BY <2>6
<1> DEFINE it == CHOOSE iter : iter = [s \in SUBSET rows |-> Body(iter, s)]
<1>5. ResultsOf(columns, rows) = it[rows]
  BY DEF ResultsOf, FoldSet, MapThenFoldSet, RowOf
<1>6. it = [s \in SUBSET rows |-> Body(it, s)]
  <2>1. PICK iter \in [SUBSET rows -> X] : \A s \in SUBSET rows : iter[s] = Body(iter, s)
    BY <1>4
  <2> HIDE DEF X, Body
  <2>2. iter = [s \in SUBSET rows |-> Body(iter, s)]
    BY <2>1
  <2> QED BY <2>2
<1> HIDE DEF it
<1> DEFINE of(s) == { RowOf(columns, r) : r \in s }
<1>7. it[rows] \in X /\ ToSet(it[rows]) = of(rows)
  <2> DEFINE G == { k \in 0 .. Cardinality(rows) :
                     \A s \in SUBSET rows : Cardinality(s) = k => it[s] \in X /\ ToSet(it[s]) = of(s) }
  <2>1. Cardinality(rows) \in Nat /\ \A s \in SUBSET rows : IsFiniteSet(s) /\ Cardinality(s) \in Nat
    BY FS_CardinalityType, FS_Subset
  <2>2. 0 \in G
    <3>1. it[{}] = <<>> /\ ToSet(<<>>) = {} /\ of({}) = {}
      BY <1>6 DEF ToSet
    <3>2. \A s \in SUBSET rows : Cardinality(s) = 0 => s = {}
      BY <2>1, FS_EmptySet
    <3>3. 0 \in 0 .. Cardinality(rows)
      BY <2>1
    <3>4. \A s \in SUBSET rows : Cardinality(s) = 0 => it[s] \in X /\ ToSet(it[s]) = of(s)
      <4> HIDE DEF X, of
      <4> QED BY <1>2, <3>1, <3>2
    <3> HIDE DEF X, of
    <3> QED BY <3>3, <3>4
  <2>3. ASSUME NEW k \in 1 .. Cardinality(rows), k - 1 \in G
        PROVE  k \in G
    <3> SUFFICES ASSUME NEW s \in SUBSET rows, Cardinality(s) = k
                 PROVE  it[s] \in X /\ ToSet(it[s]) = of(s)
      <4> HIDE DEF X, of
      <4> QED BY <2>1
    <3> DEFINE x == CHOOSE y \in s : TRUE
    <3>1. s # {}
      <4>1. Cardinality(s) # 0
        OBVIOUS
      <4> QED BY <4>1, FS_EmptySet
    <3>2. x \in s /\ it[s] = Append(it[s \ {x}], RowOf(columns, x))
      BY <1>1, <1>6, <3>1
    <3> HIDE DEF x
    <3>3. s \ {x} \in SUBSET rows /\ Cardinality(s \ {x}) = k - 1
      BY <2>1, <3>2, FS_RemoveElement
    <3>4. it[s \ {x}] \in X /\ ToSet(it[s \ {x}]) = of(s \ {x})
      BY <2>3, <3>3
    <3>5. of(s) = of(s \ {x}) \cup {RowOf(columns, x)}
      BY <3>2
    <3>6. it[s \ {x}] \in Seq(C) /\ RowOf(columns, x) \in C
      BY <3>2, <3>4
    <3>7. ToSet(it[s]) = ToSet(it[s \ {x}]) \cup {RowOf(columns, x)}
      <4> HIDE DEF C
      <4> QED BY <3>2, <3>6, AppendedMember
    <3>8. it[s] \in X
      <4> HIDE DEF X
      <4> QED BY <1>3, <3>2, <3>4
    <3> HIDE DEF X, of
    <3> QED BY <3>4, <3>5, <3>7, <3>8
  <2> HIDE DEF G, X, of
  <2>4. Cardinality(rows) \in G
    BY <2>1, <2>2, <2>3, UpTo
  <2> QED BY <2>4 DEF G
<1> QED BY <1>5, <1>7

LEMMA ClosureParams ==
  ASSUME NEW P, NEW known, NEW E, NEW e \in ClosureOver(P, known, E)
  PROVE  ParamsOf(e) \subseteq P
<1> DEFINE counts == ValueCounts(P, known)
           ce == <<counts, E>>
<1>1. PICK c \in {ce} : e \in Engine(c[1])!ClosureOf(c[2])
  BY DEF ClosureOver
<1>2. ce[1] = counts /\ ce[2] = E
  OBVIOUS
<1> HIDE DEF counts, ce
<1>3. e \in Engine(counts)!ClosureOf(E)
  BY <1>1, <1>2
<1>4. e \in Engine(counts)!Partials
  BY <1>3 DEF Engine!ClosureOf
<1>5. PICK S \in SUBSET DOMAIN counts : e \in Engine(counts)!Cells(S)
  BY <1>4 DEF Engine!Partials
<1>6. \A t \in e : t[1] \in S
  BY <1>5 DEF Engine!Cells
<1>7. DOMAIN counts = P
  BY DEF counts, ValueCounts
<1> QED BY <1>5, <1>6, <1>7 DEF ParamsOf

-----------------------------------------------------------------------------
(* Objects and their edits *)

(* A model and the task have the fields they are made with. *)
IsModel(o) ==
  o = [order |-> o.order, parameters |-> o.parameters, submodels |-> o.submodels,
       exclusions |-> o.exclusions, rowSeeds |-> o.rowSeeds, results |-> o.results]

IsTask(t) == t = [root |-> t.root, exclusions |-> t.exclusions, rowSeeds |-> t.rowSeeds]

(* What Generate makes of a model, ... *)
Edited(objects, m, params, excls, seeds, rows) ==
  [objects EXCEPT ![m].parameters = params, ![m].exclusions = excls,
                  ![m].rowSeeds = seeds, ![m].results = rows]

LEMMA ModelEdited ==
  ASSUME NEW objects, NEW m \in DOMAIN objects, IsModel(objects[m]),
         NEW a, NEW b, NEW c, NEW d, NEW edited, edited = Edited(objects, m, a, b, c, d)
  PROVE  /\ edited[m] = [order |-> objects[m].order, parameters |-> a, submodels |-> objects[m].submodels,
                         exclusions |-> b, rowSeeds |-> c, results |-> d]
         /\ \A n \in DOMAIN objects : n # m => edited[n] = objects[n]
         /\ DOMAIN edited = DOMAIN objects
<1> DEFINE o == objects[m]
           e1 == [objects EXCEPT ![m].parameters = a]
           e2 == [e1 EXCEPT ![m].exclusions = b]
           e3 == [e2 EXCEPT ![m].rowSeeds = c]
<1>0. edited = [e3 EXCEPT ![m].results = d]
  BY DEF Edited
<1>1. /\ e1[m] = [order |-> o.order, parameters |-> a, submodels |-> o.submodels,
                  exclusions |-> o.exclusions, rowSeeds |-> o.rowSeeds, results |-> o.results]
      /\ \A n \in DOMAIN objects : n # m => e1[n] = objects[n]
      /\ DOMAIN e1 = DOMAIN objects
  BY DEF IsModel
<1> HIDE DEF e1
<1>2. /\ e2[m] = [order |-> o.order, parameters |-> a, submodels |-> o.submodels,
                  exclusions |-> b, rowSeeds |-> o.rowSeeds, results |-> o.results]
      /\ \A n \in DOMAIN objects : n # m => e2[n] = objects[n]
      /\ DOMAIN e2 = DOMAIN objects
  BY <1>1
<1> HIDE DEF e2
<1>3. /\ e3[m] = [order |-> o.order, parameters |-> a, submodels |-> o.submodels,
                  exclusions |-> b, rowSeeds |-> c, results |-> o.results]
      /\ \A n \in DOMAIN objects : n # m => e3[n] = objects[n]
      /\ DOMAIN e3 = DOMAIN objects
  BY <1>2
<1> HIDE DEF e3
<1> QED BY <1>0, <1>3

(* ... and what the end of gcd does. *)
WithResults(objects, m, columns, rows) ==
  [objects EXCEPT ![m].parameters = columns, ![m].results = rows]

LEMMA ResultsEdited ==
  ASSUME NEW objects, NEW m \in DOMAIN objects, IsModel(objects[m]), NEW a, NEW b, NEW edited,
         edited = WithResults(objects, m, a, b)
  PROVE  /\ edited[m] = [order |-> objects[m].order, parameters |-> a, submodels |-> objects[m].submodels,
                         exclusions |-> objects[m].exclusions, rowSeeds |-> objects[m].rowSeeds, results |-> b]
         /\ \A n \in DOMAIN objects : n # m => edited[n] = objects[n]
         /\ DOMAIN edited = DOMAIN objects
<1> DEFINE o == objects[m]
           e1 == [objects EXCEPT ![m].parameters = a]
<1>0. edited = [e1 EXCEPT ![m].results = b]
  BY DEF WithResults
<1>1. /\ e1[m] = [order |-> o.order, parameters |-> a, submodels |-> o.submodels,
                  exclusions |-> o.exclusions, rowSeeds |-> o.rowSeeds, results |-> o.results]
      /\ \A n \in DOMAIN objects : n # m => e1[n] = objects[n]
      /\ DOMAIN e1 = DOMAIN objects
  BY DEF IsModel
<1> HIDE DEF e1
<1> QED BY <1>0, <1>1

-----------------------------------------------------------------------------
(* Recursion *)

(***************************************************************************)
(* A function defined by recursion from larger to smaller numbers exists:  *)
(* take one that is right on as large an upper part of its domain as can   *)
(* be; it is right everywhere.                                             *)
(***************************************************************************)
RightOn(f, U, h) == \A m \in U : f[m] = h[<<m, f>>]

Upper(S, U) == \A m \in U : \A n \in S : m < n => n \in U

LooksUp(S, X, h) ==
  /\ \A m \in S : \A f \in [S -> X] : h[<<m, f>>] \in X
  /\ \A m \in S : \A f, g \in [S -> X] :
       (\A n \in S : m < n => f[n] = g[n]) => h[<<m, f>>] = h[<<m, g>>]

LEMMA RecursionExists ==
  ASSUME NEW S \in SUBSET Int, IsFiniteSet(S), NEW X, X # {}, NEW h, LooksUp(S, X, h)
  PROVE  \E f \in [S -> X] : RightOn(f, S, h)
<1> DEFINE Q == { U \in SUBSET S : Upper(S, U) /\ \E f \in [S -> X] : RightOn(f, U, h) }
           card == [U \in Q |-> Cardinality(U)]
<1>1. IsFiniteSet(Q)
  <2>1. IsFiniteSet(SUBSET S) /\ Q \in SUBSET SUBSET S
    BY FS_SUBSET
  <2> HIDE DEF Q
  <2> QED BY <2>1, FS_Subset
<1>2. {} \in Q
  <2>1. PICK x : x \in X
    OBVIOUS
  <2>2. [m \in S |-> x] \in [S -> X]
    BY <2>1
  <2>3. \A f : RightOn(f, {}, h)
    BY DEF RightOn
  <2> QED BY <2>2, <2>3 DEF Upper
<1>3. \A U \in Q : IsFiniteSet(U) /\ card[U] = Cardinality(U) /\ Cardinality(U) \in Nat
  BY FS_Subset, FS_CardinalityType
<1>4. PICK U \in Q : \A V \in Q : card[V] <= card[U]
  <2> HIDE DEF Q, card
  <2>1. \A V \in Q : card[V] \in Int
    BY <1>3
  <2> QED BY <1>1, <1>2, <2>1, LargestOf
<1>5. PICK f \in [S -> X] : RightOn(f, U, h)
  OBVIOUS
<1>6. ASSUME S \ U # {}
      PROVE  FALSE
  <2>1. S \ U \in SUBSET Int /\ IsFiniteSet(S \ U)
    BY FS_Subset
  <2>2. PICK x \in S \ U : \A y \in S \ U : y <= x
    BY <1>6, <2>1, LastOf
  <2> DEFINE g == [f EXCEPT ![x] = h[<<x, f>>]]
             V == U \cup {x}
  <2>3. g \in [S -> X] /\ g[x] = h[<<x, f>>] /\ \A n \in S : n # x => g[n] = f[n]
    BY DEF LooksUp
  <2>4. Upper(S, U) /\ U \subseteq S
    OBVIOUS
  <2>5. Upper(S, V)
    <3> SUFFICES ASSUME NEW m \in V, NEW n \in S, m < n PROVE n \in V
      BY DEF Upper
    <3>1. CASE m \in U
      BY <2>4, <3>1 DEF Upper
    <3>2. CASE m = x
      <4>1. ~ (n <= x)
        BY <3>2
      <4> QED BY <2>2, <4>1
    <3> QED BY <3>1, <3>2
  <2> HIDE DEF g, V
  <2>6. ASSUME NEW m \in V
        PROVE  g[m] = h[<<m, g>>]
    <3>1. m \in S
      BY <2>4 DEF V
    <3>2. \A n \in S : m < n => f[n] = g[n]
      <4> SUFFICES ASSUME m < x PROVE FALSE
        BY <2>3
      <4>1. m # x
        BY <3>1
      <4>2. m \in U
        BY <4>1 DEF V
      <4> QED BY <2>4, <4>2 DEF Upper
    <3>3. h[<<m, f>>] = h[<<m, g>>]
      BY <2>3, <3>1, <3>2 DEF LooksUp
    <3>4. CASE m = x
      BY <2>3, <3>3, <3>4
    <3>5. CASE m # x
      <4>1. m \in U
        BY <3>5 DEF V
      <4>2. f[m] = h[<<m, f>>]
        BY <1>5, <4>1 DEF RightOn
      <4> QED BY <2>3, <3>1, <3>3, <3>5, <4>2
    <3> QED BY <3>4, <3>5
  <2>7. V \in Q
    <3>1. V \in SUBSET S
      BY <2>4 DEF V
    <3>2. RightOn(g, V, h)
      BY <2>6 DEF RightOn
    <3> QED BY <2>3, <2>5, <3>1, <3>2
  <2>8. Cardinality(V) = Cardinality(U) + 1
    BY <1>3, FS_AddElement DEF V
  <2> HIDE DEF Q, card
  <2> QED BY <1>3, <1>4, <2>7, <2>8
<1>7. U = S
  BY <1>6
<1> QED BY <1>5, <1>7

-----------------------------------------------------------------------------
(* Lists of seeds *)

(* The variants of a seed are its rewritings.                              *)
LEMMA VariantsOf ==
  ASSUME NEW m, Len(models[m].results) \in Nat, NEW s, Related(s, m) # {}
  PROVE  SeedVariants(s, m) \in Seq(Rewritten(s, m)) /\ ToSet(SeedVariants(s, m)) = Rewritten(s, m)
<1> DEFINE n == PseudoValueCount(m)
           apart == { v \in PseudoValues(m) : ~ (Related(s, m) \subseteq RowTerms(m, v)) }
           list == [i \in 1 .. n |-> i - 1]
           agreeing == Without(list, apart)
           Variant(v) == (s \ Related(s, m)) \cup {<<PseudoOf(m), v>>}
           fitting == { v \in PseudoValues(m) : Related(s, m) \subseteq RowTerms(m, v) }
<1>1. n \in Nat /\ PseudoValues(m) = 0 .. n - 1
  BY DEF PseudoValueCount, PseudoValues
<1>2. list \in Seq(Nat) /\ ToSet(list) = PseudoValues(m)
  <2>1. \A i \in 1 .. n : i - 1 \in Nat /\ i - 1 \in 0 .. n - 1
    BY <1>1
  <2>2. \A v \in 0 .. n - 1 : v + 1 \in 1 .. n /\ v + 1 - 1 = v
    BY <1>1
  <2>3. ToSet(list) = { i - 1 : i \in 1 .. n }
    BY DEF ToSet
  <2> HIDE DEF n
  <2>4. { i - 1 : i \in 1 .. n } = 0 .. n - 1
    BY <2>1, <2>2
  <2>5. list \in Seq(Nat)
    BY <1>1, <2>1
  <2> HIDE DEF list
  <2> QED BY <1>1, <2>3, <2>4, <2>5
<1> HIDE DEF list
<1>3. agreeing \in Seq(Nat) /\ ToSet(agreeing) = PseudoValues(m) \ apart
  BY <1>2, WithoutMembers
<1>4. ToSet(agreeing) = fitting
  BY <1>3
<1>5. SeedVariants(s, m) = [i \in DOMAIN agreeing |-> Variant(agreeing[i])]
  BY DEF SeedVariants, list
<1>6. Rewritten(s, m) = { Variant(v) : v \in fitting }
  BY DEF Rewritten
<1> HIDE DEF agreeing, Variant, fitting
<1>7. DOMAIN agreeing = 1 .. Len(agreeing) /\ Len(agreeing) \in Nat /\ \A i \in DOMAIN agreeing : agreeing[i] \in fitting
  BY <1>3, <1>4 DEF ToSet
<1>8. ToSet(SeedVariants(s, m)) = Rewritten(s, m)
  <2>1. ToSet(SeedVariants(s, m)) = { Variant(agreeing[i]) : i \in DOMAIN agreeing }
    BY <1>5 DEF ToSet
  <2>2. fitting = { agreeing[i] : i \in DOMAIN agreeing }
    BY <1>4 DEF ToSet
  <2> QED BY <1>6, <2>1, <2>2
<1>9. SeedVariants(s, m) \in Seq(Rewritten(s, m))
  <2>1. \A i \in 1 .. Len(agreeing) : Variant(agreeing[i]) \in Rewritten(s, m)
    BY <1>6, <1>7
  <2>2. SeedVariants(s, m) = [i \in 1 .. Len(agreeing) |-> Variant(agreeing[i])]
    BY <1>5, <1>7
  <2> QED BY <1>7, <2>1, <2>2
<1> QED BY <1>8, <1>9

LEMMA AllVariantsOf ==
  ASSUME NEW m, Len(models[m].results) \in Nat, NEW A, NEW seeds \in Seq(A),
         \A s \in ToSet(seeds) : Related(s, m) # {}
  PROVE  LET all == UNION { Rewritten(s, m) : s \in ToSet(seeds) }
         IN  AllVariants(seeds, m) \in Seq(all) /\ ToSet(AllVariants(seeds, m)) = all
<1> DEFINE all == UNION { Rewritten(s, m) : s \in ToSet(seeds) }
           n == Len(seeds)
           D == 1 .. n
           X == Seq(all)
           step(k, x) == x \o SeedVariants(seeds[k], m)
           h == [dx \in D \X X |-> step(dx[1], dx[2])]
           pick == [s \in SUBSET D |-> Max(s)]
           Body(f, s) == IF s = {} THEN <<>> ELSE step(Max(s), f[s \ {Max(s)}])
<1>1. n \in Nat /\ DOMAIN seeds = D /\ IsFiniteSet(D) /\ \A k \in D : seeds[k] \in ToSet(seeds)
  <2>1. n \in Nat /\ DOMAIN seeds = D /\ IsFiniteSet(D)
    BY FS_Interval
  <2>2. \A k \in DOMAIN seeds : seeds[k] \in ToSet(seeds)
    BY DEF ToSet
  <2> QED BY <2>1, <2>2
<1>2. \A s \in SUBSET D : s # {} => Max(s) \in s
  BY <1>1, PicksOfIntervals
<1>3. \A k \in D : /\ SeedVariants(seeds[k], m) \in X
                   /\ ToSet(SeedVariants(seeds[k], m)) = Rewritten(seeds[k], m)
  <2> SUFFICES ASSUME NEW k \in D
               PROVE  /\ SeedVariants(seeds[k], m) \in Seq(all)
                      /\ ToSet(SeedVariants(seeds[k], m)) = Rewritten(seeds[k], m)
    OBVIOUS
  <2>1. /\ SeedVariants(seeds[k], m) \in Seq(Rewritten(seeds[k], m))
        /\ ToSet(SeedVariants(seeds[k], m)) = Rewritten(seeds[k], m)
    BY <1>1, VariantsOf
  <2>2. Rewritten(seeds[k], m) \subseteq all
    BY <1>1
  <2> HIDE DEF all
  <2> QED BY <2>1, <2>2
<1>4. <<>> \in X
  OBVIOUS
<1>5. \A k \in D : \A x \in X : step(k, x) \in X
  <2> HIDE DEF D, all
  <2> QED BY <1>3
<1>6. \E iter \in [SUBSET D -> X] : \A s \in SUBSET D : iter[s] = Body(iter, s)
  <2> HIDE DEF X, D, step
  <2>1. \A d \in D : \A x \in X : h[<<d, x>>] = step(d, x) /\ h[<<d, x>>] \in X
    BY <1>5
  <2>2. \A s \in SUBSET D : pick[s] = Max(s)
    OBVIOUS
  <2> HIDE DEF h, pick
  <2>3. PicksFrom(D, pick)
    BY <1>2, <2>2 DEF PicksFrom
  <2>4. StaysIn(X, D, h)
    BY <2>1 DEF StaysIn
  <2>5. PICK iter \in [SUBSET D -> X] : Folds(iter, D, <<>>, h, pick)
    BY <1>1, <1>4, <2>3, <2>4, FoldExists
  <2>6. ASSUME NEW s \in SUBSET D
        PROVE  iter[s] = Body(iter, s)
    <3>1. CASE s = {}
      BY <2>5, <3>1 DEF Folds
    <3>2. CASE s # {}
      <4>1. Max(s) \in D /\ s \ {Max(s)} \in SUBSET D
        BY <1>2, <3>2
      <4>2. iter[s \ {Max(s)}] \in X
        BY <4>1
      <4> QED BY <2>1, <2>2, <2>5, <3>2, <4>1, <4>2 DEF Folds
    <3> QED BY <3>1, <3>2
  <2> QED BY <2>6
<1>7. \E iter : iter = [s \in SUBSET D |-> Body(iter, s)]
  <2>1. PICK iter \in [SUBSET D -> X] : \A s \in SUBSET D : iter[s] = Body(iter, s)
    BY <1>6
  <2> HIDE DEF X, D, Body
  <2>2. iter = [s \in SUBSET D |-> Body(iter, s)]
    BY <2>1
  <2> QED BY <2>2
<1> DEFINE it == CHOOSE iter : iter = [s \in SUBSET D |-> Body(iter, s)]
<1>8. it = [s \in SUBSET D |-> Body(it, s)]
  <2> HIDE DEF D, Body
  <2> QED BY <1>7
<1>9. AllVariants(seeds, m) = it[D]
  BY <1>1 DEF AllVariants, FoldLeft, MapThenFoldSet
<1>10. it[1 .. 0] = <<>>
  <2>1. 1 .. 0 = {} /\ {} \in SUBSET D
    OBVIOUS
  <2> QED BY <1>8, <2>1
<1>11. ASSUME NEW k \in 1 .. n
       PROVE  it[1 .. k] = step(k, it[1 .. (k - 1)])
  <2>1. /\ 1 .. k \in SUBSET D /\ 1 .. k # {}
        /\ Max(1 .. k) = k /\ (1 .. k) \ {k} = 1 .. (k - 1)
    BY <1>1, PrefixRest
  <2> HIDE DEF it, step
  <2>2. it[1 .. k] = Body(it, 1 .. k)
    <3> HIDE DEF Body, D
    <3> QED BY <1>8, <2>1
  <2> QED BY <2>1, <2>2
<1> HIDE DEF it
<1> DEFINE upTo(k) == UNION { Rewritten(seeds[i], m) : i \in 1 .. k }
           G == { k \in 0 .. n : it[1 .. k] \in X /\ ToSet(it[1 .. k]) = upTo(k) }
<1>12. 0 \in G
  <2>1. ToSet(<<>>) = {} /\ upTo(0) = {}
    BY DEF ToSet
  <2>2. 0 \in 0 .. n
    BY <1>1
  <2> HIDE DEF X, upTo
  <2> QED BY <1>4, <1>10, <2>1, <2>2
<1>13. ASSUME NEW k \in 1 .. n, k - 1 \in G
       PROVE  k \in G
  <2> DEFINE x == it[1 .. (k - 1)]
  <2>1. x \in X /\ ToSet(x) = upTo(k - 1)
    BY <1>13
  <2>2. it[1 .. k] = x \o SeedVariants(seeds[k], m)
    BY <1>11
  <2>3. k \in 0 .. n /\ 1 .. k = 1 .. (k - 1) \cup {k} /\ k \in D
    BY <1>1
  <2>4. upTo(k) = upTo(k - 1) \cup Rewritten(seeds[k], m)
    BY <2>3
  <2> HIDE DEF x, upTo, D, all
  <2>5. it[1 .. k] \in X /\ ToSet(it[1 .. k]) = ToSet(x) \cup ToSet(SeedVariants(seeds[k], m))
    BY <1>3, <2>1, <2>2, <2>3, ConcatSets
  <2> HIDE DEF X
  <2> QED BY <1>3, <2>1, <2>3, <2>4, <2>5
<1>14. n \in G
  <2>1. n \in Nat /\ n \in 0 .. n
    BY <1>1
  <2> HIDE DEF G, n
  <2>2. \A k \in 0 .. n : k \in G
    BY <1>12, <1>13, <2>1, UpTo
  <2> QED BY <2>1, <2>2
<1>15. upTo(n) = all
  BY <1>1 DEF ToSet
<1> QED BY <1>9, <1>14, <1>15

(* One submodel: the seeds that say something of it give way to their      *)
(* variants.                                                               *)
TouchedBy(acc, c) == { s \in ToSet(acc) : Related(s, c) # {} }

SeedsFor(acc, c) ==
  Without(acc, TouchedBy(acc, c)) \o AllVariants(Without(acc, ToSet(acc) \ TouchedBy(acc, c)), c)

LEMMA SeedStep ==
  ASSUME NEW c, Len(models[c].results) \in Nat, NEW A, NEW acc \in Seq(A)
  PROVE  LET all == UNION { Rewritten(s, c) : s \in ToSet(acc) }
         IN  SeedsFor(acc, c) \in Seq(all) /\ ToSet(SeedsFor(acc, c)) = all
<1> DEFINE all == UNION { Rewritten(s, c) : s \in ToSet(acc) }
           touched == TouchedBy(acc, c)
           kept == Without(acc, touched)
           moved == Without(acc, ToSet(acc) \ touched)
           out == AllVariants(moved, c)
<1>1. touched \subseteq ToSet(acc) /\ \A s \in ToSet(acc) : s \in touched <=> Related(s, c) # {}
  BY DEF TouchedBy
<1>2. kept \in Seq(A) /\ ToSet(kept) = ToSet(acc) \ touched
  BY WithoutMembers
<1>3. moved \in Seq(A) /\ ToSet(moved) = touched
  <2>1. moved \in Seq(A) /\ ToSet(moved) = ToSet(acc) \ (ToSet(acc) \ touched)
    BY WithoutMembers
  <2> HIDE DEF touched, moved
  <2> QED BY <1>1, <2>1
<1> HIDE DEF touched, kept, moved
<1>4. \A s \in ToSet(acc) \ touched : Rewritten(s, c) = {s}
  BY <1>1 DEF Rewritten
<1>5. LET some == UNION { Rewritten(s, c) : s \in ToSet(moved) }
      IN  out \in Seq(some) /\ ToSet(out) = some
  BY <1>1, <1>3, AllVariantsOf
<1>6. ToSet(out) = UNION { Rewritten(s, c) : s \in touched }
  BY <1>3, <1>5
<1> HIDE DEF out
<1>7. ToSet(kept) \cup ToSet(out) = all
  BY <1>1, <1>2, <1>4, <1>6
<1> HIDE DEF all
<1>8. kept \in Seq(all) /\ out \in Seq(all)
  <2>1. kept \in Seq(ToSet(kept)) /\ out \in Seq(ToSet(out))
    BY <1>2, <1>5, OwnMembers
  <2>2. ToSet(kept) \subseteq all /\ ToSet(out) \subseteq all
    BY <1>7
  <2> QED BY <2>1, <2>2
<1>9. SeedsFor(acc, c) = kept \o out
  BY DEF SeedsFor, kept, out, moved, touched
<1> QED BY <1>7, <1>8, <1>9, ConcatSets DEF all

(***************************************************************************)
(* Seeds are rewritten as exclusions are, submodel by submodel.            *)
(***************************************************************************)
LEMMA MappedSeedsOf ==
  ASSUME NEW subs \in Seq(Int), \A c \in ToSet(subs) : Len(models[c].results) \in Nat,
         NEW A, NEW seeds \in Seq(A)
  PROVE  /\ MappedSeeds(seeds, subs) \in Seq(ToSet(MappedSeeds(seeds, subs)))
         /\ ToSet(MappedSeeds(seeds, subs)) = MappedExclusions(ToSet(seeds), subs)
<1> DEFINE n == Len(subs)
           D == 1 .. n
           ofPseudo(m) == { <<PseudoOf(m), v>> : v \in PseudoValues(m) }
           ofAll == { ofPseudo(m) : m \in ToSet(subs) }
           T == (UNION ToSet(seeds)) \cup (UNION ofAll)
           X == Seq(SUBSET T)
           step(k, x) == SeedsFor(x, subs[k])
           h == [dx \in D \X X |-> step(dx[1], dx[2])]
           pick == [s \in SUBSET D |-> Max(s)]
           Body(f, s) == IF s = {} THEN seeds ELSE step(Max(s), f[s \ {Max(s)}])
<1>1. n \in Nat /\ DOMAIN subs = D /\ IsFiniteSet(D)
  BY FS_Interval
<1>2. \A s \in SUBSET D : s # {} => Max(s) \in s
  BY <1>1, PicksOfIntervals
<1>3. \A k \in D : subs[k] \in ToSet(subs) /\ Len(models[subs[k]].results) \in Nat
  <2>1. \A k \in DOMAIN subs : subs[k] \in ToSet(subs)
    BY DEF ToSet
  <2> QED BY <1>1, <2>1
<1>4. ASSUME NEW k \in D, NEW x \in X
      PROVE  step(k, x) \in X
  <2> DEFINE all == UNION { Rewritten(s, subs[k]) : s \in ToSet(x) }
  <2>1. SeedsFor(x, subs[k]) \in Seq(all)
    <3> HIDE DEF D, T
    <3> QED BY <1>3, SeedStep
  <2>2. ASSUME NEW e \in ToSet(x), NEW f \in Rewritten(e, subs[k])
        PROVE  f \subseteq T
    <3>1. e \subseteq T
      <4> HIDE DEF T
      <4> QED BY MembersFinite
    <3>2. CASE f = e
      BY <3>1, <3>2
    <3>3. CASE \E v \in PseudoValues(subs[k]) : f = (e \ Related(e, subs[k])) \cup {<<PseudoOf(subs[k]), v>>}
      <4>1. PICK v \in PseudoValues(subs[k]) : f = (e \ Related(e, subs[k])) \cup {<<PseudoOf(subs[k]), v>>}
        BY <3>3
      <4>2. <<PseudoOf(subs[k]), v>> \in ofPseudo(subs[k])
        BY <4>1
      <4>3. <<PseudoOf(subs[k]), v>> \in T
        <5>1. ofPseudo(subs[k]) \in ofAll
          BY <1>3
        <5> HIDE DEF ofPseudo, ofAll
        <5> QED BY <4>2, <5>1
      <4> HIDE DEF T
      <4> QED BY <3>1, <4>1, <4>3
    <3> QED BY <3>2, <3>3 DEF Rewritten
  <2>3. all \subseteq SUBSET T
    BY <2>2
  <2> HIDE DEF all, T
  <2> QED BY <2>1, <2>3
<1>5. seeds \in X
  <2>1. seeds \in Seq(ToSet(seeds)) /\ ToSet(seeds) \subseteq SUBSET T
    BY OwnMembers
  <2> HIDE DEF T
  <2> QED BY <2>1
<1>6. \E iter \in [SUBSET D -> X] : \A s \in SUBSET D : iter[s] = Body(iter, s)
  <2> HIDE DEF X, D, step
  <2>1. \A d \in D : \A x \in X : h[<<d, x>>] = step(d, x) /\ h[<<d, x>>] \in X
    BY <1>4
  <2>2. \A s \in SUBSET D : pick[s] = Max(s)
    OBVIOUS
  <2> HIDE DEF h, pick
  <2>3. PicksFrom(D, pick)
    BY <1>2, <2>2 DEF PicksFrom
  <2>4. StaysIn(X, D, h)
    BY <2>1 DEF StaysIn
  <2>5. PICK iter \in [SUBSET D -> X] : Folds(iter, D, seeds, h, pick)
    BY <1>1, <1>5, <2>3, <2>4, FoldExists
  <2>6. ASSUME NEW s \in SUBSET D
        PROVE  iter[s] = Body(iter, s)
    <3>1. CASE s = {}
      BY <2>5, <3>1 DEF Folds
    <3>2. CASE s # {}
      <4>1. Max(s) \in D /\ s \ {Max(s)} \in SUBSET D
        BY <1>2, <3>2
      <4>2. iter[s \ {Max(s)}] \in X
        BY <4>1
      <4> QED BY <2>1, <2>2, <2>5, <3>2, <4>1, <4>2 DEF Folds
    <3> QED BY <3>1, <3>2
  <2> QED BY <2>6
<1>7. \E iter : iter = [s \in SUBSET D |-> Body(iter, s)]
  <2>1. PICK iter \in [SUBSET D -> X] : \A s \in SUBSET D : iter[s] = Body(iter, s)
    BY <1>6
  <2> HIDE DEF X, D, Body
  <2>2. iter = [s \in SUBSET D |-> Body(iter, s)]
    BY <2>1
  <2> QED BY <2>2
<1> DEFINE it == CHOOSE iter : iter = [s \in SUBSET D |-> Body(iter, s)]
<1>8. it = [s \in SUBSET D |-> Body(it, s)]
  <2> HIDE DEF D, Body
  <2> QED BY <1>7
<1>9. MappedSeeds(seeds, subs) = it[D]
  BY <1>1 DEF MappedSeeds, FoldLeft, MapThenFoldSet, SeedsFor, TouchedBy
<1>10. it[1 .. 0] = seeds
  <2>1. 1 .. 0 = {} /\ {} \in SUBSET D
    OBVIOUS
  <2> QED BY <1>8, <2>1
<1>11. ASSUME NEW k \in 1 .. n
       PROVE  it[1 .. k] = step(k, it[1 .. (k - 1)])
  <2>1. /\ 1 .. k \in SUBSET D /\ 1 .. k # {}
        /\ Max(1 .. k) = k /\ (1 .. k) \ {k} = 1 .. (k - 1)
    BY <1>1, PrefixRest
  <2> HIDE DEF it, step
  <2>2. it[1 .. k] = Body(it, 1 .. k)
    <3> HIDE DEF Body, D
    <3> QED BY <1>8, <2>1
  <2> QED BY <2>1, <2>2
<1> HIDE DEF it
<1>12. PICK acc : /\ acc[0] = ToSet(seeds)
                  /\ \A k \in 1 .. n : acc[k] = UNION { Rewritten(e, subs[k]) : e \in acc[k - 1] }
                  /\ MappedExclusions(ToSet(seeds), subs) = acc[n]
  BY MappedSteps
<1> DEFINE G == { k \in 0 .. n : it[1 .. k] \in X /\ ToSet(it[1 .. k]) = acc[k] }
<1>13. 0 \in G
  <2>1. 0 \in 0 .. n
    BY <1>1
  <2> HIDE DEF X
  <2> QED BY <1>5, <1>10, <1>12, <2>1
<1>14. ASSUME NEW k \in 1 .. n, k - 1 \in G
       PROVE  k \in G
  <2> DEFINE x == it[1 .. (k - 1)]
  <2>1. x \in X /\ ToSet(x) = acc[k - 1]
    BY <1>14
  <2>2. it[1 .. k] = SeedsFor(x, subs[k])
    BY <1>11
  <2>3. k \in 0 .. n /\ k \in D
    BY <1>1
  <2> HIDE DEF x, T, D
  <2>4. ToSet(SeedsFor(x, subs[k])) = UNION { Rewritten(s, subs[k]) : s \in ToSet(x) }
    BY <1>3, <2>1, <2>3, SeedStep
  <2>5. it[1 .. k] \in X
    <3> HIDE DEF X
    <3> QED BY <1>4, <2>1, <2>2, <2>3
  <2> HIDE DEF X
  <2> QED BY <1>12, <2>1, <2>2, <2>3, <2>4, <2>5
<1>15. n \in G
  <2>1. n \in Nat /\ n \in 0 .. n
    BY <1>1
  <2> HIDE DEF G, n
  <2>2. \A k \in 0 .. n : k \in G
    BY <1>13, <1>14, <2>1, UpTo
  <2> QED BY <2>1, <2>2
<1>16. it[D] \in X /\ ToSet(it[D]) = acc[n]
  BY <1>15
<1>17. it[D] \in Seq(ToSet(it[D]))
  <2> HIDE DEF T, D
  <2> QED BY <1>16, OwnMembers
<1> QED BY <1>9, <1>12, <1>16, <1>17

LEMMA KeptPlaces ==
  ASSUME NEW counts, NEW list, NEW keep, NEW kept \in Engine(counts)!Kept(list, keep)
  PROVE  \E index \in [1 .. Cardinality(keep) -> keep] :
           kept = [k \in 1 .. Cardinality(keep) |-> list[index[k]]]
<1> DEFINE id == [i \in keep |-> i]
<1>1. Engine(counts)!Cardinality(keep) = Cardinality(keep)
  BY DEF Engine!Cardinality, Cardinality
<1>2. PICK index \in Engine(counts)!Ordered(keep, id) :
        kept = [k \in 1 .. Cardinality(keep) |-> list[index[k]]]
  BY <1>1 DEF Engine!Kept
<1> HIDE DEF id
<1>3. index \in [1 .. Cardinality(keep) -> keep]
  BY <1>1 DEF Engine!Ordered
<1> QED BY <1>2, <1>3

(* Between a set of at most k members and one of at least k, one has k. *)
LEMMA SizeBetween ==
  ASSUME NEW k \in Nat, NEW B, IsFiniteSet(B), NEW A \in SUBSET B,
         Cardinality(A) <= k, k <= Cardinality(B)
  PROVE  \E S \in SUBSET B : A \subseteq S /\ Cardinality(S) = k
<1> DEFINE T == { S \in SUBSET B : A \subseteq S /\ k <= Cardinality(S) }
<1>1. IsWellFoundedOn(StrictSubsetOrdering(B), SUBSET B)
  BY FS_StrictSubsetOrderingWellFounded, FS_FiniteSubsetsOfFinite
<1>2. B \in T /\ T \subseteq SUBSET B
  OBVIOUS
<1>3. PICK S \in T : \A R \in T : ~ (<<R, S>> \in StrictSubsetOrdering(B))
  <2> HIDE DEF T
  <2> QED BY <1>1, <1>2, WFMin
<1>4. /\ IsFiniteSet(S) /\ Cardinality(S) \in Nat
      /\ IsFiniteSet(A) /\ Cardinality(A) \in Nat
  BY FS_Subset, FS_CardinalityType
<1>5. ASSUME Cardinality(S) # k
      PROVE  FALSE
  <2>1. k < Cardinality(S)
    BY <1>4, <1>5
  <2>2. S # A
    BY <1>4, <2>1
  <2>3. PICK x \in S : x \notin A
    BY <2>2
  <2>4. Cardinality(S \ {x}) = Cardinality(S) - 1
    BY <1>4, <2>3, FS_RemoveElement
  <2>5. S \ {x} \in T
    BY <1>4, <2>1, <2>3, <2>4
  <2>6. <<S \ {x}, S>> \in StrictSubsetOrdering(B)
    BY <2>3, <2>5 DEF StrictSubsetOrdering
  <2> QED BY <1>3, <2>5, <2>6
<1> QED BY <1>5

(* No seeds are rewritten into none. *)
LEMMA SeedsMapped ==
  ASSUME NEW subs \in Seq(Int), \A c \in ToSet(subs) : Len(models[c].results) \in Nat,
         NEW A, NEW seeds \in Seq(A)
  PROVE  /\ MappedSeeds(seeds, subs) \in Seq(ToSet(MappedSeeds(seeds, subs)))
         /\ seeds = <<>> => MappedSeeds(seeds, subs) = <<>>
<1> DEFINE out == MappedSeeds(seeds, subs)
<1>1. out \in Seq(ToSet(out)) /\ ToSet(out) = MappedExclusions(ToSet(seeds), subs)
  BY MappedSeedsOf
<1>2. ASSUME seeds = <<>>
      PROVE  MappedExclusions(ToSet(seeds), subs) = {}
  <2> DEFINE n == Len(subs)
  <2>1. PICK acc : /\ acc[0] = ToSet(seeds)
                   /\ \A k \in 1 .. n : acc[k] = UNION { Rewritten(e, subs[k]) : e \in acc[k - 1] }
                   /\ MappedExclusions(ToSet(seeds), subs) = acc[n]
    BY MappedSteps
  <2> DEFINE G == { k \in 0 .. n : acc[k] = {} }
  <2>2. n \in Nat
    OBVIOUS
  <2> HIDE DEF n
  <2>3. 0 \in G
    BY <1>2, <2>1, <2>2 DEF ToSet
  <2>4. ASSUME NEW k \in 1 .. n, k - 1 \in G
        PROVE  k \in G
    <3>1. UNION { Rewritten(e, subs[k]) : e \in acc[k - 1] } = {}
      BY <2>4
    <3>2. acc[k] = {} /\ k \in 0 .. n
      BY <2>1, <2>2, <3>1
    <3> QED BY <3>2
  <2>5. n \in 0 .. n
    BY <2>2
  <2>6. n \in G
    <3> HIDE DEF G
    <3> QED BY <2>2, <2>3, <2>4, <2>5, UpTo
  <2> QED BY <2>1, <2>6
<1> HIDE DEF out
<1>3. ToSet(out) = {} => out = <<>>
  <2>1. ASSUME ToSet(out) = {}
        PROVE  out \in Seq({})
    BY <1>1, <2>1
  <2> QED BY <2>1
<1> QED BY <1>1, <1>2, <1>3 DEF out

(* Rewriting makes no exclusion longer. *)
LEMMA RewritingShortens ==
  ASSUME NEW b, NEW related \in SUBSET b, related # {}, NEW x, AtMostPair(b)
  PROVE  AtMostPair((b \ related) \cup {x})
<1>1. PICK y \in related : TRUE
  OBVIOUS
<1>2. \A s, t, u \in b : s = t \/ t = u \/ s = u
  BY DEF AtMostPair
<1>3. ASSUME NEW s \in b \ related, NEW t \in b \ related
      PROVE  s = t
  BY <1>1, <1>2
<1> QED BY <1>3 DEF AtMostPair

-----------------------------------------------------------------------------
(* The row gcd is building *)

(* The terms there are over some parameters. *)
TermsFor(params, known) == UNION { {p} \X (0 .. known[p].valueCount - 1) : p \in params }

OneValueEach(terms) == \A s, t \in terms : s[1] = t[1] => s = t

(* The rows of the model in work have to obey this exclusion. *)
Minds(e) == Respected(e, MyParams, parameters, task.rowSeeds)

(* At one order, a row that is begun has values for all parameters of some *)
(* combination but one, so that from here on each parameter is a last one. *)
EnoughBound(b) ==
  b # {} /\ OneOrder(MyParams, parameters, task.rowSeeds) =>
    \A p, q \in MyParams : p # q => parameters[p].order <= Cardinality(ParamsOf(b)) + 1

(* What holds of a row however far it is. *)
Fits(b) ==
  /\ b \subseteq TermsFor(MyParams, parameters)
  /\ OneValueEach(b)
  /\ \A e \in Self.exclusions : Minds(e) => ~ (e \subseteq b)
  /\ EnoughBound(b)

(* What fixRowSeeds leaves. *)
Usable == { s \in SUBSET TermsFor(MyParams, parameters) : s # {} /\ ~ Violates(s) }

InstanceFits ==
  /\ IsFiniteSet(MyParams) /\ ChosenCombos # {}
  /\ \A e \in Self.exclusions : e # {} /\ ParamsOf(e) \subseteq MyParams

RowInWork ==
  /\ InstanceFits
  /\ Fits(bound)
  /\ run.seeds \in Seq(Usable) /\ (task.rowSeeds = <<>> => run.seeds = <<>>)
  /\ bound # {} /\ run.seeds # <<>> => Head(run.seeds) \subseteq bound

LEMMA EmptyFits ==
  ASSUME InstanceFits
  PROVE  Fits({})
BY DEF Fits, OneValueEach, EnoughBound, InstanceFits

(* The steps leave alone all that these speak of, but for the row and the  *)
(* seeds.                                                                  *)
LEMMA StillInWork ==
  ASSUME InstanceFits, MyParams' = MyParams, Self.exclusions' = Self.exclusions,
         parameters' = parameters, task' = task,
         Fits(bound'), run.seeds' \in Seq(Usable), task.rowSeeds = <<>> => run.seeds' = <<>>,
         bound' # {} /\ run.seeds' # <<>> => Head(run.seeds') \subseteq bound'
  PROVE  RowInWork'
<1>1. InstanceFits' /\ Usable' = Usable
  BY DEF InstanceFits, ChosenCombos, Combinations, Usable, TermsFor, Violates
<1>2. Fits(bound)'
  BY DEF Fits, TermsFor, OneValueEach, Minds, Respected, OneOrder, LowOrders, AtMostPair, EnoughBound, ParamsOf
<1> QED BY <1>1, <1>2 DEF RowInWork

LEMMA ComboFacts ==
  ASSUME InstanceFits, NEW c \in AllCombinations
  PROVE  c \subseteq MyParams /\ IsFiniteSet(c) /\ Cardinality(c) \in Nat
<1>1. c \subseteq MyParams
  BY DEF AllCombinations, ChosenCombos, Combinations, InstanceFits
<1> QED BY <1>1, FS_Subset, FS_CardinalityType DEF InstanceFits

LEMMA ChosenSize ==
  ASSUME InstanceFits, NEW c \in ChosenCombos
  PROVE  /\ c \subseteq MyParams /\ IsFiniteSet(c) /\ Cardinality(c) \in Nat
         /\ \E p \in c : parameters[p].order = Cardinality(c)
         /\ \A p \in c : parameters[p].order >= Cardinality(c)
<1>1. c \in AllCombinations
  BY DEF AllCombinations
<1> QED BY <1>1, ComboFacts DEF ChosenCombos, Combinations

(* The parameters of part of some terms, ...                               *)
LEMMA BoundAre ==
  ASSUME InstanceFits, NEW b, b \subseteq TermsFor(MyParams, parameters)
  PROVE  /\ ParamsOf(b) \subseteq MyParams /\ IsFiniteSet(ParamsOf(b)) /\ Cardinality(ParamsOf(b)) \in Nat
         /\ \A t \in b : t = <<t[1], t[2]>> /\ t[1] \in ParamsOf(b)
                         /\ t[2] \in 0 .. parameters[t[1]].valueCount - 1
         /\ b # {} => Cardinality(ParamsOf(b)) >= 1
<1>1. ASSUME NEW t \in b
      PROVE  t = <<t[1], t[2]>> /\ t[1] \in MyParams /\ t[2] \in 0 .. parameters[t[1]].valueCount - 1
  BY DEF TermsFor
<1>2. \A t \in b : t[1] \in ParamsOf(b)
  BY DEF ParamsOf
<1>3. ParamsOf(b) \subseteq MyParams
  BY <1>1 DEF ParamsOf
<1>4. IsFiniteSet(ParamsOf(b)) /\ Cardinality(ParamsOf(b)) \in Nat
  BY <1>3, FS_Subset, FS_CardinalityType DEF InstanceFits
<1>5. b # {} => Cardinality(ParamsOf(b)) # 0
  BY <1>2, <1>4, FS_EmptySet
<1> QED BY <1>1, <1>2, <1>3, <1>4, <1>5

(* ... and of a cell.                                                      *)
LEMMA CellTerms ==
  ASSUME NEW c \in SUBSET MyParams,
         NEW k \in Engine(ValueCounts(MyParams, parameters))!Cells(c)
  PROVE  k \subseteq TermsFor(MyParams, parameters) /\ OneValueEach(k) /\ ParamsOf(k) = c
<1> DEFINE counts == ValueCounts(MyParams, parameters)
<1>1. \A p \in MyParams : counts[p] = parameters[p].valueCount
  BY DEF ValueCounts
<1> HIDE DEF counts
<1>2. PICK f : (\A p \in c : f[p] \in Engine(counts)!Values(p)) /\ k = { <<p, f[p]>> : p \in c }
  BY DEF Engine!Cells, counts
<1>3. \A p \in c : f[p] \in 0 .. parameters[p].valueCount - 1
  BY <1>1, <1>2 DEF Engine!Values
<1>4. k \subseteq TermsFor(MyParams, parameters)
  BY <1>2, <1>3 DEF TermsFor
<1>5. OneValueEach(k)
  BY <1>2 DEF OneValueEach
<1>6. ParamsOf(k) = c
  <2>1. \A t \in k : t[1] \in c
    BY <1>2
  <2>2. \A p \in c : <<p, f[p]>> \in k /\ <<p, f[p]>>[1] = p
    BY <1>2
  <2> QED BY <2>1, <2>2 DEF ParamsOf
<1> QED BY <1>4, <1>5, <1>6

(* At one order, any parameters up to that many are in a combination.      *)
LEMMA OneOrderCombos ==
  ASSUME InstanceFits, OneOrder(MyParams, parameters, task.rowSeeds),
         NEW p \in MyParams, NEW q \in MyParams, p # q
  PROVE  /\ parameters[p].order \in Nat /\ parameters[p].order >= 2
         /\ parameters[p].order <= Cardinality(MyParams)
         /\ \A r \in MyParams : parameters[r].order = parameters[p].order
         /\ \A c \in ChosenCombos : Cardinality(c) = parameters[p].order
         /\ \A c \in SUBSET MyParams : Cardinality(c) = parameters[p].order => c \in ChosenCombos
<1> DEFINE k == parameters[p].order
<1>1. \A r \in MyParams : parameters[r].order = k
  BY DEF OneOrder
<1>2. \A c \in ChosenCombos : Cardinality(c) = k /\ Cardinality(c) \in Nat /\ c \subseteq MyParams
  BY <1>1, ChosenSize
<1>3. PICK c \in ChosenCombos : TRUE
  BY DEF InstanceFits
<1>4. k \in Nat /\ k <= Cardinality(MyParams)
  BY <1>2, <1>3, FS_Subset DEF InstanceFits
<1>5. k >= 2
  BY <1>4 DEF OneOrder
<1>6. ASSUME NEW d \in SUBSET MyParams, Cardinality(d) = k
      PROVE  d \in ChosenCombos
  <2>1. d # {}
    BY <1>5, <1>6, FS_EmptySet
  <2>2. PICK r \in d : TRUE
    BY <2>1
  <2>3. parameters[r].order = Cardinality(d) /\ \A s \in d : parameters[s].order >= Cardinality(d)
    BY <1>1, <1>4, <1>6
  <2> QED BY <2>3 DEF ChosenCombos, Combinations
<1> QED BY <1>1, <1>2, <1>4, <1>5, <1>6

(* There, once a row is begun, no combination is bound at a time: the      *)
(* parameter would be the last of one.                                     *)
LEMMA LastIsFound ==
  ASSUME InstanceFits, Fits(bound), bound # {}, OneOrder(MyParams, parameters, task.rowSeeds),
         NEW p \in MyParams \ BoundParams
  PROVE  p \in LastParams
<1> DEFINE k == parameters[p].order
<1>1. BoundParams # {} /\ BoundParams \subseteq MyParams /\ IsFiniteSet(BoundParams) /\ Cardinality(BoundParams) \in Nat
  BY BoundAre, FS_EmptySet DEF Fits, BoundParams
<1>2. PICK q \in BoundParams : q \in MyParams /\ p # q
  BY <1>1
<1>3. k \in Nat /\ k >= 2 /\ k - 1 \in Nat
  BY <1>2, OneOrderCombos
<1>4. k - 1 <= Cardinality(BoundParams)
  BY <1>1, <1>2, <1>3 DEF Fits, EnoughBound, BoundParams
<1>5. Cardinality({}) = 0
  BY FS_EmptySet
<1>6. PICK T \in SUBSET BoundParams : Cardinality(T) = k - 1
  BY <1>1, <1>3, <1>4, <1>5, SizeBetween
<1>7. p \notin T /\ IsFiniteSet(T)
  BY <1>1, FS_Subset
<1>8. Cardinality(T \cup {p}) = k
  <2>1. Cardinality(T \cup {p}) = Cardinality(T) + 1
    BY <1>7, FS_AddElement
  <2> QED BY <1>3, <1>6, <2>1
<1>9. T \cup {p} \in AllCombinations
  <2>1. T \cup {p} \in SUBSET MyParams
    BY <1>1
  <2>2. T \cup {p} \in ChosenCombos
    BY <1>2, <1>8, <2>1, OneOrderCombos
  <2> QED BY <2>2 DEF AllCombinations
<1>10. (T \cup {p}) \ BoundParams = {p}
  BY <1>7
<1>11. Cardinality(T \cup {p}) > 1
  BY <1>3, <1>8
<1> QED BY <1>9, <1>10, <1>11 DEF LastParams

LEMMA SeedBound ==
  ASSUME RowInWork, BindSeed, pc' = "rows"
  PROVE  Fits(bound') /\ bound' = Head(run.seeds) /\ run.seeds # <<>>
<1> DEFINE seed == Head(run.seeds)
<1>1. bound' = seed /\ run.seeds # <<>> /\ OneValueEach(bound')
  <2>1. run.seeds # <<>> /\ pc = "rows"
    BY DEF BindSeed, RowBegins
  <2>2. CASE \E s, t \in seed : s[1] = t[1] /\ s[2] # t[2]
    BY <2>2 DEF BindSeed
  <2>3. CASE ~ \E s, t \in seed : s[1] = t[1] /\ s[2] # t[2]
    <3>1. bound' = seed
      BY <2>3 DEF BindSeed
    <3>2. \A s \in seed : s = <<s[1], s[2]>>
      <4>1. seed \in Usable
        BY <2>1 DEF RowInWork
      <4> QED BY <4>1 DEF Usable, TermsFor
    <3> HIDE DEF seed
    <3> QED BY <2>1, <2>3, <3>1, <3>2 DEF OneValueEach
  <2> QED BY <2>2, <2>3
<1>2. bound' \in Usable /\ InstanceFits /\ task.rowSeeds # <<>>
  BY <1>1 DEF RowInWork
<1>3. bound' \subseteq TermsFor(MyParams, parameters) /\ bound' # {}
      /\ \A e \in Self.exclusions : ~ (e \subseteq bound')
  BY <1>2 DEF Usable, Violates
<1>4. EnoughBound(bound')
  <2> SUFFICES ASSUME OneOrder(MyParams, parameters, task.rowSeeds),
                      NEW p \in MyParams, NEW q \in MyParams, p # q
               PROVE  parameters[p].order <= Cardinality(ParamsOf(bound')) + 1
    BY DEF EnoughBound
  <2>1. parameters[p].order = 2
    BY <1>2 DEF OneOrder
  <2>2. Cardinality(ParamsOf(bound')) >= 1 /\ Cardinality(ParamsOf(bound')) \in Nat
    BY <1>2, <1>3, BoundAre
  <2> QED BY <2>1, <2>2
<1> QED BY <1>1, <1>3, <1>4 DEF Fits

LEMMA PairSize ==
  ASSUME NEW a, NEW b, a # b
  PROVE  Cardinality({a, b}) = 2
<1>1. Cardinality({a}) = 1 /\ IsFiniteSet({a})
  BY FS_Singleton
<1>2. Cardinality({a} \cup {b}) = 2
  BY <1>1, FS_AddElement
<1> QED BY <1>2

LEMMA FeasibleAre ==
  ASSUME InstanceFits, NEW k \in FeasibleCells
  PROVE  \E c \in AllCombinations :
           /\ ~ (c \subseteq BoundParams)
           /\ k \subseteq TermsFor(MyParams, parameters) /\ OneValueEach(k) /\ ParamsOf(k) = c
           /\ ~ Violates(k)
           /\ \A s \in k, t \in bound : s[1] = t[1] => s = t
<1> DEFINE counts == ValueCounts(MyParams, parameters)
<1>1. MyCounts = {counts}
  BY DEF MyCounts
<1> HIDE DEF counts
<1>2. PICK c \in AllCombinations : /\ ~ (c \subseteq BoundParams)
                                   /\ k \in Engine(counts)!Cells(c)
                                   /\ ~ Violates(k)
                                   /\ \A s \in k, t \in bound : s[1] = t[1] => s = t
  BY <1>1 DEF FeasibleCells
<1>3. c \in SUBSET MyParams
  BY ComboFacts
<1>4. k \subseteq TermsFor(MyParams, parameters) /\ OneValueEach(k) /\ ParamsOf(k) = c
  BY <1>2, <1>3, CellTerms DEF counts
<1> QED BY <1>2, <1>4

(***************************************************************************)
(* A combination is bound only when no parameter is the last of any: at    *)
(* one order the row is empty then; at orders one and two a pair of what   *)
(* is bound and what is about to be would have made the second the last    *)
(* one of it.                                                              *)
(***************************************************************************)
LEMMA CombinationBound ==
  ASSUME RowInWork, BindCombination
  PROVE  Fits(bound') /\ bound \subseteq bound' /\ (run.seeds # <<>> => bound # {})
<1>1. InstanceFits /\ Fits(bound)
  BY DEF RowInWork
<1>2. PICK k \in FeasibleCells : bound' = bound \cup k
  BY DEF BindCombination
<1>3. LastParams = {} /\ (run.seeds # <<>> => bound # {})
  BY DEF BindCombination, RowUnfinished, RowBegins
<1>4. PICK c \in AllCombinations :
           /\ ~ (c \subseteq BoundParams)
           /\ k \subseteq TermsFor(MyParams, parameters) /\ OneValueEach(k) /\ ParamsOf(k) = c
           /\ ~ Violates(k)
           /\ \A s \in k, t \in bound : s[1] = t[1] => s = t
  BY <1>1, FeasibleAre
<1>5. c \subseteq MyParams
  BY <1>1, ComboFacts
<1>6. PICK p \in c : p \notin BoundParams /\ p \in MyParams
  BY <1>4, <1>5
<1>7. bound' \subseteq TermsFor(MyParams, parameters) /\ OneValueEach(bound')
  BY <1>1, <1>2, <1>4 DEF Fits, OneValueEach
<1>8. OneOrder(MyParams, parameters, task.rowSeeds) => bound = {}
  BY <1>1, <1>3, <1>6, LastIsFound
<1>9. ASSUME NEW e \in Self.exclusions, Minds(e), e \subseteq bound'
      PROVE  FALSE
  <2>1. ~ (e \subseteq bound) /\ ~ (e \subseteq k)
    BY <1>1, <1>4, <1>9 DEF Fits, Violates
  <2>2. bound # {} /\ LowOrders(MyParams, parameters) /\ AtMostPair(e)
    BY <1>2, <1>8, <1>9, <2>1 DEF Minds, Respected
  <2>3. PICK s \in bound, t \in k : s \in e /\ t \in e /\ s \notin k /\ t \notin bound
    BY <1>2, <1>9, <2>1
  <2>4. \A u \in e : u = s \/ u = t
    BY <2>2, <2>3 DEF AtMostPair
  <2>5. s[1] \in BoundParams /\ t[1] \in c
    BY <1>4, <2>3 DEF BoundParams, ParamsOf
  <2>6. t[1] \notin BoundParams
    BY <1>4, <2>3 DEF BoundParams, ParamsOf
  <2> DEFINE pair == {s[1], t[1]}
  <2>7. ParamsOf(e) = pair
    BY <2>3, <2>4 DEF ParamsOf
  <2>8. pair \in AllCombinations
    <3>1. CASE \A d \in ChosenCombos : ~ (pair \subseteq d)
      BY <2>7, <3>1 DEF AllCombinations
    <3>2. ASSUME NEW d \in ChosenCombos, pair \subseteq d
          PROVE  pair \in AllCombinations
      <4>1. d \subseteq MyParams /\ IsFiniteSet(d) /\ Cardinality(d) \in Nat
            /\ \E q \in d : parameters[q].order = Cardinality(d)
        BY <1>1, ChosenSize
      <4>2. Cardinality(d) <= 2
        BY <2>2, <4>1 DEF LowOrders
      <4>3. Cardinality(pair) = 2
        BY <2>5, <2>6, PairSize
      <4>4. pair = d
        BY <3>2, <4>1, <4>2, <4>3, FS_Subset
      <4> QED BY <3>2, <4>4 DEF AllCombinations
    <3> QED BY <3>1, <3>2
  <2>9. Cardinality(pair) = 2
    BY <2>5, <2>6, PairSize
  <2>10. pair \ BoundParams = {t[1]} /\ t[1] \in MyParams
    BY <1>5, <2>5, <2>6
  <2>11. t[1] \in LastParams
    BY <2>6, <2>8, <2>9, <2>10 DEF LastParams
  <2> QED BY <1>3, <2>11
<1>10. EnoughBound(bound')
  <2> SUFFICES ASSUME OneOrder(MyParams, parameters, task.rowSeeds),
                      NEW q \in MyParams, NEW r \in MyParams, q # r
               PROVE  parameters[q].order <= Cardinality(ParamsOf(bound')) + 1
    BY DEF EnoughBound
  <2>1. bound' = k /\ ParamsOf(bound') = c
    BY <1>2, <1>4, <1>8
  <2> DEFINE K == parameters[q].order
  <2>2. K \in Nat /\ K <= Cardinality(MyParams) /\ (\A d \in ChosenCombos : Cardinality(d) = K)
        /\ \A d \in SUBSET MyParams : Cardinality(d) = K => d \in ChosenCombos
    BY <1>1, OneOrderCombos
  <2>3. Cardinality(c) \in Nat
    BY <1>1, ComboFacts
  <2>4. CASE c \in ChosenCombos
    BY <2>1, <2>2, <2>3, <2>4
  <2>5. CASE c \notin ChosenCombos
    <3>1. \A d \in ChosenCombos : ~ (c \subseteq d)
      BY <2>5 DEF AllCombinations
    <3>2. ASSUME Cardinality(c) <= K
          PROVE  FALSE
      <4>1. PICK d \in SUBSET MyParams : c \subseteq d /\ Cardinality(d) = K
        BY <1>1, <1>5, <2>2, <3>2, SizeBetween DEF InstanceFits
      <4> QED BY <2>2, <3>1, <4>1
    <3> QED BY <2>1, <2>2, <2>3, <3>2
  <2> QED BY <2>4, <2>5
<1> QED BY <1>2, <1>3, <1>7, <1>9, <1>10 DEF Fits

(***************************************************************************)
(* A value is picked against every exclusion that it would complete: the   *)
(* parameters of such a one are in a combination of which the parameter is *)
(* the last.                                                               *)
(***************************************************************************)
LEMMA ValuePicked ==
  ASSUME RowInWork, PickValue
  PROVE  Fits(bound') /\ bound \subseteq bound' /\ (run.seeds # <<>> => bound # {})
<1>1. InstanceFits /\ Fits(bound)
  BY DEF RowInWork
<1>2. PICK p \in LastParams : \E v \in Pickable(p) : bound' = bound \cup {<<p, v>>}
  BY DEF PickValue
<1>3. PICK v \in Pickable(p) : bound' = bound \cup {<<p, v>>}
  BY <1>2
<1>4. run.seeds # <<>> => bound # {}
  BY DEF PickValue, RowUnfinished, RowBegins
<1>5. v \in 0 .. parameters[p].valueCount - 1 /\ ~ RuledOut(p, v)
  BY DEF Pickable
<1>6. PICK last \in AllCombinations : Cardinality(last) > 1 /\ last \ BoundParams = {p}
  BY DEF LastParams
<1>7. p \in MyParams /\ p \notin BoundParams
  BY DEF LastParams
<1>8. /\ BoundParams \subseteq MyParams /\ IsFiniteSet(BoundParams) /\ Cardinality(BoundParams) \in Nat
      /\ \A t \in bound : t = <<t[1], t[2]>> /\ t[1] \in BoundParams
  BY <1>1, BoundAre DEF Fits, BoundParams
<1>9. PICK q \in MyParams : q # p /\ q \in BoundParams
  <2>1. last # {p}
    BY <1>6, FS_Singleton
  <2> QED BY <1>6, <1>8, <2>1
<1>10. bound # {}
  BY <1>9 DEF BoundParams, ParamsOf
<1>11. ParamsOf(bound') = BoundParams \cup {p}
  <2>1. \A t \in bound' : t[1] \in BoundParams \cup {p}
    <3>1. <<p, v>>[1] = p
      OBVIOUS
    <3> QED BY <1>3, <1>8, <3>1
  <2>2. \A r \in BoundParams \cup {p} : \E t \in bound' : t[1] = r
    <3>1. \A r \in BoundParams : \E t \in bound : t[1] = r
      BY DEF BoundParams, ParamsOf
    <3>2. <<p, v>> \in bound' /\ <<p, v>>[1] = p
      BY <1>3
    <3> QED BY <1>3, <3>1, <3>2
  <2> QED BY <2>1, <2>2 DEF ParamsOf
<1>12. Cardinality(BoundParams \cup {p}) = Cardinality(BoundParams) + 1 /\ IsFiniteSet(BoundParams \cup {p})
  BY <1>7, <1>8, FS_AddElement
<1>13. bound' \subseteq TermsFor(MyParams, parameters)
  <2>1. <<p, v>> \in TermsFor(MyParams, parameters)
    BY <1>5, <1>7 DEF TermsFor
  <2> QED BY <1>1, <1>3, <2>1 DEF Fits
<1>14. OneValueEach(bound')
  BY <1>1, <1>3, <1>7, <1>8 DEF Fits, OneValueEach
<1>15. EnoughBound(bound')
  <2> SUFFICES ASSUME OneOrder(MyParams, parameters, task.rowSeeds),
                      NEW r \in MyParams, NEW s \in MyParams, r # s
               PROVE  parameters[r].order <= Cardinality(ParamsOf(bound')) + 1
    BY DEF EnoughBound
  <2>1. parameters[r].order <= Cardinality(BoundParams) + 1
    BY <1>1, <1>10 DEF Fits, EnoughBound, BoundParams
  <2>2. parameters[r].order \in Nat
    BY <1>1, OneOrderCombos
  <2> QED BY <1>8, <1>11, <1>12, <2>1, <2>2
<1>16. ASSUME NEW e \in Self.exclusions, Minds(e), e \subseteq bound'
       PROVE  FALSE
  <2> DEFINE D == ParamsOf(e)
  <2>1. D \subseteq BoundParams \cup {p} /\ D \subseteq MyParams
    BY <1>1, <1>11, <1>16 DEF ParamsOf, InstanceFits
  <2>2. <<p, v>> \in e /\ p \in D
    BY <1>1, <1>3, <1>16 DEF Fits, ParamsOf
  <2>3. ASSUME NEW c \in AllCombinations, D \subseteq c, c \subseteq BoundParams \cup {p}
        PROVE  FALSE
    <3>1. e \subseteq { t \in bound \cup {<<p, v>>} : t[1] \in c }
      BY <1>3, <1>16, <2>3 DEF ParamsOf
    <3>2. p \in c
      BY <2>2, <2>3
    <3> QED BY <1>5, <2>3, <3>1, <3>2 DEF RuledOut, Violates
  <2>4. CASE \A c \in ChosenCombos : ~ (D \subseteq c)
    <3>1. D \in AllCombinations
      BY <2>4 DEF AllCombinations
    <3> QED BY <2>1, <2>3, <3>1
  <2>5. ASSUME NEW c \in ChosenCombos, D \subseteq c
        PROVE  FALSE
    <3>1. c \subseteq MyParams /\ IsFiniteSet(c) /\ Cardinality(c) \in Nat
          /\ (\E r \in c : parameters[r].order = Cardinality(c)) /\ c \in AllCombinations
      BY <1>1, ChosenSize DEF AllCombinations
    <3>2. CASE OneOrder(MyParams, parameters, task.rowSeeds)
      <4> DEFINE K == parameters[p].order
      <4>1. K \in Nat /\ Cardinality(c) = K
            /\ \A d \in SUBSET MyParams : Cardinality(d) = K => d \in ChosenCombos
        BY <1>1, <1>7, <1>9, <3>2, OneOrderCombos
      <4>2. K <= Cardinality(BoundParams) + 1
        BY <1>1, <1>7, <1>9, <1>10, <3>2 DEF Fits, EnoughBound, BoundParams
      <4>3. Cardinality(D) <= K
        BY <2>5, <3>1, <4>1, FS_Subset
      <4>4. PICK d \in SUBSET (BoundParams \cup {p}) : D \subseteq d /\ Cardinality(d) = K
        BY <1>12, <2>1, <4>1, <4>2, <4>3, SizeBetween
      <4>5. d \in AllCombinations
        BY <1>7, <1>8, <4>1, <4>4 DEF AllCombinations
      <4> QED BY <2>3, <4>4, <4>5
    <3>3. CASE LowOrders(MyParams, parameters)
      <4>1. CASE D = {p}
        <5>1. D \subseteq last /\ last \subseteq BoundParams \cup {p}
          BY <1>6, <4>1
        <5> QED BY <2>3, <5>1
      <4>2. ASSUME NEW r \in D, r # p
            PROVE  FALSE
        <5>1. Cardinality(c) <= 2
          BY <3>1, <3>3 DEF LowOrders
        <5>2. Cardinality({p, r}) = 2
          BY <4>2, PairSize
        <5>3. {p, r} \subseteq c
          BY <2>2, <2>5, <4>2
        <5>4. {p, r} = c
          BY <3>1, <5>1, <5>2, <5>3, FS_Subset
        <5>5. c \subseteq BoundParams \cup {p}
          BY <2>1, <4>2, <5>4
        <5> QED BY <2>3, <2>5, <3>1, <5>5
      <4> QED BY <2>2, <4>1, <4>2
    <3> QED BY <1>16, <3>2, <3>3 DEF Minds, Respected
  <2> QED BY <2>4, <2>5
<1> QED BY <1>3, <1>4, <1>10, <1>13, <1>14, <1>15, <1>16 DEF Fits

LEMMA BindSeedKeeps ==
  ASSUME RowInWork, BindSeed, pc' = "rows"
  PROVE  RowInWork'
<1>1. Fits(bound') /\ bound' = Head(run.seeds) /\ run.seeds # <<>>
  BY SeedBound
<1>2. UNCHANGED <<parameters, models, task, calls, run>>
  BY DEF BindSeed
<1>3. MyParams' = MyParams /\ Self.exclusions' = Self.exclusions
  BY <1>2 DEF MyParams, Self, Top
<1> QED BY <1>1, <1>2, <1>3, StillInWork DEF RowInWork

LEMMA BindingKeeps ==
  ASSUME RowInWork, BindCombination \/ PickValue
  PROVE  RowInWork'
<1>1. Fits(bound') /\ bound \subseteq bound' /\ (run.seeds # <<>> => bound # {})
  BY CombinationBound, ValuePicked
<1>2. UNCHANGED <<parameters, models, task, calls, run>>
  BY DEF BindCombination, PickValue
<1>3. MyParams' = MyParams /\ Self.exclusions' = Self.exclusions
  BY <1>2 DEF MyParams, Self, Top
<1>4. bound' # {} /\ run.seeds' # <<>> => Head(run.seeds') \subseteq bound'
  BY <1>1, <1>2 DEF RowInWork
<1>5. run.seeds' \in Seq(Usable) /\ (task.rowSeeds = <<>> => run.seeds' = <<>>)
  BY <1>2 DEF RowInWork
<1>6. InstanceFits
  BY DEF RowInWork
<1> QED BY <1>1, <1>2, <1>3, <1>4, <1>5, <1>6, StillInWork

(* A finished row is a row of the model; the next one is begun. *)
LEMMA RowFinished ==
  ASSUME RowInWork, AddRow
  PROVE  /\ bound \in RowsOf(MyParams, parameters)
         /\ \A e \in Self.exclusions : Minds(e) => ~ (e \subseteq bound)
         /\ run.seeds # <<>> => Head(run.seeds) \subseteq bound
         /\ RowInWork'
<1>1. InstanceFits /\ Fits(bound) /\ bound # {} /\ BoundParams = MyParams
  BY DEF RowInWork, AddRow
<1> DEFINE counts == ValueCounts(MyParams, parameters)
           f == [p \in MyParams |-> ValueOf(bound, p)]
<1>2. \A t \in bound : /\ t = <<t[1], t[2]>> /\ t[1] \in MyParams
                       /\ t[2] \in 0 .. parameters[t[1]].valueCount - 1
  BY <1>1, BoundAre DEF Fits, BoundParams
<1>3. ASSUME NEW p \in MyParams
      PROVE  <<p, f[p]>> \in bound /\ f[p] \in 0 .. parameters[p].valueCount - 1
  <2>1. PICK t \in bound : t[1] = p
    BY <1>1 DEF BoundParams, ParamsOf
  <2>2. (CHOOSE s \in bound : s[1] = p) = t
    BY <1>1, <2>1 DEF Fits, OneValueEach
  <2>3. f[p] = t[2]
    BY <2>2 DEF ValueOf
  <2> QED BY <1>2, <2>1, <2>3
<1>4. bound = { <<p, f[p]>> : p \in MyParams }
  <2>1. ASSUME NEW t \in bound
        PROVE  t = <<t[1], f[t[1]]>>
    <3>1. <<t[1], f[t[1]]>> \in bound
      BY <1>2, <1>3
    <3> HIDE DEF f
    <3> QED BY <1>1, <3>1 DEF Fits, OneValueEach
  <2> HIDE DEF f
  <2> QED BY <1>2, <1>3, <2>1
<1>5. bound \in RowsOf(MyParams, parameters)
  <2>1. DOMAIN counts = MyParams /\ \A p \in MyParams : counts[p] = parameters[p].valueCount
    BY DEF ValueCounts
  <2> HIDE DEF counts
  <2>2. \A p \in MyParams : f[p] \in Engine(counts)!Values(p)
    <3> HIDE DEF f
    <3> QED BY <1>3, <2>1 DEF Engine!Values
  <2>3. f \in [MyParams -> UNION { Engine(counts)!Values(p) : p \in MyParams }]
    <3>1. f = [p \in MyParams |-> f[p]]
      OBVIOUS
    <3> HIDE DEF f
    <3> QED BY <2>2, <3>1
  <2> HIDE DEF f
  <2>4. bound \in Engine(counts)!Rows
    BY <1>4, <2>1, <2>2, <2>3 DEF Engine!Rows, Engine!Cells
  <2> QED BY <2>4 DEF RowsOf, counts
<1>6. \A e \in Self.exclusions : Minds(e) => ~ (e \subseteq bound)
  BY <1>1 DEF Fits
<1>7. run.seeds # <<>> => Head(run.seeds) \subseteq bound
  BY <1>1 DEF RowInWork
<1>8. RowInWork'
  <2>1. UNCHANGED <<parameters, models, task, calls>> /\ bound' = {}
        /\ run.seeds' = IF run.seeds = <<>> THEN <<>> ELSE Tail(run.seeds)
    BY DEF AddRow
  <2>2. MyParams' = MyParams /\ Self.exclusions' = Self.exclusions
    BY <2>1 DEF MyParams, Self, Top
  <2>3. Fits(bound')
    BY <1>1, <2>1, EmptyFits
  <2>4. run.seeds' \in Seq(Usable) /\ (task.rowSeeds = <<>> => run.seeds' = <<>>)
    BY <2>1 DEF RowInWork
  <2> QED BY <1>1, <2>1, <2>2, <2>3, <2>4, StillInWork
<1> QED BY <1>5, <1>6, <1>7, <1>8

LEMMA SeedsFixed ==
  ASSUME NEW A, NEW seeds \in Seq(A), NEW counts, counts = ValueCounts(MyParams, parameters),
         NEW fixed \in Engine(counts)!FixedSeeds(seeds, Self.exclusions)
  PROVE  fixed \in Seq(Usable) /\ (seeds = <<>> => fixed = <<>>)
<1> DEFINE term == Engine(counts)!Term
           E == Self.exclusions
           known == [i \in DOMAIN seeds |-> seeds[i] \cap term]
           redundant(i) == \/ known[i] = {}
                           \/ \E j \in DOMAIN known \ {i} :
                                known[i] \subseteq known[j] /\ (known[i] = known[j] => j < i)
           keep == { i \in DOMAIN known : ~ redundant(i) /\ ~ \E e \in E : e \subseteq known[i] }
           n == Len(seeds)
           card == Cardinality(keep)
<1>1. fixed \in Engine(counts)!Kept(known, keep)
  BY DEF Engine!FixedSeeds, Engine!KnownTerms, Engine!Redundant, Engine!ViolatesAny, Engine!Contained
<1>2. n \in Nat /\ DOMAIN known = 1 .. n
  OBVIOUS
<1>3. term = TermsFor(MyParams, parameters)
  <2>1. DOMAIN counts = MyParams /\ \A p \in MyParams : counts[p] = parameters[p].valueCount
    BY DEF ValueCounts
  <2>2. term = UNION { {p} \X (0 .. counts[p] - 1) : p \in DOMAIN counts }
    BY DEF Engine!Term, Engine!Values
  <2>3. { {p} \X (0 .. counts[p] - 1) : p \in DOMAIN counts }
          = { {p} \X (0 .. parameters[p].valueCount - 1) : p \in MyParams }
    BY <2>1
  <2> QED BY <2>2, <2>3 DEF TermsFor
<1>4. \A i \in keep : known[i] \in Usable
  <2>1. \A i \in keep : known[i] \subseteq term /\ known[i] # {} /\ ~ \E e \in E : e \subseteq known[i]
    BY <1>2
  <2> HIDE DEF known, term, keep
  <2> QED BY <1>3, <2>1 DEF Usable, Violates
<1>5. keep \subseteq 1 .. n
  BY <1>2
<1> HIDE DEF known, keep
<1>6. IsFiniteSet(keep) /\ card \in Nat
  <2>1. IsFiniteSet(1 .. n)
    BY <1>2, FS_Interval
  <2>2. IsFiniteSet(keep)
    BY <1>5, <2>1, FS_Subset
  <2> QED BY <2>2, FS_CardinalityType
<1>7. PICK index \in [1 .. card -> keep] : fixed = [k \in 1 .. card |-> known[index[k]]]
  BY <1>1, KeptPlaces
<1>8. fixed \in Seq(Usable)
  <2>1. \A k \in 1 .. card : known[index[k]] \in Usable
    BY <1>4, <1>7
  <2> HIDE DEF card
  <2> QED BY <1>6, <1>7, <2>1 DEF card
<1>9. ASSUME seeds = <<>>
      PROVE  fixed = <<>>
  <2>1. n = 0
    BY <1>9
  <2>2. keep = {}
    BY <1>5, <2>1
  <2>3. card = 0
    BY <2>2, FS_EmptySet
  <2> HIDE DEF card
  <2> QED BY <1>7, <2>3
<1> QED BY <1>8, <1>9

LEMMA GenerationBegins ==
  ASSUME GcdBegins, pc' = "rows", bound = {}, IsFiniteSet(MyParams),
         NEW A, Self.rowSeeds \in Seq(A), task.rowSeeds = <<>> => Self.rowSeeds = <<>>,
         MyParams' = MyParams, Self.exclusions' = Self.exclusions
  PROVE  RowInWork'
<1> DEFINE counts == ValueCounts(MyParams, parameters)
<1>1. MyCounts = {counts}
  BY DEF MyCounts
<1> HIDE DEF counts
<1>2. {} \notin Self.exclusions /\ ~ NothingToDo /\ UNCHANGED <<parameters, task, calls, bound>>
  BY DEF GcdBegins
<1>3. /\ \A e \in Self.exclusions : Loose(e) # ParamsOf(e) /\ ParamsOf(e) \subseteq MyParams
      /\ \E fixed \in Engine(counts)!FixedSeeds(Self.rowSeeds, Self.exclusions) : run'.seeds = fixed
  <2>1. /\ \A e \in Self.exclusions : Loose(e) # ParamsOf(e) /\ ParamsOf(e) \subseteq MyParams
        /\ \E cs \in MyCounts :
             \E fixed \in Engine(cs)!FixedSeeds(Self.rowSeeds, Self.exclusions) :
               run' = [open |-> { k \in AllEntries(cs) : ~ Violates(k) }, rows |-> {}, seeds |-> fixed]
    BY <1>2 DEF GcdBegins
  <2>2. PICK fixed \in Engine(counts)!FixedSeeds(Self.rowSeeds, Self.exclusions) :
          run' = [open |-> { k \in AllEntries(counts) : ~ Violates(k) }, rows |-> {}, seeds |-> fixed]
    BY <1>1, <2>1
  <2> QED BY <2>1, <2>2
<1>4. ChosenCombos # {}
  <2>1. CASE Self.exclusions = {}
    <3>1. AllEntries(counts) # {}
      BY <1>1, <1>2, <2>1 DEF NothingToDo
    <3> QED BY <3>1 DEF AllEntries, ChosenCombos
  <2>2. CASE Self.exclusions # {}
    <3>1. PICK e \in Self.exclusions : Loose(e) # ParamsOf(e)
      BY <1>3, <2>2
    <3> QED BY <3>1 DEF Loose
  <2> QED BY <2>1, <2>2
<1>5. InstanceFits
  BY <1>2, <1>3, <1>4 DEF InstanceFits
<1>6. run'.seeds \in Seq(Usable) /\ (Self.rowSeeds = <<>> => run'.seeds = <<>>)
  BY <1>3, SeedsFixed DEF counts
<1>7. Fits(bound') /\ bound' = {}
  BY <1>2, <1>5, EmptyFits
<1> QED BY <1>2, <1>5, <1>6, <1>7, StillInWork

=============================================================================
