----------------------------- MODULE GcdProofs ------------------------------
(***************************************************************************)
(* Theorems about Gcd, for every model, every exclusion set, every list of *)
(* seeds and every mode: the state keeps its types, no assert() fires,     *)
(* what is counted is right, and an entry that is no longer open is        *)
(* excluded or in a row (CoverInv).                                        *)
(***************************************************************************)
EXTENDS Gcd, ExclusionProofs

-----------------------------------------------------------------------------
(* Keeping some places of a list of T leaves a list of T, each member of   *)
(* which was in the list.                                                  *)
LEMMA KeptShape ==
  ASSUME NEW T, NEW list, NEW keep \in SUBSET Nat, IsFiniteSet(keep),
         \A i \in keep : list[i] \in T,
         NEW kept \in Kept(list, keep)
  PROVE  /\ kept \in Seq(T)
         /\ \A n \in DOMAIN kept : \E i \in keep : kept[n] = list[i]
<1> DEFINE id == [i \in keep |-> i]
<1>1. PICK index \in Ordered(keep, id) :
        kept = [n \in 1 .. Cardinality(keep) |-> list[index[n]]]
  BY DEF Kept
<1>2. Cardinality(keep) \in Nat
  BY FS_CardinalityType
<1>3. index \in [1 .. Cardinality(keep) -> keep]
  BY DEF Ordered
<1>4. \A n \in 1 .. Cardinality(keep) : index[n] \in keep
  BY <1>3
<1>5. kept \in [1 .. Cardinality(keep) -> T]
  BY <1>1, <1>4
<1>6. \A n \in 1 .. Cardinality(keep) : kept[n] = list[index[n]]
  BY <1>1
<1> QED BY <1>2, <1>4, <1>5, <1>6

-----------------------------------------------------------------------------
(* Type correctness *)

LEMMA CellsOfCombos ==
  ASSUME NEW combos \in Seq(SUBSET Param)
  PROVE  AllCells(combos) \subseteq SUBSET Term
<1> SUFFICES ASSUME NEW c \in DOMAIN combos, NEW k \in Cells(combos[c])
             PROVE  k \subseteq Term
  BY DEF AllCells
<1> QED BY CellShape

LEMMA ComboIdsFinite ==
  ASSUME TypeOK, NEW S \in SUBSET ComboIds
  PROVE  IsFiniteSet(S) /\ Cardinality(S) \in Nat
<1>1. ComboIds = 1 .. Len(vecCombo) /\ Len(vecCombo) \in Nat
  BY DEF TypeOK, ComboIds
<1>2. IsFiniteSet(1 .. Len(vecCombo))
  BY <1>1, FS_Interval
<1>3. IsFiniteSet(S)
  BY <1>1, <1>2, FS_Subset
<1> QED BY <1>3, FS_CardinalityType

(* One Parameter::Bind keeps the types. *)
LEMMA BindType ==
  ASSUME TypeOK, NEW p \in Param, NEW v \in Values(p),
         NEW queue \in Seq(Param), Bind(p, v, queue)
  PROVE  /\ opened' \subseteq AllCells(vecCombo)
         /\ openCount' \in [ComboIds -> Int]
         /\ boundCount' \in [ComboIds -> Nat]
         /\ zeros' \in Int
         /\ row' \subseteq Term
         /\ pending' \subseteq Param
         /\ worklist' \in Seq(Param)
         /\ unbound' \in Int
         /\ DOMAIN columns' = Param
         /\ \A q \in Param : columns'[q] \in Seq(Values(q))
<1>1. /\ row' = row \cup {<<p, v>>}
      /\ boundCount' = Counted(p)
      /\ opened' \subseteq opened
      /\ openCount' = [c \in ComboIds |-> IF c \in Hit(p, v) THEN openCount[c] - 1
                                                             ELSE openCount[c]]
      /\ zeros' = zeros - Cardinality(Hit(p, v))
      /\ columns' = [columns EXCEPT ![p] = Append(@, v)]
      /\ unbound' = unbound - 1
      /\ pending' = pending \cup Fresh(p)
      /\ \E s \in AnyOrder(Fresh(p)) : worklist' = queue \o s
  BY DEF Bind
<1>2. Cardinality(Hit(p, v)) \in Nat
  <2> Hit(p, v) \subseteq ComboIds
    BY DEF Hit
  <2> QED BY ComboIdsFinite
<1>3. row' \subseteq Term
  BY <1>1, TermShape DEF TypeOK
<1>4. Fresh(p) \subseteq Param
  BY DEF Fresh
<1>5. worklist' \in Seq(Param)
  <2>1. PICK s \in AnyOrder(Fresh(p)) : worklist' = queue \o s
    BY <1>1
  <2>2. s \in Seq(Param)
    BY <1>4, SubsetsOfParamFinite, AnyOrderShape, SeqMonotonic
  <2> QED BY <2>1, <2>2
<1>6. DOMAIN columns' = Param /\ \A q \in Param : columns'[q] \in Seq(Values(q))
  BY <1>1 DEF TypeOK
<1>7. boundCount' \in [ComboIds -> Nat]
  BY <1>1 DEF Counted, TypeOK
<1>8. openCount' \in [ComboIds -> Int]
  BY <1>1 DEF TypeOK
<1>9. zeros' \in Int /\ unbound' \in Int
  BY <1>1, <1>2 DEF TypeOK
<1>10. opened' \subseteq AllCells(vecCombo)
  BY <1>1 DEF TypeOK
<1>11. pending' \subseteq Param
  BY <1>1, <1>4 DEF TypeOK
<1> QED BY <1>3, <1>5, <1>6, <1>7, <1>8, <1>9, <1>10, <1>11

(* A call starts in a well-typed state. *)
LEMMA InitType == Init => TypeOK
<1> SUFFICES ASSUME Init PROVE TypeOK
  OBVIOUS
<1>1. \A p \in Param : columns[p] \in Seq(Values(p))
  BY DEF Init
<1>2. taskSeeds \in Seq(SUBSET (Nat \X Nat))
  BY GcdAssumption DEF Init
<1>3. vecCombo \in Seq(SUBSET Param)
  BY GcdAssumption DEF Init
<1>4. openCount \in [ComboIds -> Int] /\ boundCount \in [ComboIds -> Nat]
  BY DEF Init, ComboIds
<1> QED BY <1>1, <1>2, <1>3, <1>4 DEF Init, TypeOK, Terminal

(* The parameter sets of exclusions are subsets of Param. *)
LEMMA UncontainableShape ==
  ASSUME NEW E \in ExclusionChoices
  PROVE  IsFiniteSet(Uncontainable(E)) /\ Uncontainable(E) \subseteq SUBSET Param
<1>1. Uncontainable(E) \subseteq SUBSET Param
  BY GcdAssumption, TermShape DEF Uncontainable, ParamsOf
<1>2. IsFiniteSet(SUBSET Param)
  BY ParamAssumption, FS_SUBSET
<1> QED BY <1>1, <1>2, FS_Subset

LEMMA ProcessExclusionsType == TypeOK /\ ProcessExclusions => TypeOK'
<1> SUFFICES ASSUME TypeOK, ProcessExclusions PROVE TypeOK'
  OBVIOUS
<1>1. PICK new \in ExclusionCombos(exclusions) : vecCombo' = BaseCombos \o new
  BY DEF ProcessExclusions
<1>2. BaseCombos \in Seq(SUBSET Param)
  BY GcdAssumption
<1>3. new \in Seq(SUBSET Param)
  <2>1. new \in AnyOrder(Uncontainable(exclusions)) /\ exclusions \in ExclusionChoices
    BY DEF ExclusionCombos, TypeOK
  <2> QED BY <2>1, UncontainableShape, AnyOrderShape, SeqMonotonic
<1>4. vecCombo' \in Seq(SUBSET Param)
  BY <1>1, <1>2, <1>3
<1>5. AllCells(BaseCombos) \subseteq AllCells(vecCombo')
  <2> SUFFICES ASSUME NEW c \in DOMAIN BaseCombos
               PROVE  c \in DOMAIN vecCombo' /\ vecCombo'[c] = BaseCombos[c]
    BY DEF AllCells
  <2> QED BY <1>1, <1>2, <1>3
<1>6. opened' \subseteq AllCells(vecCombo') /\ excluded' \subseteq AllCells(vecCombo')
  BY <1>5 DEF ProcessExclusions
<1>7. \A K \in SUBSET opened' : Cardinality(K) \in Nat
  BY <1>4, <1>6, CellsOfCombos, SetsOfCellsFinite
<1>8. zeros' \in Int
  BY <1>7 DEF ProcessExclusions
<1>9. openCount' \in [ComboIds' -> Int]
  <2>1. \A c \in DOMAIN vecCombo' :
          Cardinality({ k \in opened' : ParamsOf(k) = vecCombo'[c] }) \in Int
    BY <1>7
  <2> QED BY <2>1 DEF ProcessExclusions, ComboIds
<1>10. boundCount' \in [ComboIds' -> Nat]
  BY DEF ProcessExclusions, ComboIds
<1> QED BY <1>4, <1>6, <1>8, <1>9, <1>10
        DEF ProcessExclusions, TypeOK, input, rowState, Terminal

LEMMA FixRowSeedsType == TypeOK /\ FixRowSeeds => TypeOK'
<1> SUFFICES ASSUME TypeOK, FixRowSeeds PROVE TypeOK'
  OBVIOUS
<1> DEFINE known == KnownTerms(rowSeeds)
           keep  == { i \in DOMAIN known :
                        ~ Redundant(known, i) /\ ~ ViolatesAny(known[i], exclusions) }
<1>1. rowSeeds' \in Kept(known, keep)
  BY DEF FixRowSeeds, FixedSeeds
<1>2. DOMAIN known = 1 .. Len(rowSeeds) /\ Len(rowSeeds) \in Nat
  BY DEF KnownTerms, TypeOK
<1>3. keep \subseteq 1 .. Len(rowSeeds)
  BY <1>2
<1>4. keep \in SUBSET Nat /\ IsFiniteSet(keep)
  <2>1. IsFiniteSet(1 .. Len(rowSeeds))
    BY <1>2, FS_Interval
  <2> QED BY <1>3, <2>1, FS_Subset
<1>5. \A i \in keep : known[i] \in SUBSET Term
  BY DEF KnownTerms
<1>6. rowSeeds' \in Seq(SUBSET Term)
  <2> HIDE DEF keep, known
  <2> QED BY <1>1, <1>4, <1>5, KeptShape
<1>7. rowSeeds' \in Seq(SUBSET (Nat \X Nat))
  BY <1>6, TermShape, SeqMonotonic
<1>8. pc' \in {"returned", "top"} /\ total' \in Int
  BY DEF FixRowSeeds, TypeOK
<1> QED BY <1>6, <1>7, <1>8
        DEF FixRowSeeds, TypeOK, input, counters, rowState, Terminal, ComboIds, AllCells

LEMMA StartRowType == TypeOK /\ StartRow => TypeOK'
<1> SUFFICES ASSUME TypeOK, StartRow PROVE TypeOK'
  OBVIOUS
<1>1. rowSeeds \in Seq(SUBSET Term) /\ rowSeeds \in Seq(SUBSET (Nat \X Nat))
  BY DEF StartRow, AtTop, TypeOK
<1>2. /\ rowSeeds' \in Seq(SUBSET Term)
      /\ rowSeeds' \in Seq(SUBSET (Nat \X Nat))
      /\ pending' \subseteq Param
      /\ todo' \in Seq(Param \X Nat)
  <2>1. CASE rowSeeds = <<>>
    BY <1>1, <2>1 DEF StartRow, TakeSeed
  <2>2. CASE rowSeeds # <<>>
    <3>1. Head(rowSeeds) \subseteq Term
      BY <1>1, <2>2
    <3>2. todo' \in Seq(Head(rowSeeds))
      BY <2>2, <3>1, SubsetsOfTermFinite, AnyOrderShape DEF StartRow, TakeSeed
    <3>3. Term \subseteq Param \X Nat
      BY TermShape, ValuesFinite
    <3>4. todo' \in Seq(Param \X Nat)
      BY <3>1, <3>2, <3>3, SeqMonotonic
    <3>5. pending' \subseteq Param
      BY <2>2, <3>1, TermShape DEF StartRow, TakeSeed, ParamsOf
    <3>6. rowSeeds' = Tail(rowSeeds)
      BY <2>2 DEF StartRow, TakeSeed
    <3>7. rowSeeds' \in Seq(SUBSET Term) /\ rowSeeds' \in Seq(SUBSET (Nat \X Nat))
      BY <1>1, <2>2, <3>6, HeadTailProperties
    <3> QED BY <3>4, <3>5, <3>7
  <2> QED BY <2>1, <2>2
<1>3. boundCount' \in [ComboIds' -> Nat]
  BY DEF StartRow, ComboIds
<1>4. unbound' \in Int
  BY SubsetsOfParamFinite DEF StartRow
<1>5. pc' \in {"random", "row"} /\ row' = {} /\ worklist' = <<>>
  BY DEF StartRow
<1> QED BY <1>2, <1>3, <1>4, <1>5
        DEF StartRow, TypeOK, input, ComboIds, AllCells, Terminal

(* The steps that only leave the main loop, or a row. *)
LEMMA ExitType ==
  TypeOK /\ (EmptyExclusion \/ Cancel \/ AssertFails \/ NoChoice \/ NoValue \/ EndRow)
    => TypeOK'
<1> SUFFICES ASSUME TypeOK,
                    EmptyExclusion \/ Cancel \/ AssertFails \/ NoChoice \/ NoValue \/ EndRow
             PROVE  TypeOK'
  OBVIOUS
<1>1. UNCHANGED <<input, rowSeeds, vecCombo, excluded, counters, total,
                  rowState, results>>
  BY DEF EmptyExclusion, Cancel, AssertFails, NoChoice, NoValue, EndRow
<1>2. \/ pc' \in {"asserted", "cancelled", "failed"}
      \/ pc = "row" /\ pc' = "top"
  BY DEF EmptyExclusion, Cancel, AssertFails, NoChoice, NoValue, EndRow
<1> QED BY <1>1, <1>2
        DEF TypeOK, input, counters, rowState, ComboIds, AllCells, Terminal

LEMMA BindNextType == TypeOK /\ BindNext => TypeOK'
<1> SUFFICES ASSUME TypeOK, BindNext PROVE TypeOK'
  OBVIOUS
<1> DEFINE p == Head(todo)[1]
           v == Head(todo)[2]
<1>1. todo \in Seq(Param \X Nat) /\ todo # <<>> /\ worklist \in Seq(Param)
  BY DEF BindNext, TypeOK
<1>2. p \in Param /\ v \in Values(p)
  BY <1>1 DEF BindNext, Bindable
<1>3. Bind(p, v, worklist)
  BY DEF BindNext
<1>4. todo' \in Seq(Param \X Nat)
  BY <1>1 DEF BindNext
<1> HIDE DEF p, v
<1> QED BY <1>1, <1>2, <1>3, <1>4, BindType
        DEF BindNext, TypeOK, input, ComboIds, AllCells

LEMMA PickType == TypeOK /\ Pick => TypeOK'
<1> SUFFICES ASSUME TypeOK, Pick PROVE TypeOK'
  OBVIOUS
<1> DEFINE p == Head(worklist)
<1>1. worklist \in Seq(Param) /\ worklist # <<>>
  BY DEF Pick, Picking, TypeOK
<1>2. p \in Param /\ Tail(worklist) \in Seq(Param)
  BY <1>1
<1>3. PICK v \in Pickable(p) : Bindable(p, v) /\ Bind(p, v, Tail(worklist))
  BY DEF Pick
<1>4. v \in Values(p)
  BY <1>3 DEF Bindable
<1> HIDE DEF p
<1> QED BY <1>2, <1>3, <1>4, BindType
        DEF Pick, TypeOK, input, ComboIds, AllCells

(* Binding a cell queues one Bind for each unbound parameter of it. *)
LEMMA BindCellShape ==
  ASSUME TypeOK, NEW c \in ComboIds, NEW k \in SUBSET Term,
         ParamsOf(k) = vecCombo[c], BindCell(c, k)
  PROVE  /\ todo' \in Seq(Term)
         /\ \A i \in DOMAIN todo' : todo'[i][1] \in vecCombo[c] \ BoundParams
         /\ \A i, j \in DOMAIN todo' : todo'[i][1] = todo'[j][1] => i = j
<1> DEFINE free == vecCombo[c] \ BoundParams
           key  == [p \in free |-> IF c \in DOMAIN BaseCombos THEN Position[p] ELSE -p]
<1>1. PICK s \in Ordered(free, key) :
        todo' = [i \in DOMAIN s |-> CHOOSE t \in k : t[1] = s[i]]
  BY DEF BindCell
<1>2. vecCombo[c] \subseteq Param
  BY DEF TypeOK, ComboIds
<1>3. \A p \in free : key[p] \in Int
  <2> SUFFICES ASSUME NEW p \in free PROVE key[p] \in Int
    OBVIOUS
  <2>1. p \in Nat /\ Position[p] \in Nat
    BY <1>2, GcdAssumption, ParamAssumption
  <2> QED BY <2>1
<1>4. IsFiniteSet(free)
  BY <1>2, SubsetsOfParamFinite
<1> HIDE DEF free, key
<1>5. /\ s \in Seq(free)
      /\ DOMAIN s = 1 .. Cardinality(free)
      /\ Cardinality(free) \in Nat
      /\ \A i, j \in DOMAIN s : s[i] = s[j] => i = j
  BY <1>3, <1>4, OrderedShape, FS_CardinalityType
<1>6. \A i \in DOMAIN s : todo'[i] \in k /\ todo'[i][1] = s[i]
  <2> SUFFICES ASSUME NEW i \in DOMAIN s
               PROVE  \E t \in k : t[1] = s[i]
    BY <1>1
  <2>1. s[i] \in free
    BY <1>5
  <2>2. s[i] \in ParamsOf(k)
    BY <2>1 DEF free
  <2> QED BY <2>2 DEF ParamsOf
<1>7. DOMAIN todo' = DOMAIN s
  BY <1>1
<1>8. todo' \in Seq(Term)
  <2>1. todo' \in [1 .. Cardinality(free) -> Term]
    BY <1>1, <1>5, <1>6
  <2> QED BY <1>5, <2>1
<1>9. \A i \in DOMAIN todo' : todo'[i][1] \in free
  BY <1>5, <1>6, <1>7
<1>10. \A i, j \in DOMAIN todo' : todo'[i][1] = todo'[j][1] => i = j
  BY <1>5, <1>6, <1>7
<1> QED BY <1>8, <1>9, <1>10 DEF free

(* What is chosen is a cell of the chosen combination. *)
LEMMA ChosenCell ==
  ASSUME TypeOK, NEW c \in ComboIds, NEW k \in OpenCells(c) \cup CoveredCells(c)
  PROVE  k \in SUBSET Term /\ ParamsOf(k) = vecCombo[c]
<1>1. vecCombo \in Seq(SUBSET Param) /\ vecCombo[c] \in SUBSET Param
  BY DEF TypeOK, ComboIds
<1>2. CASE k \in OpenCells(c)
  BY <1>1, <1>2, CellsOfCombos DEF OpenCells, Agreeing, TypeOK
<1>3. CASE k \in CoveredCells(c)
  BY <1>1, <1>3, CellShape DEF CoveredCells, Agreeing
<1> QED BY <1>2, <1>3

LEMMA ChooseShape ==
  ASSUME TypeOK, ChooseOpen \/ ChooseCovered
  PROVE  \E c \in ComboIds : \E k \in SUBSET Term :
            ParamsOf(k) = vecCombo[c] /\ BindCell(c, k) /\ Choosing
<1>1. CASE ChooseOpen
  BY <1>1, ChosenCell DEF ChooseOpen, MostOf, Selectable
<1>2. CASE ChooseCovered
  BY <1>2, ChosenCell DEF ChooseCovered, MostOf, Selectable
<1> QED BY <1>1, <1>2

LEMMA ChooseType == TypeOK /\ (ChooseOpen \/ ChooseCovered) => TypeOK'
<1> SUFFICES ASSUME TypeOK, ChooseOpen \/ ChooseCovered PROVE TypeOK'
  OBVIOUS
<1>1. PICK c \in ComboIds : \E k \in SUBSET Term :
        ParamsOf(k) = vecCombo[c] /\ BindCell(c, k)
  BY ChooseShape
<1>2. PICK k \in SUBSET Term : ParamsOf(k) = vecCombo[c] /\ BindCell(c, k)
  BY <1>1
<1>3. todo' \in Seq(Param \X Nat)
  <2>1. Term \subseteq Param \X Nat
    BY TermShape, ValuesFinite
  <2> QED BY <1>2, <2>1, BindCellShape, SeqMonotonic
<1>4. pending' \subseteq Param
  BY <1>2 DEF BindCell, TypeOK, ComboIds
<1> QED BY <1>2, <1>3, <1>4
        DEF BindCell, TypeOK, input, counters, ComboIds, AllCells

LEMMA DrawRowType == TypeOK /\ DrawRow => TypeOK'
<1> SUFFICES ASSUME TypeOK, DrawRow PROVE TypeOK'
  OBVIOUS
<1>1. PICK r \in RandomRows : todo' \in Ordered(r, [t \in r |-> t[1]])
  BY DEF DrawRow
<1>2. PICK f \in [Param -> UNION { RandomValues(p) : p \in Param }] :
        /\ \A p \in Param : f[p] \in RandomValues(p)
        /\ r = { <<p, f[p]>> : p \in Param }
  BY DEF RandomRows
<1>3. \A p \in Param : f[p] \in Nat
  <2> SUFFICES ASSUME NEW p \in Param PROVE f[p] \in Nat
    OBVIOUS
  <2>1. ValueCount[p] \in Nat
    BY ParamAssumption
  <2> QED BY <1>2, <2>1 DEF RandomValues
<1>4. r \subseteq Param \X Nat
  BY <1>2, <1>3
<1>5. IsFiniteSet(r)
  <2>1. [p \in Param |-> <<p, f[p]>>] \in Surjection(Param, r)
    BY <1>2 DEF Surjection
  <2> QED BY <2>1, ParamAssumption, FS_Surjection
<1>6. \A t \in r : [u \in r |-> u[1]][t] \in Int
  <2> SUFFICES ASSUME NEW t \in r PROVE t[1] \in Int
    OBVIOUS
  <2>1. t \in Param \X Nat
    BY <1>4
  <2>2. t[1] \in Param
    BY <2>1
  <2>3. Param \subseteq Int
    BY ParamAssumption
  <2> QED BY <2>2, <2>3
<1>7. todo' \in Seq(Param \X Nat)
  BY <1>1, <1>4, <1>5, <1>6, OrderedShape, SeqMonotonic
<1> QED BY <1>7
        DEF DrawRow, TypeOK, input, counters, ComboIds, AllCells

LEMMA MoveResultsType == TypeOK /\ MoveResults => TypeOK'
<1> SUFFICES ASSUME TypeOK, MoveResults PROVE TypeOK'
  OBVIOUS
<1>1. UNCHANGED <<input, rowSeeds, vecCombo, excluded, counters, total, rowState>>
  BY DEF MoveResults
<1>2. /\ pc' \in {"done", "asserted"}
      /\ DOMAIN results' \subseteq Nat
      /\ \A n \in DOMAIN results' : results'[n] \subseteq Term
  <2>1. CASE ~ ColumnsAligned
    BY <2>1 DEF MoveResults, TypeOK
  <2>2. CASE ColumnsAligned
    <3> DEFINE first == CHOOSE p \in Param : TRUE
    <3>1. first \in Param
      BY ParamAssumption
    <3> HIDE DEF first
    <3>2. DOMAIN SuiteRows = 1 .. Len(columns[first]) /\ Len(columns[first]) \in Nat
      BY <3>1 DEF SuiteRows, first, TypeOK
    <3>3. ASSUME NEW n \in DOMAIN SuiteRows PROVE SuiteRows[n] \subseteq Term
      <4> SUFFICES ASSUME NEW p \in Param PROVE <<p, columns[p][n]>> \in Term
        BY <3>2, <3>3 DEF SuiteRows, first
      <4>1. n \in 1 .. Len(columns[p]) /\ columns[p] \in Seq(Values(p))
        BY <2>2, <3>1, <3>2 DEF ColumnsAligned, TypeOK
      <4>2. columns[p][n] \in Values(p)
        BY <4>1
      <4> QED BY <4>2, TermShape
    <3>4. /\ pc' = "done"
          /\ results' = [n \in { m \in DOMAIN SuiteRows : KeepRow(SuiteRows[m]) }
                           |-> SuiteRows[n]]
      BY <2>2 DEF MoveResults
    <3> QED BY <3>2, <3>3, <3>4
  <2> QED BY <2>1, <2>2
<1> QED BY <1>1, <1>2
        DEF TypeOK, input, counters, rowState, ComboIds, AllCells, Terminal

LEMMA StutterType == TypeOK /\ UNCHANGED vars => TypeOK'
BY DEF TypeOK, vars, ComboIds, AllCells

LEMMA TypeStep == TypeOK /\ [Next]_vars => TypeOK'
<1> SUFFICES ASSUME TypeOK, [Next]_vars PROVE TypeOK'
  OBVIOUS
<1>1. CASE ProcessExclusions                        BY <1>1, ProcessExclusionsType
<1>2. CASE EmptyExclusion \/ Cancel \/ AssertFails \/ NoChoice \/ NoValue \/ EndRow
                                                    BY <1>2, ExitType
<1>3. CASE FixRowSeeds                              BY <1>3, FixRowSeedsType
<1>4. CASE StartRow                                 BY <1>4, StartRowType
<1>5. CASE BindNext                                 BY <1>5, BindNextType
<1>6. CASE ChooseOpen \/ ChooseCovered              BY <1>6, ChooseType
<1>7. CASE Pick                                     BY <1>7, PickType
<1>8. CASE DrawRow                                  BY <1>8, DrawRowType
<1>9. CASE GiveUp \/ Finish                         BY <1>9, MoveResultsType DEF GiveUp, Finish
<1>10. CASE UNCHANGED vars                          BY <1>10, StutterType
<1> QED BY <1>1, <1>2, <1>3, <1>4, <1>5, <1>6, <1>7, <1>8, <1>9, <1>10 DEF Next, Step

(* Every state of every call is well typed, in every mode and whatever the *)
(* exclusions and the seeds: rows and results are made of terms of the     *)
(* model, and no column holds a value its parameter does not have.         *)
THEOREM TypeCorrect == Spec => []TypeOK
BY InitType, TypeStep, PTL DEF Spec

-----------------------------------------------------------------------------
(***************************************************************************)
(* The assert()s on bindings, the work list and the result columns cannot  *)
(* fire in Regular and Preview mode, for every model, order, exclusion set *)
(* and seed list.                                                          *)
(***************************************************************************)

(* What the caller must see to: no exclusion without terms, and no seed    *)
(* that gives one parameter two values (RowSeed is a set of pairs).        *)
SoundInput ==
  /\ Mode # "Approximate"
  /\ \A E \in ExclusionChoices : {} \notin E
  /\ \A s \in SeedChoices : \A i \in DOMAIN s : Consistent(s[i])

Running == {"start", "seeds", "top", "row"}

(* All columns end with the row under construction or just before it.      *)
ColumnsInStep ==
  \E n \in Nat : \A p \in Param :
    Len(columns[p]) = IF pc = "row" /\ p \in BoundParams THEN n + 1 ELSE n

BindInv ==
  /\ BindingDiscipline
  /\ pc = "row" => unbound = Cardinality(Param \ BoundParams)
  /\ pc \in Running => ColumnsInStep
  /\ pc \in Running => \A i \in DOMAIN rowSeeds : Consistent(rowSeeds[i])
  /\ pc \notin {"random", "drawn", "asserted"}

-----------------------------------------------------------------------------
LEMMA InitBind == ASSUME SoundInput PROVE Init => BindInv
<1> SUFFICES ASSUME Init PROVE BindInv
  OBVIOUS
<1>1. ColumnsInStep
  <2>1. \A p \in Param : Len(columns[p]) = 0
    BY DEF Init
  <2> QED BY <2>1 DEF ColumnsInStep, Init
<1>2. \A i \in DOMAIN rowSeeds : Consistent(rowSeeds[i])
  BY DEF Init, SoundInput
<1> QED BY <1>1, <1>2 DEF Init, BindInv, BindingDiscipline

LEMMA ParamsOfAdd ==
  ASSUME NEW S, NEW p, NEW v
  PROVE  ParamsOf(S \cup {<<p, v>>}) = ParamsOf(S) \cup {p}
<1>1. \A q \in ParamsOf(S \cup {<<p, v>>}) : q \in ParamsOf(S) \cup {p}
  BY DEF ParamsOf
<1>2. \A q \in ParamsOf(S) : q \in ParamsOf(S \cup {<<p, v>>})
  BY DEF ParamsOf
<1>3. p \in ParamsOf(S \cup {<<p, v>>})
  <2>1. <<p, v>> \in S \cup {<<p, v>>} /\ <<p, v>>[1] = p
    OBVIOUS
  <2> QED BY <2>1 DEF ParamsOf
<1> QED BY <1>1, <1>2, <1>3

(* What one Parameter::Bind does to the lists of the row.                  *)
LEMMA BindEffect ==
  ASSUME TypeOK, pc = "row", BindInv, pc' = "row",
         NEW p \in Param, NEW v \in Values(p), p \in pending \ BoundParams,
         NEW queue \in Seq(Param), Bind(p, v, queue),
         \A i \in DOMAIN queue : queue[i] \in pending \ BoundParams /\ queue[i] # p,
         \A i, j \in DOMAIN queue : queue[i] = queue[j] => i = j
  PROVE  /\ BoundParams' = BoundParams \cup {p}
         /\ BoundParams' \subseteq pending'
         /\ pending \subseteq pending'
         /\ unbound' = Cardinality(Param \ BoundParams')
         /\ ColumnsInStep'
         /\ \A i \in DOMAIN worklist' :
              /\ worklist'[i] \in pending' \ BoundParams'
              /\ \/ \E j \in DOMAIN queue : worklist'[i] = queue[j]
                 \/ worklist'[i] \notin pending
         /\ \A i, j \in DOMAIN worklist' : worklist'[i] = worklist'[j] => i = j
<1>1. /\ row' = row \cup {<<p, v>>}
      /\ columns' = [columns EXCEPT ![p] = Append(@, v)]
      /\ unbound' = unbound - 1
      /\ pending' = pending \cup Fresh(p)
      /\ \E s \in AnyOrder(Fresh(p)) : worklist' = queue \o s
  BY DEF Bind
<1>2. ParamsOf(row \cup {<<p, v>>}) = BoundParams \cup {p}
  BY ParamsOfAdd DEF BoundParams
<1>3. BoundParams' = BoundParams \cup {p}
  BY <1>1, <1>2 DEF BoundParams
<1>4. Fresh(p) \subseteq Param /\ Fresh(p) \cap pending = {} /\ Fresh(p) \cap BoundParams' = {}
  BY <1>3 DEF Fresh, LastIn
<1>5. BoundParams' \subseteq pending' /\ pending \subseteq pending' /\ Fresh(p) \subseteq pending'
  BY <1>1, <1>3 DEF BindInv, BindingDiscipline
<1>6. unbound' = Cardinality(Param \ BoundParams')
  <2>1. IsFiniteSet(Param \ BoundParams) /\ Cardinality(Param \ BoundParams) \in Nat
    BY SubsetsOfParamFinite
  <2>2. Param \ BoundParams' = (Param \ BoundParams) \ {p}
    BY <1>3
  <2>3. p \in Param \ BoundParams
    OBVIOUS
  <2>4. Cardinality((Param \ BoundParams) \ {p}) = Cardinality(Param \ BoundParams) - 1
    BY <2>1, <2>3, FS_RemoveElement
  <2> QED BY <1>1, <2>2, <2>4 DEF BindInv
<1>7. ColumnsInStep'
  <2>1. PICK n \in Nat : \A q \in Param :
          Len(columns[q]) = IF q \in BoundParams THEN n + 1 ELSE n
    BY DEF BindInv, ColumnsInStep, Running
  <2>2. \A q \in Param : Len(columns'[q]) = IF q \in BoundParams' THEN n + 1 ELSE n
    <3> SUFFICES ASSUME NEW q \in Param
                 PROVE  Len(columns'[q]) = IF q \in BoundParams' THEN n + 1 ELSE n
      OBVIOUS
    <3>1. CASE q = p
      <4>1. columns[p] \in Seq(Values(p)) /\ columns'[p] = Append(columns[p], v)
        BY <1>1 DEF TypeOK
      <4> QED BY <1>3, <2>1, <3>1, <4>1
    <3>2. CASE q # p
      BY <1>1, <1>3, <2>1, <3>2 DEF TypeOK
    <3> QED BY <3>1, <3>2
  <2> QED BY <2>2 DEF ColumnsInStep
<1>8. PICK s \in AnyOrder(Fresh(p)) : worklist' = queue \o s
  BY <1>1
<1>9. /\ s \in Seq(Param)
      /\ \A i \in DOMAIN s : s[i] \in Fresh(p)
      /\ \A i, j \in DOMAIN s : s[i] = s[j] => i = j
  BY <1>4, SubsetsOfParamFinite, AnyOrderShape, SeqMonotonic
<1>10. \A i \in DOMAIN worklist' :
         \/ i \in DOMAIN queue /\ worklist'[i] = queue[i]
         \/ /\ i \notin DOMAIN queue
            /\ i - Len(queue) \in DOMAIN s /\ worklist'[i] = s[i - Len(queue)]
  BY <1>8, <1>9
<1>11. \A i \in DOMAIN worklist' :
         /\ worklist'[i] \in pending' \ BoundParams'
         /\ \/ \E j \in DOMAIN queue : worklist'[i] = queue[j]
            \/ worklist'[i] \notin pending
  BY <1>3, <1>4, <1>5, <1>9, <1>10
<1>12. \A i, j \in DOMAIN worklist' : worklist'[i] = worklist'[j] => i = j
  <2> SUFFICES ASSUME NEW i \in DOMAIN worklist', NEW j \in DOMAIN worklist',
                      worklist'[i] = worklist'[j]
               PROVE  i = j
    OBVIOUS
  <2>1. CASE i \in DOMAIN queue /\ j \in DOMAIN queue
    BY <1>10, <2>1
  <2>2. CASE i \notin DOMAIN queue /\ j \notin DOMAIN queue
    <3>1. i \in Int /\ j \in Int /\ Len(queue) \in Int
      BY <1>8, <1>9
    <3>2. i - Len(queue) = j - Len(queue)
      BY <1>9, <1>10, <2>2
    <3> QED BY <3>1, <3>2
  <2>3. CASE i \in DOMAIN queue <=> j \notin DOMAIN queue
    BY <1>4, <1>9, <1>10, <2>3
  <2> QED BY <2>1, <2>2, <2>3
<1> QED BY <1>3, <1>5, <1>6, <1>7, <1>11, <1>12

LEMMA BindNextKeeps == TypeOK /\ BindInv /\ BindNext => BindInv'
<1> SUFFICES ASSUME TypeOK, BindInv, BindNext PROVE BindInv'
  OBVIOUS
<1> DEFINE p == Head(todo)[1]
           v == Head(todo)[2]
<1>1. /\ pc = "row" /\ pc' = "row"
      /\ todo \in Seq(Param \X Nat) /\ todo # <<>> /\ worklist \in Seq(Param)
  BY DEF BindNext, TypeOK, BindInv
<1>2. Head(todo) = todo[1] /\ 1 \in DOMAIN todo
  BY <1>1
<1>3. p \in Param /\ v \in Values(p) /\ p \in pending \ BoundParams
  BY <1>1, <1>2 DEF BindNext, Bindable, BindInv, BindingDiscipline
<1>4. Bind(p, v, worklist) /\ todo' = Tail(todo) /\ rowSeeds' = rowSeeds
  BY DEF BindNext
<1>5. \A i \in DOMAIN todo' : i + 1 \in DOMAIN todo /\ todo'[i] = todo[i + 1] /\ i + 1 # 1
  BY <1>1, <1>4
<1>6. /\ \A i \in DOMAIN worklist : worklist[i] \in pending \ BoundParams /\ worklist[i] # p
      /\ \A i, j \in DOMAIN worklist : worklist[i] = worklist[j] => i = j
  BY <1>1, <1>2 DEF BindInv, BindingDiscipline
<1>7. \A i \in DOMAIN todo' : /\ todo'[i] \in Term
                              /\ todo'[i][1] \in pending \ BoundParams
                              /\ todo'[i][1] # p
  BY <1>1, <1>2, <1>5 DEF BindInv, BindingDiscipline
<1> HIDE DEF p, v
<1>8. /\ BoundParams' = BoundParams \cup {p}
      /\ BoundParams' \subseteq pending'
      /\ pending \subseteq pending'
      /\ unbound' = Cardinality(Param \ BoundParams')
      /\ ColumnsInStep'
      /\ \A i \in DOMAIN worklist' :
           /\ worklist'[i] \in pending' \ BoundParams'
           /\ \/ \E j \in DOMAIN worklist : worklist'[i] = worklist[j]
              \/ worklist'[i] \notin pending
      /\ \A i, j \in DOMAIN worklist' : worklist'[i] = worklist'[j] => i = j
  BY <1>1, <1>3, <1>4, <1>6, BindEffect
<1>9. \A i \in DOMAIN worklist', j \in DOMAIN todo' : worklist'[i] # todo'[j][1]
  <2>1. \A i \in DOMAIN worklist, j \in DOMAIN todo' : worklist[i] # todo'[j][1]
    BY <1>1, <1>5 DEF BindInv, BindingDiscipline
  <2> QED BY <1>7, <1>8, <2>1
<1>10. \A i, j \in DOMAIN todo' : todo'[i][1] = todo'[j][1] => i = j
  <2> SUFFICES ASSUME NEW i \in DOMAIN todo', NEW j \in DOMAIN todo',
                      todo'[i][1] = todo'[j][1]
               PROVE  i = j
    OBVIOUS
  <2>1. i + 1 = j + 1
    BY <1>1, <1>5 DEF BindInv, BindingDiscipline
  <2>2. i \in Int /\ j \in Int
    BY <1>1, <1>4
  <2> QED BY <2>1, <2>2
<1>11. BindingDiscipline'
  BY <1>7, <1>8, <1>9, <1>10 DEF BindingDiscipline
<1> QED BY <1>1, <1>4, <1>8, <1>11 DEF BindInv, Running

LEMMA PickKeeps == TypeOK /\ BindInv /\ Pick => BindInv'
<1> SUFFICES ASSUME TypeOK, BindInv, Pick PROVE BindInv'
  OBVIOUS
<1> DEFINE p     == Head(worklist)
           queue == Tail(worklist)
<1>1. /\ pc = "row" /\ pc' = "row" /\ todo' = <<>>
      /\ worklist \in Seq(Param) /\ worklist # <<>> /\ rowSeeds' = rowSeeds
  BY DEF Pick, Picking, TypeOK
<1>2. PICK v \in Pickable(p) : Bindable(p, v) /\ Bind(p, v, queue)
  BY DEF Pick
<1>3. p = worklist[1] /\ 1 \in DOMAIN worklist /\ queue \in Seq(Param)
  BY <1>1
<1>4. p \in Param /\ v \in Values(p) /\ p \in pending \ BoundParams
  BY <1>1, <1>2, <1>3 DEF Bindable, BindInv, BindingDiscipline
<1>5. \A i \in DOMAIN queue : /\ i \in Int
                              /\ i + 1 \in DOMAIN worklist /\ i + 1 # 1
                              /\ queue[i] = worklist[i + 1]
  BY <1>1
<1>6. \A i \in DOMAIN queue : queue[i] \in pending \ BoundParams /\ queue[i] # p
  BY <1>1, <1>3, <1>5 DEF BindInv, BindingDiscipline
<1>7. \A i, j \in DOMAIN queue : queue[i] = queue[j] => i = j
  <2> SUFFICES ASSUME NEW i \in DOMAIN queue, NEW j \in DOMAIN queue,
                      queue[i] = queue[j]
               PROVE  i = j
    OBVIOUS
  <2>1. i + 1 = j + 1
    BY <1>1, <1>5 DEF BindInv, BindingDiscipline
  <2> QED BY <1>5, <2>1
<1> HIDE DEF p, queue
<1>8. /\ BoundParams' \subseteq pending'
      /\ unbound' = Cardinality(Param \ BoundParams')
      /\ ColumnsInStep'
      /\ \A i \in DOMAIN worklist' : worklist'[i] \in pending' \ BoundParams'
      /\ \A i, j \in DOMAIN worklist' : worklist'[i] = worklist'[j] => i = j
  BY <1>1, <1>2, <1>3, <1>4, <1>6, <1>7, BindEffect
<1>9. BindingDiscipline'
  BY <1>1, <1>8 DEF BindingDiscipline
<1> QED BY <1>1, <1>8, <1>9 DEF BindInv, Running

LEMMA FixRowSeedsKeeps == TypeOK /\ BindInv /\ FixRowSeeds => BindInv'
<1> SUFFICES ASSUME TypeOK, BindInv, FixRowSeeds PROVE BindInv'
  OBVIOUS
<1> DEFINE known == KnownTerms(rowSeeds)
           keep  == { i \in DOMAIN known :
                        ~ Redundant(known, i) /\ ~ ViolatesAny(known[i], exclusions) }
<1>1. rowSeeds' \in Kept(known, keep) /\ pc = "seeds" /\ pc' \in {"returned", "top"}
  BY DEF FixRowSeeds, FixedSeeds
<1>2. keep \in SUBSET Nat /\ IsFiniteSet(keep)
  <2>1. DOMAIN known = 1 .. Len(rowSeeds) /\ Len(rowSeeds) \in Nat
    BY DEF KnownTerms, TypeOK
  <2>2. IsFiniteSet(1 .. Len(rowSeeds))
    BY <2>1, FS_Interval
  <2>3. keep \subseteq 1 .. Len(rowSeeds)
    BY <2>1
  <2> QED BY <2>2, <2>3, FS_Subset
<1>3. \A i \in keep : Consistent(known[i])
  <2> SUFFICES ASSUME NEW i \in DOMAIN rowSeeds PROVE Consistent(rowSeeds[i] \cap Term)
    BY DEF KnownTerms
  <2> QED BY <1>1 DEF BindInv, Running, Consistent
<1> DEFINE Seeds == SUBSET Term
<1>4. \A i \in keep : known[i] \in Seeds
  BY DEF KnownTerms
<1> HIDE DEF keep, known, Seeds
<1>5. /\ rowSeeds' \in Seq(Seeds)
      /\ \A n \in DOMAIN rowSeeds' : \E i \in keep : rowSeeds'[n] = known[i]
  <2> SUFFICES ASSUME NEW kept \in Kept(known, keep)
               PROVE  /\ kept \in Seq(Seeds)
                      /\ \A n \in DOMAIN kept : \E i \in keep : kept[n] = known[i]
    BY <1>1
  <2> QED BY <1>2, <1>4, KeptShape
<1>6. \A n \in DOMAIN rowSeeds' : Consistent(rowSeeds'[n])
  BY <1>3, <1>5
<1>7. ColumnsInStep'
  BY <1>1 DEF BindInv, Running, ColumnsInStep, FixRowSeeds, rowState
<1> QED BY <1>1, <1>6, <1>7 DEF BindInv, BindingDiscipline, Running

LEMMA StartRowKeeps ==
  ASSUME SoundInput PROVE TypeOK /\ BindInv /\ StartRow => BindInv'
<1> SUFFICES ASSUME TypeOK, BindInv, StartRow PROVE BindInv'
  OBVIOUS
<1>1. /\ pc = "top" /\ pc' = "row" /\ row' = {} /\ worklist' = <<>>
      /\ unbound' = Cardinality(Param) /\ columns' = columns
      /\ rowSeeds \in Seq(SUBSET Term)
  BY DEF StartRow, AtTop, BindInv, SoundInput, TypeOK
<1>2. BoundParams' = {}
  BY <1>1 DEF BoundParams, ParamsOf
<1>3. ColumnsInStep'
  BY <1>1, <1>2 DEF BindInv, Running, ColumnsInStep
<1>4. unbound' = Cardinality(Param \ BoundParams')
  <2>1. Param \ {} = Param
    OBVIOUS
  <2> QED BY <1>1, <1>2, <2>1
<1>5. CASE rowSeeds = <<>>
  <2>1. todo' = <<>> /\ rowSeeds' = rowSeeds
    BY <1>5 DEF StartRow, TakeSeed
  <2> QED BY <1>1, <1>2, <1>3, <1>4, <2>1 DEF BindInv, BindingDiscipline, Running
<1>6. CASE rowSeeds # <<>>
  <2> DEFINE seed == Head(rowSeeds)
  <2>1. /\ seed = rowSeeds[1] /\ 1 \in DOMAIN rowSeeds /\ seed \subseteq Term
        /\ \A i \in DOMAIN Tail(rowSeeds) :
             i + 1 \in DOMAIN rowSeeds /\ Tail(rowSeeds)[i] = rowSeeds[i + 1]
    BY <1>1, <1>6
  <2>2. Consistent(seed)
    BY <1>1, <2>1 DEF BindInv, Running
  <2>3. pending' = ParamsOf(seed) /\ todo' \in AnyOrder(seed) /\ rowSeeds' = Tail(rowSeeds)
    BY <1>6 DEF StartRow, TakeSeed
  <2> HIDE DEF seed
  <2>4. /\ todo' \in Seq(seed)
        /\ \A i, j \in DOMAIN todo' : todo'[i] = todo'[j] => i = j
    BY <2>1, <2>3, SubsetsOfTermFinite, AnyOrderShape
  <2>5. \A i \in DOMAIN todo' : todo'[i] \in seed
    BY <2>4
  <2>6. \A i \in DOMAIN todo' : todo'[i] \in Term /\ todo'[i][1] \in pending'
    BY <2>1, <2>3, <2>5 DEF ParamsOf
  <2>7. \A i, j \in DOMAIN todo' : todo'[i][1] = todo'[j][1] => i = j
    BY <2>2, <2>4, <2>5 DEF Consistent
  <2>8. BindingDiscipline'
    BY <1>1, <1>2, <2>6, <2>7 DEF BindingDiscipline
  <2>9. \A i \in DOMAIN rowSeeds' : Consistent(rowSeeds'[i])
    BY <1>1, <2>1, <2>3 DEF BindInv, Running
  <2> QED BY <1>1, <1>3, <1>4, <2>8, <2>9 DEF BindInv, Running
<1> QED BY <1>5, <1>6

LEMMA ChooseKeeps ==
  TypeOK /\ BindInv /\ (ChooseOpen \/ ChooseCovered) => BindInv'
<1> SUFFICES ASSUME TypeOK, BindInv, ChooseOpen \/ ChooseCovered PROVE BindInv'
  OBVIOUS
<1>1. PICK c \in ComboIds : \E k \in SUBSET Term :
        ParamsOf(k) = vecCombo[c] /\ BindCell(c, k) /\ Choosing
  BY ChooseShape
<1>2. PICK k \in SUBSET Term : ParamsOf(k) = vecCombo[c] /\ BindCell(c, k) /\ Choosing
  BY <1>1
<1>3. /\ todo' \in Seq(Term)
      /\ \A i \in DOMAIN todo' : todo'[i][1] \in vecCombo[c] \ BoundParams
      /\ \A i, j \in DOMAIN todo' : todo'[i][1] = todo'[j][1] => i = j
  BY <1>2, BindCellShape
<1>4. /\ pc = "row" /\ pc' = "row" /\ worklist' = <<>> /\ row' = row
      /\ pending' = pending \cup vecCombo[c]
      /\ unbound' = unbound /\ columns' = columns /\ rowSeeds' = rowSeeds
  BY <1>2 DEF BindCell, Choosing, counters
<1>5. BoundParams' = BoundParams
  BY <1>4 DEF BoundParams
<1>6. \A i \in DOMAIN todo' : todo'[i] \in Term
  BY <1>3
<1>7. BindingDiscipline'
  BY <1>3, <1>4, <1>5, <1>6 DEF BindInv, BindingDiscipline
<1> QED BY <1>4, <1>5, <1>7 DEF BindInv, ColumnsInStep, Running

(* Every bound parameter is in Param, so a row without unbound parameters  *)
(* is complete, and the columns are level again.                           *)
LEMMA EndRowKeeps == TypeOK /\ BindInv /\ EndRow => BindInv'
<1> SUFFICES ASSUME TypeOK, BindInv, EndRow PROVE BindInv'
  OBVIOUS
<1>1. /\ pc = "row" /\ pc' = "top" /\ unbound <= 0
      /\ columns' = columns /\ rowSeeds' = rowSeeds
  BY DEF EndRow, rowState
<1>2. Param \ BoundParams = {}
  <2>1. /\ IsFiniteSet(Param \ BoundParams)
        /\ Cardinality(Param \ BoundParams) \in Nat
    BY SubsetsOfParamFinite
  <2>2. Cardinality(Param \ BoundParams) = 0
    BY <1>1, <2>1 DEF BindInv
  <2> QED BY <2>1, <2>2, FS_EmptySet
<1>3. ColumnsInStep'
  <2>1. PICK n \in Nat : \A p \in Param :
          Len(columns[p]) = IF p \in BoundParams THEN n + 1 ELSE n
    BY <1>1 DEF BindInv, ColumnsInStep, Running
  <2>2. \A p \in Param : Len(columns'[p]) = n + 1
    BY <1>1, <1>2, <2>1
  <2> QED BY <1>1, <2>2 DEF ColumnsInStep
<1> QED BY <1>1, <1>3 DEF BindInv, BindingDiscipline, Running

LEMMA ExitKeeps ==
  ASSUME SoundInput
  PROVE  TypeOK /\ BindInv /\ (EmptyExclusion \/ Cancel \/ NoChoice \/ NoValue)
           => BindInv'
<1> SUFFICES ASSUME TypeOK, BindInv, EmptyExclusion \/ Cancel \/ NoChoice \/ NoValue
             PROVE  BindInv'
  OBVIOUS
<1>1. ~ EmptyExclusion
  BY DEF EmptyExclusion, SoundInput, TypeOK
<1>2. pc' \in {"cancelled", "failed"}
  BY <1>1 DEF Cancel, NoChoice, NoValue
<1> QED BY <1>2 DEF BindInv, BindingDiscipline, Running

(* The step that would end in an assert() is never enabled.                *)
LEMMA AssertDisabled == TypeOK /\ BindInv => ~ AssertFails
<1> SUFFICES ASSUME TypeOK, BindInv, AssertFails PROVE FALSE
  OBVIOUS
<1>1. pc = "row" /\ Doomed
  BY DEF AssertFails, BindInv
<1>2. CASE todo # <<>>
  <2>1. Head(todo) = todo[1] /\ 1 \in DOMAIN todo
    BY <1>2 DEF TypeOK
  <2>2. Head(todo) \in Term /\ Head(todo)[1] \notin BoundParams
    BY <1>1, <2>1 DEF BindInv, BindingDiscipline
  <2> QED BY <1>1, <1>2, <2>2, TermShape DEF Doomed, Bindable
<1>3. CASE todo = <<>>
  <2>1. worklist # <<>> /\ Head(worklist) \in BoundParams
    BY <1>1, <1>3 DEF Doomed, Picking
  <2>2. Head(worklist) = worklist[1] /\ 1 \in DOMAIN worklist
    BY <2>1 DEF TypeOK
  <2> QED BY <1>1, <2>1, <2>2 DEF BindInv, BindingDiscipline
<1> QED BY <1>2, <1>3

LEMMA FinishKeeps ==
  ASSUME SoundInput
  PROVE  TypeOK /\ BindInv /\ (Finish \/ GiveUp) => BindInv'
<1> SUFFICES ASSUME TypeOK, BindInv, Finish \/ GiveUp PROVE BindInv'
  OBVIOUS
<1>1. pc = "top" /\ MoveResults
  BY DEF Finish, GiveUp, AtTop, BindInv
<1>2. ColumnsAligned
  <2>1. PICK n \in Nat : \A p \in Param : Len(columns[p]) = n
    BY <1>1 DEF BindInv, ColumnsInStep, Running
  <2> QED BY <2>1 DEF ColumnsAligned
<1>3. pc' = "done"
  BY <1>1, <1>2 DEF MoveResults
<1> QED BY <1>3 DEF BindInv, BindingDiscipline, Running

LEMMA ProcessExclusionsKeeps == BindInv /\ ProcessExclusions => BindInv'
BY DEF ProcessExclusions, BindInv, BindingDiscipline, Running, ColumnsInStep,
       BoundParams, rowState

LEMMA StutterKeeps == BindInv /\ UNCHANGED vars => BindInv'
BY DEF vars, BindInv, BindingDiscipline, Running, ColumnsInStep, BoundParams

LEMMA BindStep ==
  ASSUME SoundInput PROVE TypeOK /\ BindInv /\ [Next]_vars => BindInv'
<1> SUFFICES ASSUME TypeOK, BindInv, [Next]_vars PROVE BindInv'
  OBVIOUS
<1>1. CASE ProcessExclusions           BY <1>1, ProcessExclusionsKeeps
<1>2. CASE EmptyExclusion \/ Cancel \/ NoChoice \/ NoValue
                                       BY <1>2, ExitKeeps
<1>3. CASE FixRowSeeds                 BY <1>3, FixRowSeedsKeeps
<1>4. CASE StartRow                    BY <1>4, StartRowKeeps
<1>5. CASE BindNext                    BY <1>5, BindNextKeeps
<1>6. CASE AssertFails                 BY <1>6, AssertDisabled
<1>7. CASE ChooseOpen \/ ChooseCovered BY <1>7, ChooseKeeps
<1>8. CASE Pick                        BY <1>8, PickKeeps
<1>9. CASE EndRow                      BY <1>9, EndRowKeeps
<1>10. CASE DrawRow                    BY <1>10 DEF DrawRow, BindInv
<1>11. CASE GiveUp \/ Finish           BY <1>11, FinishKeeps
<1>12. CASE UNCHANGED vars             BY <1>12, StutterKeeps
<1> QED
  BY <1>1, <1>2, <1>3, <1>4, <1>5, <1>6, <1>7, <1>8, <1>9, <1>10, <1>11, <1>12
     DEF Next, Step

(* A parameter of the row under construction is bound, about to be bound   *)
(* or queued, and never two of these.                                      *)
THEOREM BindingIsDisciplined ==
  ASSUME SoundInput PROVE Spec => []BindingDiscipline
<1>1. BindInv => BindingDiscipline
  BY DEF BindInv
<1> QED BY <1>1, InitBind, BindStep, TypeCorrect, PTL DEF Spec

(* No assert() on a binding, the work list or the result columns fires,    *)
(* whatever rand() and the abort callback return, for any model and any    *)
(* exclusions and seeds a caller may soundly give (SoundInput), in Regular *)
(* and in Preview mode.                                                    *)
THEOREM NoAssertFires ==
  ASSUME SoundInput PROVE Spec => []AssertionsHold
<1>1. BindInv => AssertionsHold
  BY DEF BindInv, AssertionsHold
<1> QED BY <1>1, InitBind, BindStep, TypeCorrect, PTL DEF Spec

-----------------------------------------------------------------------------
(* Counters and coverage *)

(* The open entries of combination c.                                      *)
OpenOf(c) == { k \in opened : ParamsOf(k) = vecCombo[c] }

Distinct == \A c, d \in ComboIds : vecCombo[c] = vecCombo[d] => c = d

Counting == {"seeds", "top", "row", "random", "drawn"}

(***************************************************************************)
(* No two combinations are over the same parameters: otherwise an entry    *)
(* that both complete would leave GlobalZerosCount twice.                  *)
(***************************************************************************)
CountsRight ==
  /\ Distinct
  /\ zeros = Cardinality(opened)
  /\ \A c \in ComboIds : openCount[c] = Cardinality(OpenOf(c))
  /\ \A c \in ComboIds : boundCount[c] = Cardinality(vecCombo[c] \cap BoundParams)

CountInv ==
  /\ pc = "start" => row = {}
  /\ pc \in Counting => CountsRight
  /\ pc = "row" => unbound = Cardinality(Param \ BoundParams)

LEMMA ComboShape ==
  ASSUME TypeOK
  PROVE  \A c \in ComboIds : vecCombo[c] \in SUBSET Param
BY DEF TypeOK, ComboIds

LEMMA OpenedFinite ==
  ASSUME TypeOK, NEW K \in SUBSET opened
  PROVE  IsFiniteSet(K) /\ Cardinality(K) \in Nat
<1>1. vecCombo \in Seq(SUBSET Param) /\ opened \subseteq AllCells(vecCombo)
  BY DEF TypeOK
<1>2. K \in SUBSET (SUBSET Term)
  BY <1>1, CellsOfCombos
<1> QED BY <1>2, SetsOfCellsFinite

-----------------------------------------------------------------------------
(* One Parameter::Bind *)

(* AddBinding counts p in the combinations it is in.                       *)
LEMMA CountedRight ==
  ASSUME TypeOK, CountsRight, NEW p \in Param \ BoundParams, NEW c \in ComboIds
  PROVE  Counted(p)[c] = Cardinality(vecCombo[c] \cap (BoundParams \cup {p}))
<1>1. vecCombo[c] \in SUBSET Param
  BY ComboShape
<1> DEFINE B == vecCombo[c] \cap BoundParams
<1>2. IsFiniteSet(B) /\ boundCount[c] = Cardinality(B)
  BY <1>1, SubsetsOfParamFinite DEF CountsRight
<1>3. p \notin B
  OBVIOUS
<1>4. CASE p \in vecCombo[c]
  <2>1. vecCombo[c] \cap (BoundParams \cup {p}) = B \cup {p}
    BY <1>4
  <2>2. Cardinality(B \cup {p}) = Cardinality(B) + 1
    BY <1>2, <1>3, FS_AddElement
  <2>3. Counted(p)[c] = boundCount[c] + 1
    BY <1>4 DEF Counted
  <2> QED BY <1>2, <2>1, <2>2, <2>3
<1>5. CASE p \notin vecCombo[c]
  <2>1. vecCombo[c] \cap (BoundParams \cup {p}) = B
    BY <1>5
  <2>2. Counted(p)[c] = boundCount[c]
    BY <1>5 DEF Counted
  <2> QED BY <1>2, <2>1, <2>2
<1> QED BY <1>4, <1>5

(* The entry that p = v completes in c.                                    *)
Cell(p, v, c) == Project(row \cup {<<p, v>>}, vecCombo[c])

(* A combination that is hit is bound completely, and its entry is one     *)
(* over all of its parameters.                                             *)
LEMMA HitShape ==
  ASSUME TypeOK, CountsRight, NEW p \in Param \ BoundParams, NEW v,
         NEW c \in Hit(p, v)
  PROVE  c \in ComboIds /\ Cell(p, v, c) \in OpenOf(c)
<1>1. /\ c \in ComboIds /\ Cell(p, v, c) \in opened
      /\ Counted(p)[c] = Cardinality(vecCombo[c])
  BY DEF Hit, Cell
<1> DEFINE S == vecCombo[c]
           B == BoundParams \cup {p}
<1>2. S \in SUBSET Param /\ IsFiniteSet(S)
  BY <1>1, ComboShape, SubsetsOfParamFinite
<1>3. Cardinality(S \cap B) = Cardinality(S)
  BY <1>1, CountedRight
<1>4. S \cap B = S
  BY <1>2, <1>3, FS_Subset
<1>5. ParamsOf(row \cup {<<p, v>>}) = B
  BY ParamsOfAdd DEF BoundParams
<1>6. ParamsOf(Cell(p, v, c)) = S
  <2>1. \A q \in ParamsOf(Cell(p, v, c)) : q \in S
    BY DEF ParamsOf, Cell, Project
  <2>2. ASSUME NEW q \in S
        PROVE  q \in ParamsOf(Cell(p, v, c))
    <3>1. q \in ParamsOf(row \cup {<<p, v>>})
      BY <1>4, <1>5
    <3>2. PICK t \in row \cup {<<p, v>>} : t[1] = q
      BY <3>1 DEF ParamsOf
    <3>3. t \in Cell(p, v, c)
      BY <3>2 DEF Cell, Project
    <3> QED BY <3>2, <3>3 DEF ParamsOf
  <2> QED BY <2>1, <2>2
<1> QED BY <1>1, <1>6 DEF OpenOf

(* As many entries are covered as combinations are hit.                    *)
LEMMA CoveredOncePerHit ==
  ASSUME TypeOK, CountsRight, NEW p \in Param \ BoundParams, NEW v
  PROVE  /\ NewlyCovered(p, v) \subseteq opened
         /\ Cardinality(NewlyCovered(p, v)) = Cardinality(Hit(p, v))
         /\ Cardinality(Hit(p, v)) \in Nat
<1> DEFINE H == Hit(p, v)
           N == NewlyCovered(p, v)
           f == [c \in H |-> Cell(p, v, c)]
<1>1. \A c \in H : c \in ComboIds /\ Cell(p, v, c) \in OpenOf(c)
  BY HitShape
<1>2. N = { Cell(p, v, c) : c \in H }
  BY DEF NewlyCovered, Cell
<1>3. N \subseteq opened
  BY <1>1, <1>2 DEF OpenOf
<1>4. IsFiniteSet(H) /\ Cardinality(H) \in Nat
  <2>1. H \in SUBSET ComboIds
    BY <1>1
  <2> QED BY <2>1, ComboIdsFinite
<1>5. \A c, d \in H : Cell(p, v, c) = Cell(p, v, d) => c = d
  BY <1>1 DEF OpenOf, CountsRight, Distinct
<1>6. f \in Surjection(H, N)
  BY <1>2 DEF Surjection
<1>7. f \in Injection(H, N)
  BY <1>2, <1>5 DEF Injection, IsInjective
<1>8. Cardinality(N) = Cardinality(H)
  BY <1>4, <1>6, <1>7, FS_Surjection
<1> QED BY <1>3, <1>4, <1>8

(* A combination loses one open entry if it is hit, and none otherwise.    *)
LEMMA OpenAfterBind ==
  ASSUME TypeOK, CountsRight, NEW p \in Param \ BoundParams, NEW v,
         NEW c \in ComboIds
  PROVE  OpenOf(c) \ NewlyCovered(p, v) =
           IF c \in Hit(p, v) THEN OpenOf(c) \ {Cell(p, v, c)} ELSE OpenOf(c)
<1>1. NewlyCovered(p, v) = { Cell(p, v, d) : d \in Hit(p, v) }
  BY DEF NewlyCovered, Cell
<1>2. \A d \in Hit(p, v) : d \in ComboIds /\ Cell(p, v, d) \in OpenOf(d)
  BY HitShape
<1>3. \A d \in Hit(p, v) : Cell(p, v, d) \in OpenOf(c) => d = c
  BY <1>2 DEF OpenOf, CountsRight, Distinct
<1> QED BY <1>1, <1>3

LEMMA BindCounts ==
  ASSUME TypeOK, CountsRight, NEW p \in Param \ BoundParams, NEW v \in Values(p),
         NEW queue \in Seq(Param), Bind(p, v, queue), UNCHANGED vecCombo
  PROVE  /\ CountsRight'
         /\ unbound = Cardinality(Param \ BoundParams) =>
              unbound' = Cardinality(Param \ BoundParams')
<1>1. /\ row' = row \cup {<<p, v>>}
      /\ boundCount' = Counted(p)
      /\ opened' = opened \ NewlyCovered(p, v)
      /\ openCount' = [c \in ComboIds |-> IF c \in Hit(p, v) THEN openCount[c] - 1
                                                             ELSE openCount[c]]
      /\ zeros' = zeros - Cardinality(Hit(p, v))
      /\ unbound' = unbound - 1
  BY DEF Bind
<1>2. BoundParams' = BoundParams \cup {p}
  BY <1>1, ParamsOfAdd DEF BoundParams
<1>3. ComboIds' = ComboIds
  BY DEF ComboIds
<1>4. Distinct'
  BY <1>3 DEF CountsRight, Distinct
<1>5. zeros' = Cardinality(opened')
  <2>1. /\ NewlyCovered(p, v) \subseteq opened
        /\ Cardinality(NewlyCovered(p, v)) = Cardinality(Hit(p, v))
    BY CoveredOncePerHit
  <2>2. IsFiniteSet(opened) /\ zeros = Cardinality(opened)
    BY OpenedFinite DEF CountsRight
  <2>3. Cardinality(opened \ NewlyCovered(p, v))
          = Cardinality(opened) - Cardinality(opened \cap NewlyCovered(p, v))
    BY <2>2, FS_Difference
  <2>4. opened \cap NewlyCovered(p, v) = NewlyCovered(p, v)
    BY <2>1
  <2> QED BY <1>1, <2>1, <2>2, <2>3, <2>4
<1>6. ASSUME NEW c \in ComboIds
      PROVE  openCount'[c] = Cardinality(OpenOf(c)')
  <2>1. OpenOf(c)' = OpenOf(c) \ NewlyCovered(p, v)
    BY <1>1 DEF OpenOf
  <2>2. IsFiniteSet(OpenOf(c)) /\ openCount[c] = Cardinality(OpenOf(c))
    BY OpenedFinite DEF OpenOf, CountsRight
  <2>3. CASE c \in Hit(p, v)
    <3>1. OpenOf(c)' = OpenOf(c) \ {Cell(p, v, c)}
      BY <2>1, <2>3, OpenAfterBind
    <3>2. Cell(p, v, c) \in OpenOf(c)
      BY <2>3, HitShape
    <3>3. Cardinality(OpenOf(c) \ {Cell(p, v, c)}) = Cardinality(OpenOf(c)) - 1
      BY <2>2, <3>2, FS_RemoveElement
    <3> QED BY <1>1, <2>2, <2>3, <3>1, <3>3
  <2>4. CASE c \notin Hit(p, v)
    <3>1. OpenOf(c)' = OpenOf(c)
      BY <2>1, <2>4, OpenAfterBind
    <3> QED BY <1>1, <2>2, <2>4, <3>1
  <2> QED BY <2>3, <2>4
<1>7. \A c \in ComboIds : boundCount'[c] = Cardinality(vecCombo[c] \cap BoundParams')
  BY <1>1, <1>2, CountedRight
<1>8. CountsRight'
  BY <1>3, <1>4, <1>5, <1>6, <1>7 DEF CountsRight
<1>9. ASSUME unbound = Cardinality(Param \ BoundParams)
      PROVE  unbound' = Cardinality(Param \ BoundParams')
  <2>1. Param \ BoundParams' = (Param \ BoundParams) \ {p}
    BY <1>2
  <2>2. IsFiniteSet(Param \ BoundParams)
    BY SubsetsOfParamFinite
  <2>3. Cardinality((Param \ BoundParams) \ {p}) = Cardinality(Param \ BoundParams) - 1
    BY <2>2, FS_RemoveElement
  <2> QED BY <1>1, <1>9, <2>1, <2>3
<1> QED BY <1>8, <1>9

-----------------------------------------------------------------------------
(* The actions *)

LEMMA InitCounts == Init => CountInv
BY DEF Init, CountInv, Counting

LEMMA NothingBound == row = {} => BoundParams = {}
BY DEF BoundParams, ParamsOf

LEMMA ProcessExclusionsCounts ==
  TypeOK /\ CountInv /\ ProcessExclusions => CountInv'
<1> SUFFICES ASSUME TypeOK, CountInv, ProcessExclusions PROVE CountInv'
  OBVIOUS
<1>1. PICK new \in ExclusionCombos(exclusions) : vecCombo' = BaseCombos \o new
  BY DEF ProcessExclusions
<1>2. /\ new \in Seq(SUBSET Param)
      /\ \A i \in DOMAIN new : new[i] \in Uncontainable(exclusions)
      /\ \A i, j \in DOMAIN new : new[i] = new[j] => i = j
  <2>1. new \in AnyOrder(Uncontainable(exclusions)) /\ exclusions \in ExclusionChoices
    BY DEF ExclusionCombos, TypeOK
  <2>2. IsFiniteSet(Uncontainable(exclusions))
    BY <2>1, UncontainableShape
  <2>3. new \in Seq(Uncontainable(exclusions))
    BY <2>1, <2>2, AnyOrderShape
  <2> QED BY <2>1, <2>2, <2>3, UncontainableShape, AnyOrderShape, SeqMonotonic
<1>3. \A i \in DOMAIN new : \A c \in DOMAIN BaseCombos : new[i] # BaseCombos[c]
  BY <1>2 DEF Uncontainable
<1>4. /\ BaseCombos \in Seq(SUBSET Param)
      /\ \A c, d \in DOMAIN BaseCombos : BaseCombos[c] = BaseCombos[d] => c = d
  BY GcdAssumption
<1>5. Distinct'
  <2>1. \A c \in DOMAIN vecCombo' :
          \/ c \in DOMAIN BaseCombos /\ vecCombo'[c] = BaseCombos[c]
          \/ /\ c \notin DOMAIN BaseCombos
             /\ c - Len(BaseCombos) \in DOMAIN new
             /\ vecCombo'[c] = new[c - Len(BaseCombos)]
    BY <1>1, <1>2, <1>4
  <2> SUFFICES ASSUME NEW c \in DOMAIN vecCombo', NEW d \in DOMAIN vecCombo',
                      vecCombo'[c] = vecCombo'[d]
               PROVE  c = d
    BY DEF Distinct, ComboIds
  <2>2. CASE c \in DOMAIN BaseCombos /\ d \in DOMAIN BaseCombos
    BY <1>4, <2>1, <2>2
  <2>3. CASE c \notin DOMAIN BaseCombos /\ d \notin DOMAIN BaseCombos
    <3>1. c - Len(BaseCombos) = d - Len(BaseCombos)
      BY <1>2, <2>1, <2>3
    <3>2. c \in Int /\ d \in Int /\ Len(BaseCombos) \in Int
      BY <1>1, <1>2, <1>4
    <3> QED BY <3>1, <3>2
  <2> QED BY <1>3, <2>1, <2>2, <2>3
<1>6. row' = {} /\ pc' = "seeds"
  BY DEF ProcessExclusions, CountInv, rowState
<1>7. BoundParams' = {}
  BY <1>6 DEF BoundParams, ParamsOf
<1>8. zeros' = Cardinality(opened')
  BY DEF ProcessExclusions
<1>9. \A c \in DOMAIN vecCombo' :
        openCount'[c] = Cardinality({ k \in opened' : ParamsOf(k) = vecCombo'[c] })
  BY DEF ProcessExclusions
<1>10. \A c \in DOMAIN vecCombo' : boundCount'[c] = Cardinality(vecCombo'[c] \cap {})
  <2>1. \A c \in DOMAIN vecCombo' : boundCount'[c] = 0
    BY DEF ProcessExclusions
  <2> QED BY <2>1, FS_EmptySet
<1>11. CountsRight'
  BY <1>5, <1>7, <1>8, <1>9, <1>10 DEF CountsRight, OpenOf, ComboIds
<1> QED BY <1>6, <1>11 DEF CountInv

LEMMA StartRowCounts == TypeOK /\ CountInv /\ StartRow => CountInv'
<1> SUFFICES ASSUME TypeOK, CountInv, StartRow PROVE CountInv'
  OBVIOUS
<1>1. /\ pc \in Counting /\ pc' \in {"row", "random"}
      /\ row' = {} /\ unbound' = Cardinality(Param)
      /\ boundCount' = [c \in ComboIds |-> 0]
      /\ UNCHANGED <<vecCombo, opened, openCount, zeros>>
  BY DEF StartRow, AtTop, Counting
<1>2. BoundParams' = {}
  BY <1>1 DEF BoundParams, ParamsOf
<1>3. \A c \in ComboIds : boundCount'[c] = Cardinality(vecCombo'[c] \cap BoundParams')
  <2>1. \A c \in ComboIds : vecCombo'[c] \cap BoundParams' = {}
    BY <1>2
  <2> QED BY <1>1, <2>1, FS_EmptySet
<1>4. CountsRight'
  BY <1>1, <1>3 DEF CountInv, CountsRight, Distinct, OpenOf, ComboIds
<1>5. Param \ BoundParams' = Param
  BY <1>2
<1> QED BY <1>1, <1>4, <1>5 DEF CountInv

(* A step that leaves the row and the counters alone.                      *)
LEMMA CountsKept ==
  ASSUME CountInv, UNCHANGED <<vecCombo, opened, openCount, boundCount, zeros, row, unbound>>,
         pc' \in Counting => pc \in Counting, pc' = "row" => pc = "row", pc' # "start"
  PROVE  CountInv'
BY DEF CountInv, CountsRight, Distinct, OpenOf, ComboIds, BoundParams

LEMMA BindNextCounts == TypeOK /\ CountInv /\ BindNext => CountInv'
<1> SUFFICES ASSUME TypeOK, CountInv, BindNext PROVE CountInv'
  OBVIOUS
<1> DEFINE p == Head(todo)[1]
           v == Head(todo)[2]
<1>1. /\ pc \in Counting /\ pc' = pc /\ pc # "start" /\ UNCHANGED vecCombo
      /\ p \notin BoundParams /\ v \in Values(p) /\ Bind(p, v, worklist)
  BY DEF BindNext, Bindable, Counting
<1>2. p \in Param /\ worklist \in Seq(Param)
  BY DEF BindNext, TypeOK
<1>3. CountsRight
  BY <1>1 DEF CountInv
<1> HIDE DEF p, v
<1>4. /\ CountsRight'
      /\ unbound = Cardinality(Param \ BoundParams) =>
           unbound' = Cardinality(Param \ BoundParams')
  BY <1>1, <1>2, <1>3, BindCounts
<1> QED BY <1>1, <1>4 DEF CountInv

LEMMA PickCounts == TypeOK /\ CountInv /\ Pick => CountInv'
<1> SUFFICES ASSUME TypeOK, CountInv, Pick PROVE CountInv'
  OBVIOUS
<1> DEFINE p == Head(worklist)
<1>1. PICK v \in Pickable(p) : Bindable(p, v) /\ Bind(p, v, Tail(worklist))
  BY DEF Pick
<1>2. pc = "row" /\ pc' = "row" /\ UNCHANGED vecCombo
  BY DEF Pick, Picking
<1>3. p \in Param /\ Tail(worklist) \in Seq(Param)
  BY DEF Pick, Picking, TypeOK
<1>4. p \notin BoundParams /\ v \in Values(p)
  BY <1>1 DEF Bindable
<1>5. CountsRight /\ unbound = Cardinality(Param \ BoundParams)
  BY <1>2 DEF CountInv, Counting
<1> HIDE DEF p
<1>6. CountsRight' /\ unbound' = Cardinality(Param \ BoundParams')
  BY <1>1, <1>2, <1>3, <1>4, <1>5, BindCounts
<1> QED BY <1>2, <1>6 DEF CountInv

LEMMA OtherCounts ==
  CountInv /\ (\/ EmptyExclusion \/ Cancel \/ NoChoice \/ NoValue \/ AssertFails
               \/ FixRowSeeds \/ EndRow \/ DrawRow \/ GiveUp \/ Finish
               \/ ChooseOpen \/ ChooseCovered) => CountInv'
<1> SUFFICES ASSUME CountInv,
                    \/ EmptyExclusion \/ Cancel \/ NoChoice \/ NoValue \/ AssertFails
                    \/ FixRowSeeds \/ EndRow \/ DrawRow \/ GiveUp \/ Finish
                    \/ ChooseOpen \/ ChooseCovered
             PROVE  CountInv'
  OBVIOUS
<1>1. CASE EmptyExclusion \/ Cancel \/ NoChoice \/ NoValue \/ AssertFails
  BY <1>1, CountsKept DEF EmptyExclusion, Cancel, NoChoice, NoValue, AssertFails,
     counters, rowState, Counting
<1>2. CASE FixRowSeeds
  BY <1>2, CountsKept DEF FixRowSeeds, counters, rowState, Counting
<1>3. CASE EndRow
  BY <1>3, CountsKept DEF EndRow, counters, rowState, Counting
<1>4. CASE DrawRow
  BY <1>4, CountsKept DEF DrawRow, counters, Counting
<1>5. CASE GiveUp \/ Finish
  BY <1>5, CountsKept DEF GiveUp, Finish, MoveResults, counters, rowState, Counting
<1>6. CASE ChooseOpen \/ ChooseCovered
  BY <1>6, CountsKept DEF ChooseOpen, ChooseCovered, BindCell, Choosing, counters, Counting
<1> QED BY <1>1, <1>2, <1>3, <1>4, <1>5, <1>6

LEMMA CountStep == TypeOK /\ CountInv /\ [Next]_vars => CountInv'
<1>1. CountInv /\ UNCHANGED vars => CountInv'
  BY DEF vars, CountInv, CountsRight, Distinct, OpenOf, ComboIds, BoundParams
<1> QED BY <1>1, ProcessExclusionsCounts, StartRowCounts, BindNextCounts, PickCounts,
           OtherCounts DEF Next, Step

(***************************************************************************)
(* GlobalZerosCount, m_openCount, m_boundCount and unbound count what they *)
(* are meant to (combination.cpp:145-169, model.cpp:115 and 176), in every *)
(* mode, for every model, exclusions and seeds.                            *)
(***************************************************************************)
THEOREM CountersAreRight == Spec => []CountersAgree
<1>1. CountInv => CountersAgree
  BY DEF CountInv, CountsRight, CountersAgree, Counting, OpenOf
<1> QED BY <1>1, InitCounts, CountStep, TypeCorrect, PTL DEF Spec
-----------------------------------------------------------------------------
(* Coverage *)

(* The columns of the parameters bound in the row are one value ahead.     *)
InStep(n) ==
  \A p \in Param : Len(columns[p]) = IF p \in BoundParams THEN n + 1 ELSE n

(* The row is what was added to the columns last.                          *)
RowInColumns == \A t \in row : columns[t[1]][Len(columns[t[1]])] = t[2]

(* Row number i is finished, and has the terms of k.                       *)
Seen(k) ==
  \E i \in Nat \ {0} :
    /\ \A p \in Param : i <= Len(columns[p])
    /\ \A t \in k : columns[t[1]][i] = t[2]

Accounted ==
  \A k \in AllCells(BaseCombos) :
    k \in opened \/ k \in excluded \/ Contained(k, row) \/ Seen(k)

(***************************************************************************)
(* That a new row begins is the critical moment: what the old one covered  *)
(* must be in the columns by then, in all of them, so that no row may      *)
(* begin before all parameters of the last one are bound.                  *)
(***************************************************************************)
CoverInv ==
  /\ \E n \in Nat : InStep(n)
  /\ RowInColumns
  /\ pc \notin {"start", "asserted"} => Accounted
  /\ pc \in {"start", "seeds", "top"} => BoundParams \in {{}, Param}
  /\ pc = "drawn" =>
       \A p \in Param \ BoundParams : \E i \in DOMAIN todo : todo[i][1] = p

LEMMA BaseCellShape == \A k \in AllCells(BaseCombos) : k \in SUBSET Term
<1>1. BaseCombos \in Seq(SUBSET Param)
  BY GcdAssumption
<1> QED BY <1>1, CellsOfCombos

LEMMA InitCover == Init => CoverInv
<1> SUFFICES ASSUME Init PROVE CoverInv
  OBVIOUS
<1>1. row = {} /\ BoundParams = {} /\ pc = "start"
  BY NothingBound DEF Init
<1>2. \A p \in Param : Len(columns[p]) = 0
  BY DEF Init
<1>3. InStep(0)
  BY <1>1, <1>2 DEF InStep
<1> QED BY <1>1, <1>3 DEF CoverInv, RowInColumns

(* One Bind: what it covers is in the row from now on.                     *)
LEMMA BindCovers ==
  ASSUME TypeOK, CoverInv, Accounted, NEW p \in Param \ BoundParams,
         NEW v \in Values(p), NEW queue \in Seq(Param), Bind(p, v, queue),
         UNCHANGED excluded
  PROVE  /\ \E n \in Nat : InStep(n)'
         /\ RowInColumns'
         /\ Accounted'
         /\ BoundParams' = BoundParams \cup {p}
<1>1. /\ row' = row \cup {<<p, v>>}
      /\ opened' = opened \ NewlyCovered(p, v)
      /\ columns' = [columns EXCEPT ![p] = Append(@, v)]
  BY DEF Bind
<1>2. BoundParams' = BoundParams \cup {p}
  BY <1>1, ParamsOfAdd DEF BoundParams
<1>3. /\ columns[p] \in Seq(Values(p)) /\ DOMAIN columns = Param
      /\ \A q \in Param : columns[q] \in Seq(Values(q))
  BY DEF TypeOK
<1>4. /\ columns'[p] = Append(columns[p], v)
      /\ Len(columns'[p]) = Len(columns[p]) + 1
      /\ columns'[p][Len(columns[p]) + 1] = v
      /\ \A i \in 1 .. Len(columns[p]) : columns'[p][i] = columns[p][i]
      /\ \A q \in Param \ {p} : columns'[q] = columns[q]
  BY <1>1, <1>3
<1>5. \E n \in Nat : InStep(n)'
  <2>1. PICK n \in Nat : InStep(n)
    BY DEF CoverInv
  <2>2. \A q \in Param : Len(columns'[q]) = IF q \in BoundParams' THEN n + 1 ELSE n
    BY <1>2, <1>4, <2>1 DEF InStep
  <2> QED BY <2>2 DEF InStep
<1>6. RowInColumns'
  <2> SUFFICES ASSUME NEW t \in row \cup {<<p, v>>}
               PROVE  columns'[t[1]][Len(columns'[t[1]])] = t[2]
    BY <1>1 DEF RowInColumns
  <2>1. CASE t = <<p, v>>
    BY <1>4, <2>1
  <2>2. CASE t \in row
    <3>1. t[1] \in BoundParams /\ t[1] \in Param
      BY <2>2, TermShape DEF BoundParams, ParamsOf, TypeOK
    <3> QED BY <1>4, <2>2, <3>1 DEF CoverInv, RowInColumns
  <2> QED BY <2>1, <2>2
<1>7. Accounted'
  <2> SUFFICES ASSUME NEW k \in AllCells(BaseCombos)
               PROVE  \/ k \in opened' \/ k \in excluded \/ Contained(k, row')
                      \/ Seen(k)'
    BY DEF Accounted
  <2>1. CASE k \in opened /\ k \notin opened'
    <3>1. k \in NewlyCovered(p, v)
      BY <1>1, <2>1
    <3>2. Contained(k, row')
      BY <1>1, <3>1 DEF NewlyCovered, Project, Contained
    <3> QED BY <3>2
  <2>2. CASE Contained(k, row)
    BY <1>1, <2>2 DEF Contained
  <2>3. CASE Seen(k)
    <3>1. PICK i \in Nat \ {0} :
            /\ \A q \in Param : i <= Len(columns[q])
            /\ \A t \in k : columns[t[1]][i] = t[2]
      BY <2>3 DEF Seen
    <3>2. \A q \in Param : i <= Len(columns'[q]) /\ columns'[q][i] = columns[q][i]
      <4> SUFFICES ASSUME NEW q \in Param
                   PROVE  i <= Len(columns'[q]) /\ columns'[q][i] = columns[q][i]
        OBVIOUS
      <4>1. CASE q = p
        <5>1. i <= Len(columns[p]) /\ Len(columns[p]) \in Nat
          BY <1>3, <3>1
        <5>2. i \in 1 .. Len(columns[p])
          BY <5>1
        <5> QED BY <1>4, <4>1, <5>1, <5>2
      <4>2. CASE q # p
        BY <1>4, <3>1, <4>2
      <4> QED BY <4>1, <4>2
    <3>3. \A t \in k : t[1] \in Param
      BY BaseCellShape, TermShape
    <3>4. \A t \in k : columns'[t[1]][i] = t[2]
      BY <3>1, <3>2, <3>3
    <3> QED BY <3>2, <3>4 DEF Seen
  <2> QED BY <2>1, <2>2, <2>3 DEF Accounted
<1> QED BY <1>2, <1>5, <1>6, <1>7

LEMMA BindNextCover == TypeOK /\ CoverInv /\ BindNext => CoverInv'
<1> SUFFICES ASSUME TypeOK, CoverInv, BindNext PROVE CoverInv'
  OBVIOUS
<1> DEFINE p == Head(todo)[1]
           v == Head(todo)[2]
<1>1. /\ todo # <<>> /\ pc \in {"row", "random", "drawn"} /\ pc' = pc
      /\ p \notin BoundParams /\ v \in Values(p) /\ Bind(p, v, worklist)
      /\ todo' = Tail(todo) /\ UNCHANGED excluded
  BY DEF BindNext, Bindable
<1>2. p \in Param /\ worklist \in Seq(Param) /\ todo \in Seq(Param \X Nat)
  BY DEF BindNext, TypeOK
<1>3. Accounted
  BY <1>1 DEF CoverInv
<1>4. pc = "drawn" => \A q \in Param \ (BoundParams \cup {p}) :
                        \E i \in DOMAIN todo' : todo'[i][1] = q
  <2> SUFFICES ASSUME pc = "drawn", NEW q \in Param \ (BoundParams \cup {p})
               PROVE  \E i \in DOMAIN todo' : todo'[i][1] = q
    OBVIOUS
  <2>1. PICK i \in DOMAIN todo : todo[i][1] = q
    BY DEF CoverInv
  <2>2. i # 1
    BY <1>1, <2>1
  <2>3. todo' = Tail(todo) /\ todo # <<>> /\ todo \in Seq(Param \X Nat)
    BY <1>1, <1>2
  <2>4. i - 1 \in DOMAIN todo' /\ todo'[i - 1] = todo[i]
    BY <2>1, <2>2, <2>3
  <2> QED BY <2>1, <2>4
<1> HIDE DEF p, v
<1>5. /\ \E n \in Nat : InStep(n)'
      /\ RowInColumns' /\ Accounted' /\ BoundParams' = BoundParams \cup {p}
  BY <1>1, <1>2, <1>3, BindCovers
<1> QED BY <1>1, <1>4, <1>5 DEF CoverInv

LEMMA PickCover == TypeOK /\ CoverInv /\ Pick => CoverInv'
<1> SUFFICES ASSUME TypeOK, CoverInv, Pick PROVE CoverInv'
  OBVIOUS
<1> DEFINE p == Head(worklist)
<1>1. PICK v \in Pickable(p) : Bindable(p, v) /\ Bind(p, v, Tail(worklist))
  BY DEF Pick
<1>2. pc = "row" /\ pc' = "row" /\ UNCHANGED excluded
  BY DEF Pick, Picking
<1>3. p \in Param /\ Tail(worklist) \in Seq(Param)
  BY DEF Pick, Picking, TypeOK
<1>4. p \notin BoundParams /\ v \in Values(p)
  BY <1>1 DEF Bindable
<1>5. Accounted
  BY <1>2 DEF CoverInv
<1> HIDE DEF p
<1>6. (\E n \in Nat : InStep(n)') /\ RowInColumns' /\ Accounted'
  BY <1>1, <1>2, <1>3, <1>4, <1>5, BindCovers
<1> QED BY <1>2, <1>6 DEF CoverInv

(* A row begins: the columns have all of the old one.                      *)
LEMMA StartRowCover == TypeOK /\ CoverInv /\ StartRow => CoverInv'
<1> SUFFICES ASSUME TypeOK, CoverInv, StartRow PROVE CoverInv'
  OBVIOUS
<1>1. /\ AtTop /\ row' = {} /\ pc' \in {"row", "random"}
      /\ UNCHANGED <<opened, excluded, columns>>
  BY DEF StartRow
<1>2. BoundParams' = {}
  BY <1>1 DEF BoundParams, ParamsOf
<1>3. BoundParams \in {{}, Param}
  <2>1. CASE pc = "top"
    BY <2>1 DEF CoverInv
  <2>2. CASE pc = "drawn" /\ todo = <<>>
    <3>1. Param \ BoundParams = {}
      BY <2>2 DEF CoverInv
    <3>2. BoundParams \subseteq Param
      BY TermShape DEF BoundParams, ParamsOf, TypeOK
    <3> QED BY <3>1, <3>2
  <2> QED BY <1>1, <2>1, <2>2 DEF AtTop
<1>4. PICK n \in Nat : InStep(n)
  BY DEF CoverInv
<1>5. \E m \in Nat : InStep(m)'
  <2>1. CASE BoundParams = {}
    <3>1. \A p \in Param : Len(columns'[p]) = n
      BY <1>1, <1>4, <2>1 DEF InStep
    <3> QED BY <1>2, <3>1 DEF InStep
  <2>2. CASE BoundParams = Param
    <3>1. n + 1 \in Nat /\ \A p \in Param : Len(columns'[p]) = n + 1
      BY <1>1, <1>4, <2>2 DEF InStep
    <3> QED BY <1>2, <3>1 DEF InStep
  <2> QED BY <1>3, <2>1, <2>2
<1>6. ASSUME NEW k \in AllCells(BaseCombos), Contained(k, row)
      PROVE  Contained(k, {}) \/ Seen(k)
  <2>1. CASE BoundParams = {}
    <3>1. row = {}
      BY <2>1 DEF BoundParams, ParamsOf
    <3> QED BY <1>6, <3>1
  <2>2. CASE BoundParams = Param
    <3>1. \A p \in Param : Len(columns[p]) = n + 1
      BY <1>4, <2>2 DEF InStep
    <3>2. \A t \in k : t[1] \in Param /\ t \in row
      BY <1>6, BaseCellShape, TermShape DEF Contained
    <3>3. \A t \in k : columns[t[1]][n + 1] = t[2]
      BY <3>1, <3>2 DEF CoverInv, RowInColumns
    <3>4. n + 1 \in Nat \ {0} /\ \A p \in Param : n + 1 <= Len(columns[p])
      BY <3>1
    <3> QED BY <3>3, <3>4 DEF Seen
  <2> QED BY <1>3, <2>1, <2>2
<1>7. Accounted
  BY <1>1 DEF CoverInv, AtTop
<1>8. Accounted'
  BY <1>1, <1>6, <1>7 DEF Accounted, Seen
<1> QED BY <1>1, <1>5, <1>8 DEF CoverInv, RowInColumns

(* A step that leaves the row, its columns and the entries alone.          *)
LEMMA CoverKept ==
  ASSUME CoverInv, UNCHANGED <<row, columns, opened, excluded>>
  PROVE  /\ \E n \in Nat : InStep(n)'
         /\ RowInColumns'
         /\ BoundParams' = BoundParams
         /\ Accounted => Accounted'
BY DEF CoverInv, InStep, RowInColumns, Accounted, Seen, BoundParams

LEMMA ProcessExclusionsCover == CoverInv /\ ProcessExclusions => CoverInv'
<1> SUFFICES ASSUME CoverInv, ProcessExclusions PROVE CoverInv'
  OBVIOUS
<1>1. /\ pc = "start" /\ pc' = "seeds" /\ UNCHANGED <<row, columns>>
      /\ opened' = AllCells(BaseCombos) \ excluded'
  BY DEF ProcessExclusions, rowState
<1>2. (\E n \in Nat : InStep(n)') /\ RowInColumns' /\ BoundParams' = BoundParams
  BY <1>1 DEF CoverInv, InStep, RowInColumns, BoundParams
<1>3. Accounted'
  BY <1>1 DEF Accounted
<1> QED BY <1>1, <1>2, <1>3 DEF CoverInv

LEMMA EndRowCover == TypeOK /\ CountInv /\ CoverInv /\ EndRow => CoverInv'
<1> SUFFICES ASSUME TypeOK, CountInv, CoverInv, EndRow PROVE CoverInv'
  OBVIOUS
<1>1. /\ pc = "row" /\ unbound <= 0 /\ pc' = "top"
      /\ UNCHANGED <<row, columns, opened, excluded>>
  BY DEF EndRow, rowState, counters
<1>2. IsFiniteSet(Param \ BoundParams) /\ Cardinality(Param \ BoundParams) \in Nat
  BY SubsetsOfParamFinite
<1>3. Cardinality(Param \ BoundParams) = 0
  BY <1>1, <1>2 DEF CountInv
<1>4. Param \ BoundParams = {}
  BY <1>2, <1>3, FS_EmptySet
<1>5. BoundParams \subseteq Param
  BY TermShape DEF BoundParams, ParamsOf, TypeOK
<1>6. BoundParams = Param
  BY <1>4, <1>5
<1> QED BY <1>1, <1>6, CoverKept DEF CoverInv

(* A random row binds every parameter.                                     *)
LEMMA DrawRowCover == CoverInv /\ DrawRow => CoverInv'
<1> SUFFICES ASSUME CoverInv, DrawRow PROVE CoverInv'
  OBVIOUS
<1>1. /\ pc = "random" /\ pc' = "drawn"
      /\ UNCHANGED <<row, columns, opened, excluded>>
  BY DEF DrawRow, counters
<1>2. PICK r \in RandomRows : todo' \in Ordered(r, [t \in r |-> t[1]])
  BY DEF DrawRow
<1>3. PICK f : r = { <<p, f[p]>> : p \in Param }
  BY DEF RandomRows
<1>4. \A p \in Param : <<p, f[p]>> \in r /\ <<p, f[p]>>[1] = p
  BY <1>3
<1>5. \A t \in r : \E i \in DOMAIN todo' : todo'[i] = t
  <2>1. IsFiniteSet(r) /\ \A t \in r : t[1] \in Int
    <3> DEFINE g == [p \in Param |-> <<p, f[p]>>]
    <3>1. g \in Surjection(Param, r)
      BY <1>3 DEF Surjection
    <3>2. IsFiniteSet(r)
      BY <3>1, ParamAssumption, FS_Surjection
    <3> QED BY <1>3, <3>2, ParamAssumption
  <2>2. /\ todo' \in Seq(r) /\ DOMAIN todo' = 1 .. Cardinality(r)
        /\ \A i, j \in DOMAIN todo' : todo'[i] = todo'[j] => i = j
    <3> DEFINE key == [t \in r |-> t[1]]
    <3>1. \A t \in r : key[t] \in Int
      BY <2>1
    <3> HIDE DEF key
    <3> QED BY <1>2, <2>1, <3>1, OrderedShape DEF key
  <2>3. Cardinality(r) \in Nat
    BY <2>1, FS_CardinalityType
  <2>4. todo' \in Injection(1 .. Cardinality(r), r)
    <3>1. todo' \in [1 .. Cardinality(r) -> r]
      BY <1>2 DEF Ordered
    <3> QED BY <2>2, <3>1 DEF Injection, IsInjective
  <2>5. Cardinality(1 .. Cardinality(r)) = Cardinality(r)
    BY <2>3, FS_Interval
  <2>6. todo' \in Surjection(1 .. Cardinality(r), r)
    BY <2>1, <2>4, <2>5, FS_Injection
  <2> QED BY <2>2, <2>6 DEF Surjection
<1>6. ASSUME NEW p \in Param
      PROVE  \E i \in DOMAIN todo' : todo'[i][1] = p
  <2>1. PICK i \in DOMAIN todo' : todo'[i] = <<p, f[p]>>
    BY <1>4, <1>5
  <2> QED BY <2>1
<1> QED BY <1>1, <1>6, CoverKept DEF CoverInv

(* The other steps change neither the row nor what is covered.             *)
LEMMA OtherCover ==
  CoverInv /\ (\/ EmptyExclusion \/ Cancel \/ NoChoice \/ NoValue \/ AssertFails
               \/ FixRowSeeds \/ GiveUp \/ Finish \/ ChooseOpen \/ ChooseCovered)
    => CoverInv'
<1> SUFFICES ASSUME CoverInv,
                    \/ EmptyExclusion \/ Cancel \/ NoChoice \/ NoValue \/ AssertFails
                    \/ FixRowSeeds \/ GiveUp \/ Finish \/ ChooseOpen \/ ChooseCovered
             PROVE  CoverInv'
  OBVIOUS
<1>1. /\ UNCHANGED <<row, columns, opened, excluded>>
      /\ pc' \notin {"start", "drawn", "seeds"}
      /\ pc' = "top" => pc = "seeds"
      /\ pc = "start" => pc' = "asserted"
      /\ pc' # "asserted" => pc # "asserted"
  <2>1. CASE EmptyExclusion \/ Cancel \/ NoChoice \/ NoValue \/ AssertFails
    BY <2>1 DEF EmptyExclusion, Cancel, AtTop, NoChoice, Choosing, NoValue, Picking,
                AssertFails, counters, rowState
  <2>2. CASE FixRowSeeds
    BY <2>2 DEF FixRowSeeds, counters, rowState
  <2>3. CASE GiveUp \/ Finish
    BY <2>3 DEF GiveUp, Finish, AtTop, MoveResults, counters, rowState
  <2>4. CASE ChooseOpen \/ ChooseCovered
    BY <2>4 DEF ChooseOpen, ChooseCovered, Choosing, BindCell, counters
  <2> QED BY <2>1, <2>2, <2>3, <2>4
<1> QED BY <1>1, CoverKept DEF CoverInv

LEMMA CoverStep == TypeOK /\ CountInv /\ CoverInv /\ [Next]_vars => CoverInv'
<1>1. CoverInv /\ UNCHANGED vars => CoverInv'
  BY CoverKept DEF vars, CoverInv
<1> QED BY <1>1, ProcessExclusionsCover, StartRowCover, BindNextCover, PickCover,
           EndRowCover, DrawRowCover, OtherCover DEF Next, Step
=============================================================================
