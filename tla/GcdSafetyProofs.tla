-------------------------- MODULE GcdSafetyProofs ---------------------------
(***************************************************************************)
(* The search of Gcd is safe: who alone can complete a combination is      *)
(* queued, and, in Regular mode, no row with an exclusion is built and     *)
(* the search never gets stuck, for every model of one order of two or     *)
(* more, every closed exclusion set and all ample seeds.  What a call      *)
(* delivers follows: the suite grows row by row as CoveringSuite promises, *)
(* seeds stay in the rows they start, and no row with an exclusion is      *)
(* handed out in any mode.                                                 *)
(***************************************************************************)
EXTENDS GcdProofs

-----------------------------------------------------------------------------
(* The work list *)

(* q is waiting in the work list or about to be bound by a running loop.   *)
Waiting(q) ==
  \/ \E i \in DOMAIN worklist : worklist[i] = q
  \/ \E i \in DOMAIN todo : todo[i][1] = q

(***************************************************************************)
(* m_pending is set for the parameters that wait, and for nobody else who  *)
(* is unbound; and it is set for who alone can complete a combination.     *)
(***************************************************************************)
QueueInv ==
  pc = "row" =>
    /\ \A q \in pending \ BoundParams : Waiting(q)
    /\ \A c \in ComboIds :
         Cardinality(vecCombo[c]) > 1 /\ boundCount[c] = Cardinality(vecCombo[c]) - 1
           => vecCombo[c] \ BoundParams \subseteq pending

LEMMA BindQueues ==
  ASSUME TypeOK, QueueInv, pc = "row", NEW p \in Param \ BoundParams, NEW v,
         NEW queue \in Seq(Param), Bind(p, v, queue), UNCHANGED vecCombo,
         \A q \in pending \ (BoundParams \cup {p}) :
           \/ \E i \in DOMAIN queue : queue[i] = q
           \/ \E i \in DOMAIN todo' : todo'[i][1] = q
  PROVE  QueueInv'
<1>1. /\ row' = row \cup {<<p, v>>}
      /\ boundCount' = Counted(p)
      /\ pending' = pending \cup Fresh(p)
  BY DEF Bind
<1>2. BoundParams' = BoundParams \cup {p}
  BY <1>1, ParamsOfAdd DEF BoundParams
<1>3. PICK s \in AnyOrder(Fresh(p)) : worklist' = queue \o s
  BY DEF Bind
<1>4. Fresh(p) \subseteq Param /\ IsFiniteSet(Fresh(p))
  BY SubsetsOfParamFinite DEF Fresh
<1>5. s \in Seq(Param) /\ DOMAIN s = 1 .. Cardinality(Fresh(p))
  BY <1>4, AnyOrderShape, SeqMonotonic
<1>6. \A q \in Fresh(p) : \E i \in DOMAIN s : s[i] = q
  BY <1>4, AnyOrderAll
<1>7. /\ \A i \in DOMAIN queue : i \in DOMAIN worklist' /\ worklist'[i] = queue[i]
      /\ \A i \in DOMAIN s : /\ Len(queue) + i \in DOMAIN worklist'
                             /\ worklist'[Len(queue) + i] = s[i]
  <2>1. s \in Seq(Param)
    BY <1>5
  <2>2. \A i \in DOMAIN queue : /\ i \in DOMAIN (queue \o s)
                                /\ (queue \o s)[i] = queue[i]
    BY <2>1, ConcatMembers
  <2>3. \A i \in DOMAIN s : /\ Len(queue) + i \in DOMAIN (queue \o s)
                            /\ (queue \o s)[Len(queue) + i] = s[i]
    BY <2>1, ConcatMembers
  <2> QED BY <1>3, <2>2, <2>3
<1>8. ASSUME NEW q \in pending' \ BoundParams'
      PROVE  Waiting(q)'
  <2>1. CASE q \in Fresh(p)
    BY <1>6, <1>7, <2>1 DEF Waiting
  <2>2. CASE q \in pending
    BY <1>2, <1>7, <2>2 DEF Waiting
  <2> QED BY <1>1, <2>1, <2>2
<1>9. ASSUME NEW c \in ComboIds, Cardinality(vecCombo[c]) > 1,
             boundCount'[c] = Cardinality(vecCombo[c]) - 1,
             NEW q \in vecCombo[c] \ BoundParams'
      PROVE  q \in pending'
  <2>1. q \in Param
    BY ComboShape
  <2>2. CASE p \in vecCombo[c]
    <3>1. c \in LastIn(p, q)
      BY <1>1, <1>2, <1>9, <2>2 DEF LastIn
    <3> QED BY <1>1, <2>1, <3>1 DEF Fresh
  <2>3. CASE p \notin vecCombo[c]
    <3>1. boundCount[c] = Cardinality(vecCombo[c]) - 1
      BY <1>1, <1>9, <2>3 DEF Counted
    <3> QED BY <1>1, <1>2, <1>9, <3>1 DEF QueueInv
  <2> QED BY <2>2, <2>3
<1> QED BY <1>8, <1>9 DEF QueueInv, ComboIds

LEMMA BindNextQueues == TypeOK /\ QueueInv /\ BindNext => QueueInv'
<1> SUFFICES ASSUME TypeOK, QueueInv, BindNext PROVE QueueInv'
  OBVIOUS
<1> DEFINE p == Head(todo)[1]
           v == Head(todo)[2]
<1>1. /\ todo \in Seq(Param \X Nat) /\ todo # <<>> /\ worklist \in Seq(Param)
      /\ p \in Param \ BoundParams /\ Bind(p, v, worklist)
      /\ todo' = Tail(todo) /\ pc' = pc /\ UNCHANGED vecCombo
  BY DEF BindNext, Bindable, TypeOK
<1>2. CASE pc # "row"
  BY <1>1, <1>2 DEF QueueInv
<1>3. CASE pc = "row"
  <2>1. ASSUME NEW q \in pending \ (BoundParams \cup {p})
        PROVE  \/ \E i \in DOMAIN worklist : worklist[i] = q
               \/ \E i \in DOMAIN todo' : todo'[i][1] = q
    <3>1. CASE \E i \in DOMAIN worklist : worklist[i] = q
      BY <3>1
    <3>2. CASE \E i \in DOMAIN todo : todo[i][1] = q
      <4>1. PICK i \in DOMAIN todo : todo[i][1] = q
        BY <3>2
      <4>2. i # 1
        BY <1>1, <2>1, <4>1
      <4>3. i - 1 \in DOMAIN todo' /\ todo'[i - 1] = todo[i]
        BY <1>1, <4>2
      <4> QED BY <4>1, <4>3
    <3> QED BY <1>3, <2>1, <3>1, <3>2 DEF QueueInv, Waiting
  <2> HIDE DEF p, v
  <2> QED BY <1>1, <1>3, <2>1, BindQueues
<1> QED BY <1>2, <1>3

LEMMA PickQueues == TypeOK /\ QueueInv /\ Pick => QueueInv'
<1> SUFFICES ASSUME TypeOK, QueueInv, Pick PROVE QueueInv'
  OBVIOUS
<1> DEFINE p     == Head(worklist)
           queue == Tail(worklist)
<1>1. /\ pc = "row" /\ todo' = <<>> /\ todo = <<>> /\ UNCHANGED vecCombo
      /\ worklist \in Seq(Param) /\ worklist # <<>>
  BY DEF Pick, Picking, TypeOK
<1>2. PICK v \in Pickable(p) : Bindable(p, v) /\ Bind(p, v, queue)
  BY DEF Pick
<1>3. p \in Param \ BoundParams /\ queue \in Seq(Param)
  BY <1>1, <1>2 DEF Bindable
<1>4. ASSUME NEW q \in pending \ (BoundParams \cup {p})
      PROVE  \E i \in DOMAIN queue : queue[i] = q
  <2>1. PICK i \in DOMAIN worklist : worklist[i] = q
    BY <1>1, <1>4 DEF QueueInv, Waiting
  <2>2. i # 1
    BY <1>1, <1>4, <2>1
  <2>3. i - 1 \in DOMAIN queue /\ queue[i - 1] = worklist[i]
    BY <1>1, <2>2
  <2> QED BY <2>1, <2>3
<1> HIDE DEF p, queue
<1> QED BY <1>1, <1>2, <1>3, <1>4, BindQueues

(* A row begins: everything pending is in the seed, and nothing is counted *)
(* yet, so that no combination of two or more lacks only one.              *)
LEMMA StartRowQueues == TypeOK /\ StartRow => QueueInv'
<1> SUFFICES ASSUME TypeOK, StartRow PROVE QueueInv'
  OBVIOUS
<1>1. /\ vecCombo' = vecCombo /\ ComboIds' = ComboIds
      /\ \A c \in ComboIds : boundCount'[c] = 0 /\ vecCombo[c] \in SUBSET Param
  BY ComboShape DEF StartRow, ComboIds
<1>2. \A c \in ComboIds : /\ Cardinality(vecCombo[c]) \in Nat
                          /\ Cardinality(vecCombo[c]) > 1 =>
                               boundCount'[c] # Cardinality(vecCombo[c]) - 1
  BY <1>1, SubsetsOfParamFinite
<1>3. ASSUME pc' = "row", NEW q \in pending'
      PROVE  \E i \in DOMAIN todo' : todo'[i][1] = q
  <2>1. rowSeeds # <<>> /\ rowSeeds \in Seq(SUBSET Term)
    BY <1>3 DEF StartRow, TakeSeed, AtTop, TypeOK
  <2> DEFINE seed == Head(rowSeeds)
  <2>2. seed \subseteq Term /\ IsFiniteSet(seed)
    BY <2>1, SubsetsOfTermFinite
  <2>3. pending' = ParamsOf(seed) /\ todo' \in AnyOrder(seed)
    BY <2>1 DEF StartRow, TakeSeed
  <2> HIDE DEF seed
  <2>4. PICK t \in seed : t[1] = q
    BY <1>3, <2>3 DEF ParamsOf
  <2>5. \E i \in DOMAIN todo' : todo'[i] = t
    BY <2>2, <2>3, AnyOrderAll
  <2> QED BY <2>4, <2>5
<1> QED BY <1>1, <1>2, <1>3 DEF QueueInv, Waiting

(* A combination is bound: what it marks pending is all in the loop.       *)
LEMMA BindCellAll ==
  ASSUME TypeOK, NEW c \in ComboIds, NEW k \in SUBSET Term,
         ParamsOf(k) = vecCombo[c], BindCell(c, k)
  PROVE  /\ \A q \in vecCombo[c] \ BoundParams :
              \E i \in DOMAIN todo' : todo'[i][1] = q
         /\ \A i \in DOMAIN todo' : todo'[i] \in k
<1> DEFINE free == vecCombo[c] \ BoundParams
           key  == [p \in free |-> IF c \in DOMAIN BaseCombos THEN Position[p] ELSE -p]
<1>1. PICK s \in Ordered(free, key) :
        todo' = [i \in DOMAIN s |-> CHOOSE t \in k : t[1] = s[i]]
  BY DEF BindCell
<1>2. vecCombo[c] \subseteq Param
  BY ComboShape
<1>3. \A p \in free : key[p] \in Int
  <2> SUFFICES ASSUME NEW p \in free PROVE key[p] \in Int
    OBVIOUS
  <2>1. p \in Nat /\ Position[p] \in Nat
    BY <1>2, GcdAssumption, ParamAssumption
  <2> QED BY <2>1
<1>4. IsFiniteSet(free)
  BY <1>2, SubsetsOfParamFinite
<1> HIDE DEF free, key
<1>5. s \in Seq(free) /\ \A q \in free : \E i \in DOMAIN s : s[i] = q
  BY <1>3, <1>4, OrderedShape, OrderedAll
<1>6. \A i \in DOMAIN s : todo'[i] \in k /\ todo'[i][1] = s[i]
  <2> SUFFICES ASSUME NEW i \in DOMAIN s
               PROVE  \E t \in k : t[1] = s[i]
    BY <1>1
  <2>1. s[i] \in free
    BY <1>5
  <2>2. s[i] \in ParamsOf(k)
    BY <2>1 DEF free
  <2> QED BY <2>2 DEF ParamsOf
<1>7. DOMAIN todo' = DOMAIN s
  BY <1>1
<1>8. \A q \in free : \E i \in DOMAIN todo' : todo'[i][1] = q
  BY <1>5, <1>6, <1>7
<1> QED BY <1>6, <1>7, <1>8 DEF free

LEMMA ChooseQueues == TypeOK /\ QueueInv /\ (ChooseOpen \/ ChooseCovered) => QueueInv'
<1> SUFFICES ASSUME TypeOK, QueueInv, ChooseOpen \/ ChooseCovered PROVE QueueInv'
  OBVIOUS
<1>1. PICK c \in ComboIds : \E k \in SUBSET Term :
        ParamsOf(k) = vecCombo[c] /\ BindCell(c, k) /\ Choosing
  BY ChooseShape
<1>2. PICK k \in SUBSET Term : ParamsOf(k) = vecCombo[c] /\ BindCell(c, k) /\ Choosing
  BY <1>1
<1>3. /\ pc = "row" /\ todo = <<>> /\ worklist = <<>>
      /\ pending' = pending \cup vecCombo[c] /\ row' = row
      /\ boundCount' = boundCount /\ vecCombo' = vecCombo
  BY <1>2 DEF BindCell, Choosing, counters
<1>4. BoundParams' = BoundParams /\ ComboIds' = ComboIds
  BY <1>3 DEF BoundParams, ComboIds
<1>5. pending \subseteq BoundParams
  <2>1. \A q : ~ Waiting(q)
    BY <1>3 DEF Waiting
  <2> QED BY <1>3, <2>1 DEF QueueInv
<1>6. \A q \in pending' \ BoundParams' : Waiting(q)'
  BY <1>2, <1>3, <1>4, <1>5, BindCellAll DEF Waiting
<1> QED BY <1>3, <1>4, <1>6 DEF QueueInv

LEMMA QueueStep == TypeOK /\ QueueInv /\ [Next]_vars => QueueInv'
<1> SUFFICES ASSUME TypeOK, QueueInv, [Next]_vars PROVE QueueInv'
  OBVIOUS
<1>1. CASE \/ ProcessExclusions \/ EmptyExclusion \/ FixRowSeeds \/ EndRow \/ AssertFails
           \/ NoChoice \/ NoValue \/ DrawRow \/ GiveUp \/ Finish \/ Cancel
  <2>1. pc' # "row"
    BY <1>1 DEF ProcessExclusions, EmptyExclusion, FixRowSeeds, EndRow, AssertFails,
                NoChoice, NoValue, DrawRow, GiveUp, Finish, MoveResults, Cancel
  <2> QED BY <2>1 DEF QueueInv
<1>2. CASE StartRow                    BY <1>2, StartRowQueues
<1>3. CASE BindNext                    BY <1>3, BindNextQueues
<1>4. CASE ChooseOpen \/ ChooseCovered BY <1>4, ChooseQueues
<1>5. CASE Pick                        BY <1>5, PickQueues
<1>6. CASE UNCHANGED vars
  BY <1>6 DEF vars, QueueInv, Waiting, ComboIds, BoundParams
<1> QED BY <1>1, <1>2, <1>3, <1>4, <1>5, <1>6 DEF Next, Step

(***************************************************************************)
(* While combinations are chosen freely, whoever alone can complete a      *)
(* combination is in the work list or about to be bound                    *)
(* (combination.cpp:145-169, parameter.cpp:38-47), for every model, every  *)
(* input and every mode.                                                   *)
(***************************************************************************)
THEOREM LastAreQueued == Spec => []LastParamsQueued
<1>1. Init => QueueInv
  BY DEF Init, QueueInv
<1>2. QueueInv => LastParamsQueued
  BY DEF QueueInv, LastParamsQueued, Waiting
<1> QED BY <1>1, <1>2, QueueStep, TypeCorrect, PTL DEF Spec

-----------------------------------------------------------------------------
(* The entries of the bit vectors *)

(***************************************************************************)
(* What processExclusions leaves, and nobody changes: the exclusions are   *)
(* expressed by EXCLUDED entries, in a combination that contains them or   *)
(* in one of their own, and only valid base entries were ever OPEN.        *)
(***************************************************************************)
Prepared ==
  /\ DOMAIN BaseCombos \subseteq ComboIds
  /\ \A c \in DOMAIN BaseCombos : vecCombo[c] = BaseCombos[c]
  /\ excluded = { k \in AllCells(vecCombo) : ViolatesAny(k, exclusions) }
  /\ \A e \in exclusions :
       \/ \E c \in DOMAIN BaseCombos : ParamsOf(e) \subseteq BaseCombos[c]
       \/ \E c \in ComboIds : vecCombo[c] = ParamsOf(e)
  /\ \A k \in opened : k \in AllCells(BaseCombos) /\ ~ ViolatesAny(k, exclusions)

(* What is OPEN is in no row, finished or under construction. *)
Uncovered == \A k \in opened : ~ Contained(k, row) /\ ~ Seen(k)

EntryInv ==
  /\ Consistent(row)
  /\ pc = "start" => \A p \in Param : Len(columns[p]) = 0
  /\ pc \notin {"start", "asserted"} => Prepared /\ Uncovered

LEMMA BaseCellNotEmpty ==
  ASSUME NEW k \in AllCells(BaseCombos)
  PROVE  k # {} /\ \E c \in DOMAIN BaseCombos : k \in Cells(BaseCombos[c])
<1>1. PICK c \in DOMAIN BaseCombos : k \in Cells(BaseCombos[c])
  BY DEF AllCells
<1>2. BaseCombos[c] \in SUBSET Param /\ BaseCombos[c] # {}
  BY GcdAssumption
<1>3. ParamsOf(k) = BaseCombos[c]
  BY <1>1, <1>2, CellShape
<1>4. k # {}
  BY <1>2, <1>3 DEF ParamsOf
<1> QED BY <1>1, <1>4

RowAt(cols, i) == { <<p, cols[p][i]>> : p \in Param }

(* Row number i is in all columns: it was finished before the row under    *)
(* construction was begun, or it is that row.                              *)
LEMMA LastFinished ==
  ASSUME NEW cols, NEW r \in SUBSET Term, NEW n \in Nat,
         \A p \in Param : Len(cols[p]) = IF p \in ParamsOf(r) THEN n + 1 ELSE n,
         \A t \in r : cols[t[1]][Len(cols[t[1]])] = t[2],
         NEW i \in Nat \ {0}, \A p \in Param : i <= Len(cols[p])
  PROVE  \/ i <= n
         \/ /\ i = n + 1
            /\ ParamsOf(r) = Param
            /\ RowAt(cols, i) = r
<1> SUFFICES ASSUME ~ (i <= n)
             PROVE  /\ i = n + 1
                    /\ ParamsOf(r) = Param
                    /\ RowAt(cols, i) = r
  OBVIOUS
<1>1. ParamsOf(r) \subseteq Param
  BY TermShape DEF ParamsOf
<1>2. \A p \in Param : p \in ParamsOf(r)
  OBVIOUS
<1>3. i = n + 1
  <2>1. PICK p \in Param : TRUE
    BY ParamAssumption
  <2>2. i <= n + 1
    BY <1>2, <2>1
  <2> QED BY <2>2
<1>4. \A t \in r : t[1] \in Param /\ cols[t[1]][i] = t[2] /\ t = <<t[1], t[2]>>
  BY <1>2, <1>3, TermShape
<1>5. \A p \in Param : <<p, cols[p][i]>> \in r
  <2> SUFFICES ASSUME NEW p \in Param PROVE <<p, cols[p][i]>> \in r
    OBVIOUS
  <2>1. PICK t \in r : t[1] = p
    BY <1>2 DEF ParamsOf
  <2> QED BY <1>4, <2>1
<1>6. \A t \in r : t \in { <<p, cols[p][i]>> : p \in Param }
  BY <1>4
<1>7. r = { <<p, cols[p][i]>> : p \in Param }
  BY <1>5, <1>6
<1>8. ParamsOf(r) = Param
  BY <1>1, <1>2
<1> QED BY <1>3, <1>7, <1>8 DEF RowAt

LEMMA ProcessExclusionsEntries ==
  TypeOK /\ CountInv /\ EntryInv /\ ProcessExclusions => EntryInv'
<1> SUFFICES ASSUME TypeOK, CountInv, EntryInv, ProcessExclusions PROVE EntryInv'
  OBVIOUS
<1>1. PICK new \in ExclusionCombos(exclusions) : vecCombo' = BaseCombos \o new
  BY DEF ProcessExclusions
<1>2. /\ exclusions \in ExclusionChoices /\ IsFiniteSet(Uncontainable(exclusions))
      /\ new \in AnyOrder(Uncontainable(exclusions))
  BY <1>1, UncontainableShape DEF ExclusionCombos, TypeOK
<1> DEFINE T == SUBSET Param
<1>3. /\ new \in Seq(T) /\ BaseCombos \in Seq(T)
      /\ \A S \in Uncontainable(exclusions) : \E i \in DOMAIN new : new[i] = S
  BY <1>2, UncontainableShape, AnyOrderShape, AnyOrderAll, SeqMonotonic, GcdAssumption
<1> HIDE DEF T
<1>4. /\ \A c \in DOMAIN BaseCombos : /\ c \in DOMAIN (BaseCombos \o new)
                                      /\ (BaseCombos \o new)[c] = BaseCombos[c]
      /\ \A i \in DOMAIN new : /\ Len(BaseCombos) + i \in DOMAIN (BaseCombos \o new)
                               /\ (BaseCombos \o new)[Len(BaseCombos) + i] = new[i]
  <2>1. \A c \in DOMAIN BaseCombos : /\ c \in DOMAIN (BaseCombos \o new)
                                     /\ (BaseCombos \o new)[c] = BaseCombos[c]
    BY <1>3, ConcatMembers
  <2>2. \A i \in DOMAIN new : /\ Len(BaseCombos) + i \in DOMAIN (BaseCombos \o new)
                              /\ (BaseCombos \o new)[Len(BaseCombos) + i] = new[i]
    BY <1>3, ConcatMembers
  <2> QED BY <2>1, <2>2
<1>5. /\ exclusions' = exclusions /\ row' = row /\ columns' = columns
      /\ pc = "start" /\ pc' = "seeds"
      /\ excluded' = { k \in AllCells(vecCombo') : ViolatesAny(k, exclusions) }
      /\ opened' = AllCells(BaseCombos) \ excluded'
  BY DEF ProcessExclusions, input, rowState
<1>6. /\ DOMAIN BaseCombos \subseteq DOMAIN vecCombo'
      /\ \A c \in DOMAIN BaseCombos : vecCombo'[c] = BaseCombos[c]
  BY <1>1, <1>4
<1>7. ASSUME NEW e \in exclusions,
             \A c \in DOMAIN BaseCombos : ~ (ParamsOf(e) \subseteq BaseCombos[c])
      PROVE  \E c \in DOMAIN vecCombo' : vecCombo'[c] = ParamsOf(e)
  <2>1. ParamsOf(e) \in Uncontainable(exclusions)
    BY <1>7 DEF Uncontainable
  <2> QED BY <1>1, <1>3, <1>4, <2>1
<1>8. AllCells(BaseCombos) \subseteq AllCells(vecCombo')
  BY <1>6 DEF AllCells
<1>9. \A k \in opened' : k \in AllCells(BaseCombos) /\ ~ ViolatesAny(k, exclusions)
  BY <1>5, <1>8
<1>10. Prepared'
  BY <1>5, <1>6, <1>7, <1>9 DEF Prepared, ComboIds
<1>11. ASSUME NEW k \in opened'
       PROVE  ~ Contained(k, row) /\ ~ Seen(k)
  <2>1. k # {} /\ row = {}
    BY <1>5, <1>9, BaseCellNotEmpty DEF CountInv
  <2>2. \A p \in Param : Len(columns[p]) = 0
    BY <1>5 DEF EntryInv
  <2>3. ~ Seen(k)
    BY <2>2, ParamAssumption DEF Seen
  <2> QED BY <2>1, <2>3 DEF Contained
<1>12. Uncovered'
  BY <1>5, <1>11 DEF Uncovered, Seen
<1> QED BY <1>5, <1>10, <1>12 DEF EntryInv, Consistent

(* What a Bind appends keeps the columns in step with the row.             *)
LEMMA AppendedColumns ==
  ASSUME TypeOK, NEW n \in Nat, InStep(n), RowInColumns,
         NEW p \in Param \ BoundParams, NEW v \in Values(p),
         NEW queue \in Seq(Param), Bind(p, v, queue)
  PROVE  /\ row' = row \cup {<<p, v>>} /\ row' \in SUBSET Term
         /\ ParamsOf(row') = BoundParams \cup {p}
         /\ \A q \in Param :
              /\ Len(columns'[q]) = IF q \in ParamsOf(row') THEN n + 1 ELSE n
              /\ \A i \in 1 .. n : columns'[q][i] = columns[q][i]
         /\ \A t \in row' : columns'[t[1]][Len(columns'[t[1]])] = t[2]
<1>1. row' = row \cup {<<p, v>>} /\ columns' = [columns EXCEPT ![p] = Append(@, v)]
  BY DEF Bind
<1>2. row' \in SUBSET Term
  BY <1>1, TermShape DEF TypeOK
<1>3. ParamsOf(row') = BoundParams \cup {p}
  BY <1>1, ParamsOfAdd DEF BoundParams
<1>4. /\ columns[p] \in Seq(Values(p)) /\ DOMAIN columns = Param
      /\ \A q \in Param : columns[q] \in Seq(Values(q))
  BY DEF TypeOK
<1>5. /\ columns'[p] = Append(columns[p], v)
      /\ Len(columns'[p]) = Len(columns[p]) + 1
      /\ columns'[p][Len(columns[p]) + 1] = v
      /\ \A i \in 1 .. Len(columns[p]) : columns'[p][i] = columns[p][i]
      /\ \A q \in Param \ {p} : columns'[q] = columns[q]
  BY <1>1, <1>4
<1>6. \A q \in Param :
        /\ Len(columns'[q]) = IF q \in ParamsOf(row') THEN n + 1 ELSE n
        /\ \A i \in 1 .. n : columns'[q][i] = columns[q][i]
  <2> SUFFICES ASSUME NEW q \in Param
               PROVE  /\ Len(columns'[q]) = IF q \in ParamsOf(row') THEN n + 1 ELSE n
                      /\ \A i \in 1 .. n : columns'[q][i] = columns[q][i]
    OBVIOUS
  <2>1. CASE q = p
    <3>1. Len(columns[p]) = n
      BY DEF InStep
    <3> QED BY <1>3, <1>5, <2>1, <3>1
  <2>2. CASE q # p
    BY <1>3, <1>5, <2>2 DEF InStep
  <2> QED BY <2>1, <2>2
<1>7. \A t \in row' : columns'[t[1]][Len(columns'[t[1]])] = t[2]
  <2> SUFFICES ASSUME NEW t \in row \cup {<<p, v>>}
               PROVE  columns'[t[1]][Len(columns'[t[1]])] = t[2]
    BY <1>1
  <2>1. CASE t = <<p, v>>
    BY <1>5, <2>1
  <2>2. CASE t \in row
    <3>1. t[1] \in BoundParams /\ t[1] \in Param
      BY <2>2, TermShape DEF BoundParams, ParamsOf, TypeOK
    <3> QED BY <1>5, <2>2, <3>1 DEF RowInColumns
  <2> QED BY <2>1, <2>2
<1> QED BY <1>1, <1>2, <1>3, <1>6, <1>7

LEMMA ConsistentAdd ==
  ASSUME NEW r, Consistent(r), NEW p, NEW v, p \notin ParamsOf(r)
  PROVE  Consistent(r \cup {<<p, v>>})
<1>1. \A t \in r : t[1] # p
  BY DEF ParamsOf
<1> QED BY <1>1 DEF Consistent

(* An open entry that the row now contains was completed by the Bind, and  *)
(* is open no more.                                                        *)
LEMMA BindEntries ==
  ASSUME TypeOK, CountsRight, CoverInv, EntryInv, pc \notin {"start", "asserted"},
         NEW p \in Param \ BoundParams, NEW v \in Values(p),
         NEW queue \in Seq(Param), Bind(p, v, queue),
         UNCHANGED <<vecCombo, excluded, exclusions>>
  PROVE  Consistent(row)' /\ Prepared' /\ Uncovered'
<1>1. PICK n \in Nat : InStep(n)
  BY DEF CoverInv
<1>2. /\ row' = row \cup {<<p, v>>} /\ row' \in SUBSET Term
      /\ ParamsOf(row') = BoundParams \cup {p}
      /\ \A q \in Param :
           /\ Len(columns'[q]) = IF q \in ParamsOf(row') THEN n + 1 ELSE n
           /\ \A i \in 1 .. n : columns'[q][i] = columns[q][i]
      /\ \A t \in row' : columns'[t[1]][Len(columns'[t[1]])] = t[2]
  BY <1>1, AppendedColumns DEF CoverInv
<1>3. opened' = opened \ NewlyCovered(p, v)
  BY DEF Bind
<1>4. Consistent(row')
  BY <1>2, ConsistentAdd DEF EntryInv, BoundParams
<1>5. Prepared'
  BY <1>3 DEF EntryInv, Prepared, ComboIds
<1>6. ASSUME NEW k \in opened', Contained(k, row')
      PROVE  FALSE
  <2>1. k \in opened /\ ~ Contained(k, row)
    BY <1>3, <1>6 DEF EntryInv, Uncovered
  <2>2. PICK c \in ComboIds : k \in Cells(vecCombo[c])
    BY <2>1 DEF TypeOK, AllCells, ComboIds
  <2>3. ParamsOf(k) = vecCombo[c] /\ vecCombo[c] \in SUBSET Param
    BY <2>2, ComboShape, CellShape
  <2>4. <<p, v>> \in k
    BY <1>2, <1>6, <2>1 DEF Contained
  <2>5. p \in vecCombo[c]
    <3>1. <<p, v>>[1] = p
      OBVIOUS
    <3> QED BY <2>3, <2>4, <3>1 DEF ParamsOf
  <2>6. vecCombo[c] \subseteq BoundParams \cup {p}
    BY <1>2, <1>6, <2>3 DEF Contained, ParamsOf
  <2>7. Counted(p)[c] = Cardinality(vecCombo[c])
    <3>1. vecCombo[c] \cap (BoundParams \cup {p}) = vecCombo[c]
      BY <2>6
    <3> QED BY <3>1, CountedRight
  <2>8. Project(row \cup {<<p, v>>}, vecCombo[c]) = k
    <3>1. k \in SUBSET row'
      BY <1>6 DEF Contained
    <3>2. Project(row', ParamsOf(k)) = k
      BY <1>4, <3>1, CellIsProject
    <3> QED BY <1>2, <2>3, <3>2
  <2>9. c \in Hit(p, v)
    BY <2>1, <2>5, <2>7, <2>8 DEF Hit
  <2>10. k \in NewlyCovered(p, v)
    BY <2>8, <2>9 DEF NewlyCovered
  <2> QED BY <1>3, <1>6, <2>10
<1>7. ASSUME NEW k \in opened', Seen(k)'
      PROVE  FALSE
  <2>1. PICK i \in Nat \ {0} :
          /\ \A q \in Param : i <= Len(columns'[q])
          /\ \A t \in k : columns'[t[1]][i] = t[2]
    BY <1>7 DEF Seen
  <2>2. k \in opened /\ ~ Seen(k)
    BY <1>3, <1>7 DEF EntryInv, Uncovered
  <2>3. k \in SUBSET Term
    BY <2>2, BaseCellShape DEF EntryInv, Prepared
  <2>4. CASE i <= n
    <3>1. \A q \in Param : i <= Len(columns[q]) /\ columns[q][i] = columns'[q][i]
      BY <1>1, <1>2, <2>4 DEF InStep
    <3>2. \A t \in k : columns[t[1]][i] = t[2]
      BY <2>1, <2>3, <3>1, TermShape
    <3> QED BY <2>2, <3>1, <3>2 DEF Seen
  <2>5. CASE RowAt(columns', i) = row'
    <3>1. \A t \in k : t \in row'
      <4> SUFFICES ASSUME NEW t \in k PROVE t \in row'
        OBVIOUS
      <4>1. t[1] \in Param /\ t = <<t[1], columns'[t[1]][i]>>
        BY <2>1, <2>3, TermShape
      <4> QED BY <2>5, <4>1 DEF RowAt
    <3> QED BY <1>6, <3>1 DEF Contained
  <2>6. i <= n \/ RowAt(columns', i) = row'
    <3>1. \A q \in Param : Len(columns'[q]) = IF q \in ParamsOf(row') THEN n + 1 ELSE n
      BY <1>2
    <3>2. \A t \in row' : columns'[t[1]][Len(columns'[t[1]])] = t[2]
      BY <1>2
    <3>3. \A q \in Param : i <= Len(columns'[q])
      BY <2>1
    <3>4. row' \in SUBSET Term
      BY <1>2
    <3> QED BY <3>1, <3>2, <3>3, <3>4, LastFinished
  <2> QED BY <2>1, <2>4, <2>5, <2>6
<1> QED BY <1>4, <1>5, <1>6, <1>7 DEF Uncovered

LEMMA BindNextEntries ==
  TypeOK /\ CountInv /\ CoverInv /\ EntryInv /\ BindNext => EntryInv'
<1> SUFFICES ASSUME TypeOK, CountInv, CoverInv, EntryInv, BindNext PROVE EntryInv'
  OBVIOUS
<1> DEFINE p == Head(todo)[1]
           v == Head(todo)[2]
<1>1. /\ p \in Param \ BoundParams /\ v \in Values(p) /\ worklist \in Seq(Param)
      /\ Bind(p, v, worklist)
      /\ UNCHANGED <<pc, vecCombo, excluded, exclusions>>
      /\ pc \in {"row", "random", "drawn"}
  BY DEF BindNext, Bindable, TypeOK, input
<1>2. CountsRight
  BY <1>1 DEF CountInv, Counting
<1> HIDE DEF p, v
<1>3. Consistent(row)' /\ Prepared' /\ Uncovered'
  BY <1>1, <1>2, BindEntries
<1> QED BY <1>1, <1>3 DEF EntryInv

LEMMA PickEntries ==
  TypeOK /\ CountInv /\ CoverInv /\ EntryInv /\ Pick => EntryInv'
<1> SUFFICES ASSUME TypeOK, CountInv, CoverInv, EntryInv, Pick PROVE EntryInv'
  OBVIOUS
<1> DEFINE p == Head(worklist)
<1>1. PICK v \in Pickable(p) : Bindable(p, v) /\ Bind(p, v, Tail(worklist))
  BY DEF Pick
<1>2. /\ pc = "row" /\ UNCHANGED <<pc, vecCombo, excluded, exclusions>>
      /\ p \in Param /\ Tail(worklist) \in Seq(Param)
  BY DEF Pick, Picking, TypeOK, input
<1>3. p \in Param \ BoundParams /\ v \in Values(p)
  BY <1>1, <1>2 DEF Bindable
<1>4. CountsRight
  BY <1>2 DEF CountInv, Counting
<1> HIDE DEF p
<1>5. Consistent(row)' /\ Prepared' /\ Uncovered'
  BY <1>1, <1>2, <1>3, <1>4, BindEntries
<1> QED BY <1>2, <1>5 DEF EntryInv

LEMMA EntriesKept ==
  ASSUME EntryInv, UNCHANGED <<exclusions, vecCombo, opened, excluded, columns>>,
         row' \in {row, {}}, pc' \in {"start", "asserted"} \/ pc \notin {"start", "asserted"},
         pc' = "start" => pc = "start"
  PROVE  EntryInv'
<1>1. Consistent(row)'
  BY DEF EntryInv, Consistent
<1>2. ASSUME pc' \notin {"start", "asserted"}
      PROVE  Prepared' /\ Uncovered'
  <2>1. Prepared /\ Uncovered
    BY <1>2 DEF EntryInv
  <2>2. \A k \in opened : k # {}
    BY <2>1, BaseCellNotEmpty DEF Prepared
  <2>3. Prepared'
    BY <2>1 DEF Prepared, ComboIds
  <2>4. \A k \in opened : ~ Contained(k, row')
    BY <2>1, <2>2 DEF Uncovered, Contained
  <2> QED BY <2>1, <2>3, <2>4 DEF Uncovered, Seen
<1> QED BY <1>1, <1>2 DEF EntryInv

LEMMA EntryStep ==
  TypeOK /\ CountInv /\ CoverInv /\ EntryInv /\ [Next]_vars => EntryInv'
<1> SUFFICES ASSUME TypeOK, CountInv, CoverInv, EntryInv, [Next]_vars PROVE EntryInv'
  OBVIOUS
<1>1. CASE ProcessExclusions  BY <1>1, ProcessExclusionsEntries
<1>2. CASE BindNext           BY <1>2, BindNextEntries
<1>3. CASE Pick               BY <1>3, PickEntries
<1>4. CASE EmptyExclusion \/ FixRowSeeds \/ EndRow \/ AssertFails \/ NoChoice \/ NoValue
           \/ Cancel
  BY <1>4, EntriesKept
     DEF EmptyExclusion, FixRowSeeds, EndRow, AssertFails, NoChoice, NoValue, Cancel,
         Choosing, Picking, AtTop, input, counters, rowState
<1>5. CASE GiveUp \/ Finish
  BY <1>5, EntriesKept DEF GiveUp, Finish, AtTop, MoveResults, input, counters, rowState
<1>6. CASE StartRow
  BY <1>6, EntriesKept DEF StartRow, AtTop, input
<1>7. CASE DrawRow
  BY <1>7, EntriesKept DEF DrawRow, input, counters
<1>8. CASE ChooseOpen \/ ChooseCovered
  BY <1>8, EntriesKept DEF ChooseOpen, ChooseCovered, Choosing, BindCell, input, counters
<1>9. CASE UNCHANGED vars
  BY <1>9, EntriesKept DEF vars
<1> QED BY <1>1, <1>2, <1>3, <1>4, <1>5, <1>6, <1>7, <1>8, <1>9 DEF Next, Step

LEMMA InitEntries == Init => EntryInv
<1> SUFFICES ASSUME Init PROVE EntryInv
  OBVIOUS
<1>1. \A p \in Param : Len(columns[p]) = 0
  BY DEF Init
<1> QED BY <1>1 DEF Init, EntryInv, Consistent

-----------------------------------------------------------------------------
(* The finished rows *)

Shortest(cols) ==
  CHOOSE m \in { Len(cols[p]) : p \in Param } : \A p \in Param : m <= Len(cols[p])

LEMMA ShortestColumn ==
  ASSUME NEW cols, NEW r \in SUBSET Term, NEW n \in Nat,
         \A p \in Param : Len(cols[p]) = IF p \in ParamsOf(r) THEN n + 1 ELSE n
  PROVE  Shortest(cols) = IF ParamsOf(r) = Param THEN n + 1 ELSE n
<1> DEFINE m == IF ParamsOf(r) = Param THEN n + 1 ELSE n
           lens == { Len(cols[p]) : p \in Param }
           IsShortest(x) == \A p \in Param : x <= Len(cols[p])
<1>1. ParamsOf(r) \subseteq Param
  BY TermShape DEF ParamsOf
<1>2. \E p \in Param : Len(cols[p]) = m
  <2>1. CASE ParamsOf(r) = Param
    BY <2>1, ParamAssumption
  <2>2. CASE ParamsOf(r) # Param
    BY <1>1, <2>2
  <2> QED BY <2>1, <2>2
<1>3. m \in Nat /\ IsShortest(m)
  OBVIOUS
<1>4. m \in lens
  BY <1>2
<1>5. \A x \in lens : IsShortest(x) => x = m
  <2> SUFFICES ASSUME NEW p \in Param, \A q \in Param : Len(cols[p]) <= Len(cols[q])
               PROVE  Len(cols[p]) = m
    OBVIOUS
  <2>1. Len(cols[p]) \in Nat /\ m <= Len(cols[p])
    BY <1>3
  <2>2. Len(cols[p]) <= m
    BY <1>2
  <2> QED BY <1>3, <2>1, <2>2
<1>6. Shortest(cols) = CHOOSE x \in lens : IsShortest(x)
  BY DEF Shortest
<1> HIDE DEF m, lens, IsShortest
<1>7. Shortest(cols) = m
  BY <1>3, <1>4, <1>5, <1>6
<1> QED BY <1>7 DEF m

LEMMA DoneRowsAre ==
  ASSUME TypeOK, NEW n \in Nat, InStep(n)
  PROVE  /\ DoneRows = [i \in 1 .. Shortest(columns) |-> RowAt(columns, i)]
         /\ Shortest(columns) = IF BoundParams = Param THEN n + 1 ELSE n
         /\ Shortest(columns) \in Nat
         /\ \A i \in Nat \ {0} :
              (i <= Shortest(columns)) <=> (\A p \in Param : i <= Len(columns[p]))
<1>1. DoneRows = [i \in 1 .. Shortest(columns) |-> RowAt(columns, i)]
  BY DEF DoneRows, Shortest, RowAt
<1>2. row \in SUBSET Term /\ BoundParams \subseteq Param
  BY TermShape DEF TypeOK, BoundParams, ParamsOf
<1>3. Shortest(columns) = IF BoundParams = Param THEN n + 1 ELSE n
  <2>1. \A p \in Param : Len(columns[p]) = IF p \in ParamsOf(row) THEN n + 1 ELSE n
    BY DEF InStep, BoundParams
  <2> QED BY <1>2, <2>1, ShortestColumn DEF BoundParams
<1>4. ASSUME NEW i \in Nat \ {0}
      PROVE  (i <= Shortest(columns)) <=> (\A p \in Param : i <= Len(columns[p]))
  <2>1. CASE BoundParams = Param
    BY <1>3, <2>1, ParamAssumption DEF InStep
  <2>2. CASE BoundParams # Param
    <3>1. PICK p \in Param : p \notin BoundParams
      BY <1>2, <2>2
    <3> QED BY <1>3, <2>2, <3>1 DEF InStep
  <2> QED BY <2>1, <2>2
<1> QED BY <1>1, <1>3, <1>4

(* An entry is seen if and only if a finished row contains it.             *)
LEMMA SeenIsDone ==
  ASSUME TypeOK, NEW n \in Nat, InStep(n), NEW k \in SUBSET Term
  PROVE  Seen(k) <=> \E m \in DOMAIN DoneRows : Contained(k, DoneRows[m])
<1>1. /\ DOMAIN DoneRows = 1 .. Shortest(columns) /\ Shortest(columns) \in Nat
      /\ \A i \in DOMAIN DoneRows : DoneRows[i] = RowAt(columns, i)
      /\ \A i \in Nat \ {0} :
           (i <= Shortest(columns)) <=> (\A p \in Param : i <= Len(columns[p]))
  BY DoneRowsAre
<1>2. ASSUME NEW i \in DOMAIN DoneRows
      PROVE  Contained(k, DoneRows[i]) <=> \A t \in k : columns[t[1]][i] = t[2]
  <2>1. ASSUME Contained(k, RowAt(columns, i)), NEW t \in k
        PROVE  columns[t[1]][i] = t[2]
    BY <2>1 DEF Contained, RowAt
  <2>2. ASSUME \A t \in k : columns[t[1]][i] = t[2], NEW t \in k
        PROVE  t \in RowAt(columns, i)
    <3>1. t[1] \in Param /\ t = <<t[1], t[2]>>
      BY TermShape
    <3> QED BY <2>2, <3>1 DEF RowAt
  <2> QED BY <1>1, <2>1, <2>2 DEF Contained
<1>3. \A i : i \in DOMAIN DoneRows <=> i \in Nat \ {0} /\ i <= Shortest(columns)
  BY <1>1
<1> QED BY <1>1, <1>2, <1>3 DEF Seen

(***************************************************************************)
(* The bit vectors hold open exactly the valid entries that no row         *)
(* contains, finished or under construction (combination.cpp:145-169), in  *)
(* every mode and for every input: no coverage is claimed that was not     *)
(* delivered, and no row is made for an entry another row has.             *)
(***************************************************************************)
THEOREM CoverageIsRight == Spec => []CoverageIsExact
<1>1. TypeOK /\ CoverInv /\ EntryInv => CoverageIsExact
  <2> SUFFICES ASSUME TypeOK, CoverInv, EntryInv,
                      pc \notin {"start", "seeds", "asserted"},
                      NEW k \in AllCells(BaseCombos)
               PROVE  k \in opened <=>
                        /\ ~ ViolatesAny(k, exclusions)
                        /\ ~ Contained(k, row)
                        /\ \A n \in DOMAIN DoneRows : ~ Contained(k, DoneRows[n])
    BY DEF CoverageIsExact
  <2>1. PICK n \in Nat : InStep(n)
    BY DEF CoverInv
  <2>2. Prepared /\ Uncovered /\ Accounted
    BY DEF EntryInv, CoverInv
  <2>3. Seen(k) <=> \E m \in DOMAIN DoneRows : Contained(k, DoneRows[m])
    BY <2>1, BaseCellShape, SeenIsDone
  <2>4. k \in excluded => ViolatesAny(k, exclusions)
    BY <2>2 DEF Prepared
  <2>5. k \in opened => ~ ViolatesAny(k, exclusions) /\ ~ Contained(k, row) /\ ~ Seen(k)
    BY <2>2 DEF Prepared, Uncovered
  <2>6. k \in opened \/ k \in excluded \/ Contained(k, row) \/ Seen(k)
    BY <2>2 DEF Accounted
  <2> QED BY <2>3, <2>4, <2>5, <2>6
<1> QED BY <1>1, InitCover, CoverStep, InitCounts, CountStep, InitEntries, EntryStep,
           TypeCorrect, PTL DEF Spec

-----------------------------------------------------------------------------
(* Getting stuck *)

(* If some combination scores, one of the best is found. *)
LEMMA MostOfFound ==
  ASSUME TypeOK, NEW count, \A d \in ComboIds : count[d] \in Int,
         NEW c \in Selectable, count[c] > 0
  PROVE  MostOf(count) # {}
<1>1. Selectable \in SUBSET ComboIds
  BY DEF Selectable
<1>2. IsFiniteSet(Selectable)
  BY <1>1, ComboIdsFinite
<1>3. PICK d \in Selectable : \A x \in Selectable : count[x] <= count[d]
  BY <1>1, <1>2, Largest
<1>4. count[d] > 0
  BY <1>1, <1>3
<1> QED BY <1>3, <1>4 DEF MostOf

LEMMA Scores ==
  ASSUME TypeOK, NEW c \in ComboIds
  PROVE  /\ OpenScore[c] \in Int /\ (OpenCells(c) # {} => OpenScore[c] > 0)
         /\ CoveredScore[c] \in Int /\ (CoveredCells(c) # {} => CoveredScore[c] > 0)
<1>1. OpenCells(c) \in SUBSET opened
  BY DEF OpenCells, Agreeing
<1>2. /\ IsFiniteSet(OpenCells(c)) /\ Cardinality(OpenCells(c)) \in Nat
      /\ OpenCells(c) # {} => Cardinality(OpenCells(c)) # 0
  BY <1>1, OpenedFinite, FS_EmptySet
<1>3. vecCombo[c] \in SUBSET Param
  BY ComboShape
<1>4. CoveredCells(c) \in SUBSET (SUBSET Term)
  BY <1>3, CellShape DEF CoveredCells, Agreeing
<1>5. /\ IsFiniteSet(CoveredCells(c)) /\ Cardinality(CoveredCells(c)) \in Nat
      /\ CoveredCells(c) # {} => Cardinality(CoveredCells(c)) # 0
  BY <1>4, SetsOfCellsFinite, FS_EmptySet
<1> QED BY <1>2, <1>5 DEF OpenScore, CoveredScore

(* A combination of an unbound parameter may still be chosen.              *)
LEMMA UnboundSelectable ==
  ASSUME TypeOK, CountsRight, NEW p \in Param \ BoundParams, NEW c \in CombosOf(p)
  PROVE  c \in Selectable
<1>1. c \in ComboIds /\ p \in vecCombo[c] /\ vecCombo[c] \in SUBSET Param
  BY ComboShape DEF CombosOf
<1>2. vecCombo[c] \cap BoundParams # vecCombo[c]
  BY <1>1
<1>3. IsFiniteSet(vecCombo[c])
  BY <1>1, SubsetsOfParamFinite
<1>4. Cardinality(vecCombo[c] \cap BoundParams) # Cardinality(vecCombo[c])
  BY <1>2, <1>3, FS_Subset
<1> QED BY <1>1, <1>4 DEF Selectable, FullyBound, CountsRight

(* One of the values that are not ruled out is the best.                   *)
LEMMA BestFound ==
  ASSUME TypeOK, NEW p \in Param, NEW v \in Values(p), ~ RuledOut(p, v)
  PROVE  BestValues(p) # {}
<1> DEFINE ok    == { w \in Values(p) : ~ RuledOut(p, w) }
           first == [w \in ok |-> Completes(p, w)]
           score == [w \in ok |-> <<Completes(p, w), TotalZeros(p, w)>>]
<1>1. IsFiniteSet(ok) /\ ok # {}
  <2>1. IsFiniteSet(Values(p)) /\ ok \subseteq Values(p)
    BY ValuesFinite
  <2> QED BY <2>1, FS_Subset
<1>2. \A w : Completes(p, w) \in Int /\ TotalZeros(p, w) \in Int
  <2> SUFFICES ASSUME NEW w PROVE Completes(p, w) \in Int /\ TotalZeros(p, w) \in Int
    OBVIOUS
  <2>1. { c \in LastOf(p) : Reaches(c, row \cup {<<p, w>>}) # {} } \in SUBSET ComboIds
    BY DEF LastOf, CombosOf
  <2>2. Completes(p, w) \in Nat
    BY <2>1, ComboIdsFinite DEF Completes
  <2>3. UNION { Reaches(c, row \cup {<<p, w>>}) : c \in CombosOf(p) } \in SUBSET opened
    BY DEF Reaches
  <2>4. TotalZeros(p, w) \in Nat
    BY <2>3, OpenedFinite DEF TotalZeros
  <2> QED BY <2>2, <2>4
<1>3. PICK x \in ok : \A w \in ok : first[w] <= first[x]
  <2>1. \A w \in ok : first[w] \in Int
    BY <1>2
  <2> HIDE DEF ok, first
  <2> QED BY <1>1, <2>1, Largest
<1> DEFINE top    == { w \in ok : first[w] = first[x] }
           second == [w \in top |-> TotalZeros(p, w)]
<1>4. IsFiniteSet(top) /\ x \in top
  BY <1>1, FS_Subset
<1>5. PICK y \in top : \A w \in top : second[w] <= second[y]
  <2>1. \A w \in top : second[w] \in Int
    BY <1>2
  <2> HIDE DEF top, second
  <2> QED BY <1>4, <2>1, Largest
<1>6. y \in ok
  OBVIOUS
<1>7. ASSUME NEW w \in ok
      PROVE  \/ score[w][1] < score[y][1]
             \/ /\ score[w][1] = score[y][1]
                /\ score[w][2] <= score[y][2]
  <2>1. Completes(p, w) <= Completes(p, y)
    BY <1>3, <1>5
  <2>2. Completes(p, w) = Completes(p, y) => TotalZeros(p, w) <= TotalZeros(p, y)
    BY <1>5
  <2>3. /\ score[w][1] = Completes(p, w) /\ score[w][2] = TotalZeros(p, w)
        /\ score[y][1] = Completes(p, y) /\ score[y][2] = TotalZeros(p, y)
    BY <1>6
  <2> QED BY <1>2, <2>1, <2>2, <2>3
<1>8. y \in BestValues(p)
  BY <1>6, <1>7 DEF BestValues
<1> QED BY <1>8

(* A value that is ruled out would complete an exclusion.                  *)
LEMMA RuledOutViolates ==
  ASSUME Prepared, NEW p, NEW v, RuledOut(p, v)
  PROVE  ViolatesAny(row \cup {<<p, v>>}, exclusions)
<1>1. PICK c \in LastOf(p) : Project(row \cup {<<p, v>>}, vecCombo[c]) \in excluded
  BY DEF RuledOut
<1>2. ViolatesAny(Project(row \cup {<<p, v>>}, vecCombo[c]), exclusions)
  BY <1>1 DEF Prepared
<1> QED BY <1>2 DEF ViolatesAny, Contained, Project

(* If no combination can be chosen for p, every entry that agrees with the *)
(* row is EXCLUDED.                                                        *)
LEMMA NoChoiceViolates ==
  ASSUME TypeOK, CountsRight, Prepared, MostOf(OpenScore) = {}, MostOf(CoveredScore) = {},
         NEW p \in Param \ BoundParams, NEW c \in CombosOf(p),
         NEW r \in Rows, Contained(row, r)
  PROVE  ViolatesAny(r, exclusions)
<1>1. /\ c \in ComboIds /\ vecCombo[c] \in SUBSET Param
      /\ \A d \in ComboIds : OpenScore[d] \in Int /\ CoveredScore[d] \in Int
  BY ComboShape, Scores DEF CombosOf
<1>2. OpenCells(c) = {} /\ CoveredCells(c) = {}
  <2>1. c \in Selectable
    BY UnboundSelectable
  <2>2. ~ (OpenScore[c] > 0) /\ ~ (CoveredScore[c] > 0)
    BY <1>1, <2>1, MostOfFound
  <2> QED BY <1>1, <2>2, Scores
<1> DEFINE k == Project(r, vecCombo[c])
<1>3. k \in Cells(vecCombo[c]) /\ ParamsOf(k) = vecCombo[c]
  <2>1. r \in SUBSET Term /\ Consistent(r) /\ ParamsOf(r) = Param
    BY CellShape DEF Rows
  <2>2. k \in Cells(vecCombo[c])
    BY <1>1, <2>1, ProjectIsCell
  <2> QED BY <1>1, <2>2, CellShape
<1>4. Contained(Project(row, vecCombo[c]), k)
  BY DEF Contained, Project
<1>5. k \in excluded
  <2>1. k \notin opened
    BY <1>2, <1>3, <1>4 DEF OpenCells, Agreeing
  <2> QED BY <1>2, <1>3, <1>4, <2>1 DEF CoveredCells, Agreeing
<1>6. ViolatesAny(k, exclusions)
  BY <1>5 DEF Prepared
<1> QED BY <1>6 DEF ViolatesAny, Contained, Project

(* If no value of p can be picked, whatever p has in a row violates.       *)
LEMMA NoValueViolates ==
  ASSUME TypeOK, Prepared, NEW p \in Param, BestValues(p) = {},
         NEW r \in Rows, Contained(row, r)
  PROVE  ViolatesAny(r, exclusions)
<1>1. r \in SUBSET Term /\ ParamsOf(r) = Param
  BY CellShape DEF Rows
<1>2. PICK t \in r : t[1] = p
  BY <1>1 DEF ParamsOf
<1>3. t[2] \in Values(p) /\ t = <<p, t[2]>>
  BY <1>1, <1>2, TermShape
<1>4. RuledOut(p, t[2])
  BY <1>3, BestFound
<1>5. ViolatesAny(row \cup {<<p, t[2]>>}, exclusions)
  BY <1>4, RuledOutViolates
<1> QED BY <1>3, <1>5 DEF ViolatesAny, Contained

LEMMA StuckStep ==
  TypeOK /\ CountInv /\ EntryInv /\ StuckForCause /\ [Next]_vars => StuckForCause'
<1> SUFFICES ASSUME TypeOK, CountInv, EntryInv, StuckForCause, [Next]_vars, pc' = "failed"
             PROVE  \/ \E p \in Param \ BoundParams' : CombosOf(p)' = {}
                    \/ \A r \in Rows : Contained(row', r) => ViolatesAny(r, exclusions')
  BY DEF StuckForCause
<1>1. \/ UNCHANGED vars
      \/ NoChoice
      \/ NoValue
  BY DEF Next, Step, ProcessExclusions, EmptyExclusion, FixRowSeeds, StartRow, EndRow,
         BindNext, AssertFails, ChooseOpen, ChooseCovered, Choosing, BindCell, Pick, Picking,
         DrawRow, GiveUp, Finish, MoveResults, Cancel
<1>2. /\ BoundParams' = BoundParams /\ row' = row /\ exclusions' = exclusions
      /\ \A p : CombosOf(p)' = CombosOf(p)
  BY <1>1 DEF vars, NoChoice, NoValue, input, rowState, BoundParams, CombosOf, ComboIds
<1>3. CASE UNCHANGED vars
  BY <1>2, <1>3 DEF StuckForCause, vars
<1>4. CASE NoChoice
  <2>1. /\ CountsRight /\ Prepared /\ unbound > 0
        /\ unbound = Cardinality(Param \ BoundParams)
        /\ MostOf(OpenScore) = {} /\ MostOf(CoveredScore) = {}
    BY <1>4 DEF NoChoice, Choosing, CountInv, Counting, EntryInv
  <2>2. PICK p \in Param \ BoundParams : TRUE
    BY <2>1, FS_EmptySet
  <2>3. CASE CombosOf(p) = {}
    BY <1>2, <2>3
  <2>4. CASE CombosOf(p) # {}
    BY <1>2, <2>1, <2>4, NoChoiceViolates
  <2> QED BY <2>3, <2>4
<1>5. CASE NoValue
  <2>1. Prepared /\ Head(worklist) \in Param /\ Pickable(Head(worklist)) = {}
    BY <1>5 DEF NoValue, Picking, EntryInv, TypeOK
  <2>2. BestValues(Head(worklist)) = {}
    BY <2>1 DEF Pickable
  <2> QED BY <1>2, <2>1, <2>2, NoValueViolates
<1> QED BY <1>1, <1>3, <1>4, <1>5

(***************************************************************************)
(* Whatever the mode and the input, the search gives up only when no valid *)
(* row extends the one under construction, or a parameter that is in no    *)
(* combination is left (model.cpp:283, parameter.cpp:125-130).             *)
(***************************************************************************)
THEOREM GivesUpForCause == Spec => []StuckForCause
<1>1. Init => StuckForCause
  BY DEF Init, StuckForCause
<1> QED BY <1>1, StuckStep, InitCounts, CountStep, InitCover, CoverStep,
           InitEntries, EntryStep, TypeCorrect, PTL DEF Spec

-----------------------------------------------------------------------------
(* Regular mode, one order of two or more, derived exclusions *)

(* What Model::choose makes at one order: every set of k parameters        *)
(* (model.cpp:812-840).                                                    *)
OfOrder(k) ==
  { BaseCombos[c] : c \in DOMAIN BaseCombos } = { S \in SUBSET Param : Cardinality(S) = k }

(* What the code sees to, in a model without mixed orders: exclusions are  *)
(* derived before gcd runs in Regular mode (task.cpp:100-169).             *)
SafeInput ==
  /\ SoundInput
  /\ Mode = "Regular"
  /\ \A E \in ExclusionChoices : Closed(E)
  /\ \E k \in Nat : k >= 2 /\ OfOrder(k)

Order == CHOOSE k \in Nat : k >= 2 /\ OfOrder(k)

LEMMA OrderShape ==
  ASSUME SafeInput
  PROVE  /\ Order \in Nat /\ Order >= 2
         /\ \A c \in DOMAIN BaseCombos : /\ BaseCombos[c] \in SUBSET Param
                                         /\ Cardinality(BaseCombos[c]) = Order
         /\ \A S \in SUBSET Param :
              Cardinality(S) = Order => \E c \in DOMAIN BaseCombos : BaseCombos[c] = S
<1>1. Order \in Nat /\ Order >= 2 /\ OfOrder(Order)
  BY DEF SafeInput, Order
<1> HIDE DEF Order
<1> QED BY <1>1 DEF OfOrder

(* As many parameters as terms. *)
LEMMA ParamsCount ==
  ASSUME NEW r \in SUBSET Term, Consistent(r)
  PROVE  Cardinality(ParamsOf(r)) = Cardinality(r)
<1> DEFINE f == [t \in r |-> t[1]]
<1>1. f \in Surjection(r, ParamsOf(r))
  <2>1. \A p \in ParamsOf(r) : \E t \in r : f[t] = p
    BY DEF ParamsOf
  <2>2. f \in [r -> ParamsOf(r)]
    BY DEF ParamsOf
  <2> QED BY <2>1, <2>2 DEF Surjection
<1>2. f \in Injection(r, ParamsOf(r))
  <2>1. \A s, t \in r : f[s] = f[t] => s = t
    BY DEF Consistent
  <2>2. f \in [r -> ParamsOf(r)]
    BY DEF ParamsOf
  <2> QED BY <2>1, <2>2 DEF Injection, IsInjective
<1>3. IsFiniteSet(r)
  BY SubsetsOfTermFinite
<1> HIDE DEF f
<1> QED BY <1>1, <1>2, <1>3, FS_Surjection

(* What the row has, and the bulk bind under way adds to it. *)
Plan == row \cup { todo[i] : i \in DOMAIN todo }

SeedsSafe ==
  \A i \in DOMAIN rowSeeds :
    /\ ~ ViolatesAny(rowSeeds[i], exclusions)
    /\ \A c \in DOMAIN BaseCombos :
         Cardinality(rowSeeds[i]) >= Cardinality(BaseCombos[c]) - 1

(***************************************************************************)
(* A row is begun for an open entry or a seed.  As soon as it has a term,  *)
(* so many parameters are planned that each other one is the last of some  *)
(* combination.                                                            *)
(***************************************************************************)
RowSafe ==
  /\ Plan \in SUBSET Term /\ Consistent(Plan) /\ ~ ViolatesAny(Plan, exclusions)
  /\ Plan = {} \/ Cardinality(ParamsOf(Plan)) >= Order - 1
  /\ row = {} => worklist = <<>> /\ opened # {}

(* The rows finished so far, read off the columns. *)
ColumnsValid ==
  \A i \in Nat \ {0} :
    (\A p \in Param : i <= Len(columns[p])) => ~ ViolatesAny(RowAt(columns, i), exclusions)

SafeInv ==
  /\ pc \in {"start", "seeds"} => rowSeeds = taskSeeds
  /\ AmpleSeeds =>
       /\ pc \in {"top", "row"} => SeedsSafe
       /\ pc = "row" => RowSafe
       /\ ColumnsValid
       /\ pc # "failed"

(* Within enough bound parameters, some combination lacks p only and       *)
(* contains all of a small enough set of them.                             *)
LEMMA LastSomewhere ==
  ASSUME SafeInput, Prepared, NEW B \in SUBSET Param, NEW p \in B,
         Cardinality(B) >= Order, NEW A \in SUBSET B, Cardinality(A) <= Order
  PROVE  \E c \in ComboIds : A \subseteq vecCombo[c] /\ vecCombo[c] \subseteq B
                             /\ Cardinality(vecCombo[c]) = Order
<1>1. Order \in Nat /\ IsFiniteSet(B)
  BY OrderShape, SubsetsOfParamFinite
<1>2. PICK S \in SUBSET B : A \subseteq S /\ Cardinality(S) = Order
  BY <1>1, Between
<1>3. PICK c \in DOMAIN BaseCombos : BaseCombos[c] = S
  BY <1>2, OrderShape
<1> QED BY <1>2, <1>3 DEF Prepared

(* All that is known of a state, whatever the input. *)
Grounds == TypeOK /\ CountInv /\ CoverInv /\ EntryInv /\ BindInv /\ QueueInv

LEMMA GroundsHold == ASSUME SoundInput PROVE Spec => []Grounds
<1>1. Init => QueueInv
  BY DEF Init, QueueInv
<1>2. TypeOK /\ CountInv /\ CoverInv /\ EntryInv /\ BindInv /\ QueueInv <=> Grounds
  BY DEF Grounds
<1> QED BY <1>1, <1>2, TypeCorrect, InitCounts, CountStep, InitCover, CoverStep,
           InitEntries, EntryStep, InitBind, BindStep, QueueStep, PTL DEF Spec

(* A combination of bound parameters and p lacks p only. *)
LEMMA LacksOnly ==
  ASSUME TypeOK, CountsRight, NEW p \in Param \ BoundParams, NEW c \in CombosOf(p),
         vecCombo[c] \subseteq BoundParams \cup {p}
  PROVE  boundCount[c] = Cardinality(vecCombo[c]) - 1 /\ c \in LastOf(p)
<1>1. c \in ComboIds /\ p \in vecCombo[c] /\ vecCombo[c] \in SUBSET Param
  BY ComboShape DEF CombosOf
<1>2. vecCombo[c] \cap BoundParams = vecCombo[c] \ {p}
  BY <1>1
<1>3. IsFiniteSet(vecCombo[c]) /\ Cardinality(vecCombo[c]) \in Nat
  BY <1>1, SubsetsOfParamFinite
<1>4. Cardinality(vecCombo[c] \ {p}) = Cardinality(vecCombo[c]) - 1
  <2> DEFINE S == vecCombo[c]
  <2>1. p \in S /\ IsFiniteSet(S)
    BY <1>1, <1>3
  <2> HIDE DEF S
  <2>2. Cardinality(S \ {p}) = Cardinality(S) - 1
    BY <2>1, FS_RemoveElement
  <2> QED BY <2>2 DEF S
<1>5. boundCount[c] = Cardinality(vecCombo[c]) - 1
  BY <1>1, <1>2, <1>4 DEF CountsRight
<1> QED BY <1>3, <1>5 DEF LastOf

(* What is bound, when the row has a term and no bulk bind is under way.   *)
LEMMA EnoughBound ==
  ASSUME SafeInput, TypeOK, RowSafe, todo = <<>>, row # {}, NEW p \in Param \ BoundParams
  PROVE  /\ BoundParams \cup {p} \in SUBSET Param
         /\ Cardinality(BoundParams \cup {p}) >= Order
<1>1. Plan = row
  BY DEF Plan
<1>2. Cardinality(BoundParams) >= Order - 1
  BY <1>1 DEF RowSafe, BoundParams
<1>3. BoundParams \in SUBSET Param
  BY TermShape DEF TypeOK, BoundParams, ParamsOf
<1>4. IsFiniteSet(BoundParams) /\ Cardinality(BoundParams) \in Nat
  BY <1>3, SubsetsOfParamFinite
<1>5. Cardinality(BoundParams \cup {p}) = Cardinality(BoundParams) + 1
  BY <1>4, FS_AddElement
<1> QED BY <1>2, <1>3, <1>4, <1>5, OrderShape

(* A combination is chosen for an empty row only: later someone waits.     *)
LEMMA ChosenFirst ==
  ASSUME SafeInput, Grounds, RowSafe, Choosing
  PROVE  row = {} /\ MostOf(OpenScore) # {}
<1>1. /\ TypeOK /\ CountsRight /\ Prepared /\ QueueInv
      /\ pc = "row" /\ todo = <<>> /\ worklist = <<>>
      /\ unbound > 0 /\ unbound = Cardinality(Param \ BoundParams)
  BY DEF Grounds, Choosing, CountInv, Counting, EntryInv
<1>2. ASSUME row # {} PROVE FALSE
  <2>1. PICK p \in Param \ BoundParams : TRUE
    BY <1>1, FS_EmptySet
  <2> DEFINE B == BoundParams \cup {p}
  <2>2. B \in SUBSET Param /\ Cardinality(B) >= Order /\ p \in B
    BY <1>1, <1>2, <2>1, EnoughBound
  <2>3. Order \in Nat /\ Order >= 2
    BY OrderShape
  <2>4. Cardinality({p}) = 1 /\ {p} \in SUBSET B
    BY FS_Singleton
  <2>5. PICK c \in ComboIds : /\ {p} \subseteq vecCombo[c] /\ vecCombo[c] \subseteq B
                              /\ Cardinality(vecCombo[c]) = Order
    <3> HIDE DEF B
    <3> QED BY <1>1, <2>2, <2>3, <2>4, LastSomewhere
  <2>6. boundCount[c] = Cardinality(vecCombo[c]) - 1
    BY <1>1, <2>1, <2>5, LacksOnly DEF CombosOf
  <2>7. p \in pending
    BY <1>1, <2>1, <2>3, <2>5, <2>6 DEF QueueInv
  <2> QED BY <1>1, <2>1, <2>7 DEF QueueInv, Waiting
<1>3. row = {} /\ opened # {}
  BY <1>2 DEF RowSafe
<1>4. PICK k \in opened : TRUE
  BY <1>3
<1>5. PICK c \in DOMAIN BaseCombos : k \in Cells(BaseCombos[c])
  BY <1>1, <1>4, BaseCellNotEmpty DEF Prepared
<1>6. /\ c \in ComboIds /\ vecCombo[c] = BaseCombos[c]
      /\ vecCombo[c] \in SUBSET Param /\ vecCombo[c] # {}
  BY <1>1, <1>5, GcdAssumption DEF Prepared
<1>7. ParamsOf(k) = vecCombo[c]
  BY <1>5, <1>6, CellShape
<1>8. k \in OpenCells(c)
  BY <1>3, <1>4, <1>7 DEF OpenCells, Agreeing, Contained, Project
<1>9. c \in Selectable
  <2>1. PICK p \in vecCombo[c] : TRUE
    BY <1>6
  <2>2. p \in Param \ BoundParams /\ c \in CombosOf(p)
    BY <1>3, <1>6, <2>1, NothingBound DEF CombosOf
  <2> QED BY <1>1, <2>2, UnboundSelectable
<1>10. OpenScore[c] > 0 /\ \A d \in ComboIds : OpenScore[d] \in Int
  BY <1>1, <1>6, <1>8, Scores
<1> HIDE DEF OpenScore
<1> QED BY <1>1, <1>3, <1>9, <1>10, MostOfFound

(***************************************************************************)
(* In a row with enough bound, a value that is not ruled out is safe: the  *)
(* exclusion it would complete is within a combination that lacks p only,  *)
(* and PickValue looks at that one's entry (parameter.cpp:38-58).          *)
(***************************************************************************)
LEMMA PickedIsSafe ==
  ASSUME SafeInput, Grounds, RowSafe, Picking, NEW p \in Param \ BoundParams,
         NEW v \in Values(p), ~ RuledOut(p, v)
  PROVE  ~ ViolatesAny(row \cup {<<p, v>>}, exclusions)
<1> DEFINE B == BoundParams \cup {p}
           r == row \cup {<<p, v>>}
<1>1. /\ TypeOK /\ CountsRight /\ Prepared /\ Consistent(row)
      /\ pc = "row" /\ todo = <<>> /\ row # {}
  BY DEF Grounds, Picking, CountInv, Counting, EntryInv, RowSafe
<1>2. B \in SUBSET Param /\ Cardinality(B) >= Order /\ p \in B
  BY <1>1, EnoughBound
<1>3. r \in SUBSET Term /\ Consistent(r) /\ ParamsOf(r) = B
  BY <1>1, TermShape, ConsistentAdd, ParamsOfAdd DEF TypeOK, BoundParams
<1>4. ~ ViolatesAny(row, exclusions)
  BY <1>1 DEF RowSafe, Plan
<1> SUFFICES ASSUME NEW e \in exclusions, e \in SUBSET r
             PROVE  FALSE
  BY DEF ViolatesAny, Contained
<1>5. <<p, v>> \in e
  BY <1>4 DEF ViolatesAny, Contained
<1> DEFINE A == ParamsOf(e)
<1>6. A \in SUBSET B /\ p \in A
  <2>1. A \subseteq ParamsOf(r)
    BY DEF ParamsOf
  <2>2. <<p, v>>[1] = p
    OBVIOUS
  <2> QED BY <1>3, <1>5, <2>1, <2>2 DEF ParamsOf
<1>7. \E c \in ComboIds : A \subseteq vecCombo[c] /\ vecCombo[c] \subseteq B
  <2>1. CASE \E c \in ComboIds : vecCombo[c] = A
    BY <1>6, <2>1
  <2>2. CASE \E c \in DOMAIN BaseCombos : A \subseteq BaseCombos[c]
    <3>1. PICK c \in DOMAIN BaseCombos : A \subseteq BaseCombos[c]
      BY <2>2
    <3>2. BaseCombos[c] \in SUBSET Param /\ Cardinality(BaseCombos[c]) = Order
      BY <3>1, OrderShape
    <3>3. Cardinality(A) <= Order
      BY <3>1, <3>2, SubsetsOfParamFinite, FS_Subset
    <3> HIDE DEF A, B
    <3> QED BY <1>1, <1>2, <1>6, <3>3, LastSomewhere
  <2> QED BY <1>1, <2>1, <2>2 DEF Prepared
<1>8. PICK c \in ComboIds : A \subseteq vecCombo[c] /\ vecCombo[c] \subseteq B
  BY <1>7
<1> DEFINE k == Project(r, vecCombo[c])
<1>9. c \in LastOf(p)
  BY <1>1, <1>6, <1>8, LacksOnly DEF CombosOf
<1>10. k \in AllCells(vecCombo)
  <2>1. k \in Cells(vecCombo[c])
    BY <1>3, <1>8, ProjectIsCell
  <2> QED BY <2>1 DEF AllCells, ComboIds
<1>11. e \subseteq k
  BY <1>8 DEF Project, ParamsOf
<1>12. k \in excluded
  BY <1>1, <1>10, <1>11 DEF Prepared, ViolatesAny, Contained
<1> QED BY <1>9, <1>12 DEF RuledOut

(* The exclusions are closed: some value is not ruled out.                 *)
LEMMA ValueFound ==
  ASSUME SafeInput, Grounds, RowSafe, Picking, NEW p \in Param \ BoundParams
  PROVE  BestValues(p) # {}
<1>1. /\ TypeOK /\ Prepared /\ Consistent(row) /\ row \in SUBSET Term
      /\ todo = <<>> /\ exclusions \in ExclusionChoices
  BY DEF Grounds, Picking, EntryInv, TypeOK
<1>2. row \in Partials /\ ParamsOf(row) = BoundParams
  <2>1. ParamsOf(row) \in SUBSET Param
    BY <1>1, TermShape DEF ParamsOf
  <2>2. Project(row, ParamsOf(row)) = row
    BY <1>1, CellIsProject
  <2>3. Project(row, ParamsOf(row)) \in Cells(ParamsOf(row))
    BY <1>1, ProjectIsCell
  <2> QED BY <2>1, <2>2, <2>3 DEF Partials, BoundParams
<1>3. ~ ViolatesAny(row, exclusions)
  <2>1. Plan = row
    BY <1>1 DEF Plan
  <2> QED BY <2>1 DEF RowSafe
<1>4. Closed(exclusions)
  BY <1>1 DEF SafeInput
<1>5. PICK v \in Values(p) : ~ ViolatesAny(row \cup {<<p, v>>}, exclusions)
  BY <1>2, <1>3, <1>4 DEF Closed
<1>6. ~ RuledOut(p, v)
  BY <1>1, <1>5, RuledOutViolates
<1> QED BY <1>1, <1>6, BestFound

(* A valid row that is bound to the end leaves valid columns.              *)
LEMMA BindKeepsValid ==
  ASSUME TypeOK, CoverInv, ColumnsValid, NEW p \in Param \ BoundParams, NEW v \in Values(p),
         NEW queue \in Seq(Param), Bind(p, v, queue), UNCHANGED exclusions,
         ~ ViolatesAny(row \cup {<<p, v>>}, exclusions)
  PROVE  ColumnsValid'
<1>1. PICK n \in Nat : InStep(n)
  BY DEF CoverInv
<1>2. /\ row' = row \cup {<<p, v>>} /\ row' \in SUBSET Term
      /\ \A q \in Param :
           /\ Len(columns'[q]) = IF q \in ParamsOf(row') THEN n + 1 ELSE n
           /\ \A i \in 1 .. n : columns'[q][i] = columns[q][i]
      /\ \A t \in row' : columns'[t[1]][Len(columns'[t[1]])] = t[2]
  BY <1>1, AppendedColumns DEF CoverInv
<1> SUFFICES ASSUME NEW i \in Nat \ {0}, \A q \in Param : i <= Len(columns'[q])
             PROVE  ~ ViolatesAny(RowAt(columns', i), exclusions)
  BY DEF ColumnsValid
<1>3. i <= n \/ RowAt(columns', i) = row'
  <2>1. \A q \in Param : Len(columns'[q]) = IF q \in ParamsOf(row') THEN n + 1 ELSE n
    BY <1>2
  <2>2. row' \in SUBSET Term /\ \A t \in row' : columns'[t[1]][Len(columns'[t[1]])] = t[2]
    BY <1>2
  <2> QED BY <2>1, <2>2, LastFinished
<1>4. CASE i <= n
  <2>1. \A q \in Param : i <= Len(columns[q]) /\ columns'[q][i] = columns[q][i]
    BY <1>1, <1>2, <1>4 DEF InStep
  <2>2. RowAt(columns', i) = RowAt(columns, i)
    BY <2>1 DEF RowAt
  <2> QED BY <2>1, <2>2 DEF ColumnsValid
<1>5. CASE RowAt(columns', i) = row'
  BY <1>2, <1>5
<1> QED BY <1>3, <1>4, <1>5

(* What fixRowSeeds keeps are seeds, with the terms the model knows.       *)
LEMMA FixedAre ==
  TypeOK /\ FixRowSeeds =>
    \A n \in DOMAIN rowSeeds' : \E i \in DOMAIN rowSeeds :
      /\ rowSeeds'[n] = rowSeeds[i] \cap Term
      /\ rowSeeds'[n] # {}
      /\ ~ ViolatesAny(rowSeeds'[n], exclusions)
<1> SUFFICES ASSUME TypeOK, FixRowSeeds
             PROVE  \A n \in DOMAIN rowSeeds' : \E i \in DOMAIN rowSeeds :
                      /\ rowSeeds'[n] = rowSeeds[i] \cap Term
                      /\ rowSeeds'[n] # {}
                      /\ ~ ViolatesAny(rowSeeds'[n], exclusions)
  OBVIOUS
<1> DEFINE known == KnownTerms(rowSeeds)
           keep  == { i \in DOMAIN known :
                        ~ Redundant(known, i) /\ ~ ViolatesAny(known[i], exclusions) }
           Seeds == SUBSET Term
<1>1. rowSeeds' \in Kept(known, keep)
  BY DEF FixRowSeeds, FixedSeeds
<1>2. DOMAIN known = DOMAIN rowSeeds /\ \A i \in DOMAIN rowSeeds : known[i] = rowSeeds[i] \cap Term
  BY DEF KnownTerms
<1>3. keep \in SUBSET Nat /\ IsFiniteSet(keep)
  <2>1. DOMAIN rowSeeds = 1 .. Len(rowSeeds) /\ Len(rowSeeds) \in Nat
    BY DEF TypeOK
  <2>2. IsFiniteSet(1 .. Len(rowSeeds))
    BY <2>1, FS_Interval
  <2>3. keep \in SUBSET (1 .. Len(rowSeeds))
    BY <1>2, <2>1
  <2> QED BY <2>2, <2>3, FS_Subset
<1>4. \A i \in keep : known[i] \in Seeds
  BY <1>2
<1>5. \A i \in keep : /\ i \in DOMAIN rowSeeds /\ known[i] = rowSeeds[i] \cap Term
                      /\ known[i] # {} /\ ~ ViolatesAny(known[i], exclusions)
  BY <1>2 DEF Redundant
<1> HIDE DEF keep, known, Seeds
<1>6. /\ rowSeeds' \in Seq(Seeds)
      /\ \A m \in DOMAIN rowSeeds' : \E i \in keep : rowSeeds'[m] = known[i]
  <2> SUFFICES ASSUME NEW kept \in Kept(known, keep)
               PROVE  /\ kept \in Seq(Seeds)
                      /\ \A m \in DOMAIN kept : \E i \in keep : kept[m] = known[i]
    BY <1>1
  <2> QED BY <1>3, <1>4, KeptShape, SMTT(60)
<1> QED BY <1>5, <1>6

LEMMA FixRowSeedsSafe ==
  ASSUME SafeInv, AmpleSeeds, TypeOK, FixRowSeeds
  PROVE  SafeInv'
<1>1. /\ rowSeeds = taskSeeds /\ pc' \in {"returned", "top"} /\ pc = "seeds"
      /\ UNCHANGED <<taskSeeds, exclusions, columns>>
  BY DEF SafeInv, FixRowSeeds, input, rowState
<1>2. SeedsSafe'
  <2> SUFFICES ASSUME NEW n \in DOMAIN rowSeeds'
               PROVE  /\ ~ ViolatesAny(rowSeeds'[n], exclusions)
                      /\ \A c \in DOMAIN BaseCombos :
                           Cardinality(rowSeeds'[n]) >= Cardinality(BaseCombos[c]) - 1
    BY <1>1 DEF SeedsSafe
  <2>1. PICK i \in DOMAIN rowSeeds :
              /\ rowSeeds'[n] = rowSeeds[i] \cap Term
              /\ rowSeeds'[n] # {}
              /\ ~ ViolatesAny(rowSeeds'[n], exclusions)
    BY FixedAre
  <2> QED BY <1>1, <2>1 DEF AmpleSeeds
<1>3. ColumnsValid'
  BY <1>1 DEF SafeInv, ColumnsValid, RowAt
<1> QED BY <1>1, <1>2, <1>3 DEF SafeInv

(* A row starts with nothing planned but a seed.                           *)
LEMMA StartedPlan ==
  ASSUME TypeOK, StartRow
  PROVE  \/ rowSeeds = <<>> /\ Plan' = {}
         \/ rowSeeds # <<>> /\ Plan' = Head(rowSeeds) /\ Head(rowSeeds) \in SUBSET Term
<1>1. row' = {}
  BY DEF StartRow
<1>2. CASE rowSeeds = <<>>
  BY <1>1, <1>2 DEF StartRow, TakeSeed, Plan
<1>3. CASE rowSeeds # <<>>
  <2> DEFINE seed == Head(rowSeeds)
  <2>1. rowSeeds \in Seq(SUBSET Term)
    BY DEF StartRow, AtTop, TypeOK
  <2>2. seed \in SUBSET Term
    BY <1>3, <2>1
  <2>3. IsFiniteSet(seed) /\ todo' \in AnyOrder(seed)
    BY <1>3, <2>2, SubsetsOfTermFinite DEF StartRow, TakeSeed
  <2> HIDE DEF seed
  <2>4. /\ todo' \in Seq(seed)
        /\ \A t \in seed : \E i \in DOMAIN todo' : todo'[i] = t
    BY <2>3, AnyOrderShape, AnyOrderAll
  <2>5. Plan' = seed
    BY <1>1, <2>4 DEF Plan
  <2> QED BY <1>3, <2>2, <2>5 DEF seed
<1> QED BY <1>2, <1>3

LEMMA StartRowSafe ==
  ASSUME SafeInput, Grounds, SafeInv, AmpleSeeds, StartRow
  PROVE  SafeInv'
<1>1. /\ TypeOK /\ pc = "top" /\ CountsRight /\ Prepared /\ SeedsSafe /\ ColumnsValid
      /\ \A i \in DOMAIN rowSeeds : Consistent(rowSeeds[i])
  BY DEF Grounds, BindInv, Running, CountInv, Counting, EntryInv, SafeInv, StartRow, AtTop
<1>2. /\ pc' = "row" /\ row' = {} /\ worklist' = <<>> /\ zeros > 0
      /\ UNCHANGED <<exclusions, taskSeeds, opened, columns>>
  BY DEF StartRow, SafeInput, input
<1>3. opened # {}
  BY <1>1, <1>2, FS_EmptySet DEF CountsRight
<1>4. exclusions \in ExclusionChoices /\ {} \notin exclusions
  BY <1>1 DEF TypeOK, SafeInput, SoundInput
<1>5. RowSafe'
  <2>1. CASE Plan' = {}
    <3>1. ~ ViolatesAny({}, exclusions)
      BY <1>4 DEF ViolatesAny, Contained
    <3> QED BY <1>2, <1>3, <2>1, <3>1 DEF RowSafe, Consistent
  <2>2. CASE rowSeeds # <<>> /\ Plan' = Head(rowSeeds) /\ Head(rowSeeds) \in SUBSET Term
    <3>1. 1 \in DOMAIN rowSeeds /\ Plan' = rowSeeds[1] /\ Plan' \in SUBSET Term
      BY <1>1, <2>2 DEF TypeOK
    <3>2. PICK c \in DOMAIN BaseCombos : TRUE
      BY <1>1, <1>3, BaseCellNotEmpty DEF Prepared
    <3>3. Cardinality(Plan') >= Order - 1
      BY <1>1, <3>1, <3>2, OrderShape DEF SeedsSafe
    <3>4. Consistent(Plan') /\ ~ ViolatesAny(Plan', exclusions)
      BY <1>1, <3>1 DEF SeedsSafe
    <3>5. Cardinality(ParamsOf(Plan')) >= Order - 1
      BY <3>1, <3>3, <3>4, ParamsCount
    <3> QED BY <1>2, <1>3, <3>1, <3>4, <3>5 DEF RowSafe
  <2> QED BY <1>1, <2>1, <2>2, StartedPlan
<1>6. SeedsSafe'
  <2>1. CASE rowSeeds = <<>>
    BY <1>1, <1>2, <2>1 DEF StartRow, TakeSeed, SeedsSafe
  <2>2. CASE rowSeeds # <<>>
    <3>1. rowSeeds' = Tail(rowSeeds) /\ rowSeeds \in Seq(SUBSET (Nat \X Nat))
      BY <1>1, <2>2 DEF StartRow, TakeSeed, TypeOK
    <3>2. \A i \in DOMAIN rowSeeds' : i + 1 \in DOMAIN rowSeeds /\ rowSeeds'[i] = rowSeeds[i + 1]
      BY <2>2, <3>1
    <3> QED BY <1>1, <1>2, <3>2 DEF SeedsSafe
  <2> QED BY <2>1, <2>2
<1>7. ColumnsValid'
  BY <1>1, <1>2 DEF ColumnsValid, RowAt
<1> QED BY <1>2, <1>5, <1>6, <1>7 DEF SafeInv

LEMMA PlanStays == TypeOK /\ BindNext => Plan' = Plan /\ row' # {}
<1> SUFFICES ASSUME TypeOK, BindNext PROVE Plan' = Plan /\ row' # {}
  OBVIOUS
<1>1. /\ todo \in Seq(Param \X Nat) /\ todo # <<>> /\ todo' = Tail(todo)
      /\ row' = row \cup {<<Head(todo)[1], Head(todo)[2]>>}
  BY DEF BindNext, Bind, TypeOK
<1>2. <<Head(todo)[1], Head(todo)[2]>> = todo[1] /\ 1 \in DOMAIN todo
  BY <1>1
<1>3. /\ \A i \in DOMAIN todo' : i + 1 \in DOMAIN todo /\ todo'[i] = todo[i + 1]
      /\ \A i \in DOMAIN todo : i = 1 \/ (i - 1 \in DOMAIN todo' /\ todo[i] = todo'[i - 1])
  BY <1>1
<1>4. \A t \in Plan : t \in Plan'
  <2>1. \A i \in DOMAIN todo : todo[i] \in Plan'
    <3> TAKE i \in DOMAIN todo
    <3>1. CASE i = 1
      BY <1>1, <1>2, <3>1 DEF Plan
    <3>2. CASE i - 1 \in DOMAIN todo' /\ todo[i] = todo'[i - 1]
      BY <3>2 DEF Plan
    <3> QED BY <1>3, <3>1, <3>2
  <2> QED BY <1>1, <2>1 DEF Plan
<1>5. \A t \in Plan' : t \in Plan
  BY <1>1, <1>2, <1>3 DEF Plan
<1> QED BY <1>1, <1>4, <1>5

LEMMA BindNextSafe ==
  ASSUME SafeInput, Grounds, SafeInv, AmpleSeeds, BindNext
  PROVE  SafeInv'
<1> DEFINE p == Head(todo)[1]
           v == Head(todo)[2]
<1>1. /\ TypeOK /\ CoverInv /\ pc = "row" /\ pc' = "row" /\ RowSafe /\ SeedsSafe /\ ColumnsValid
      /\ UNCHANGED <<exclusions, taskSeeds, rowSeeds>>
  BY DEF Grounds, BindInv, SafeInv, BindNext, input
<1>2. /\ p \in Param \ BoundParams /\ v \in Values(p) /\ worklist \in Seq(Param)
      /\ Bind(p, v, worklist)
  BY <1>1 DEF BindNext, Bindable, TypeOK
<1>3. Plan' = Plan /\ row' # {}
  BY <1>1, PlanStays
<1>4. RowSafe'
  BY <1>1, <1>3 DEF RowSafe
<1>5. ~ ViolatesAny(row \cup {<<p, v>>}, exclusions)
  <2>1. row' = row \cup {<<p, v>>}
    BY <1>2 DEF Bind
  <2>2. row' \subseteq Plan
    BY <1>3 DEF Plan
  <2> QED BY <1>1, <2>1, <2>2 DEF RowSafe, ViolatesAny, Contained
<1> HIDE DEF p, v
<1>6. ColumnsValid'
  BY <1>1, <1>2, <1>5, BindKeepsValid
<1> QED BY <1>1, <1>4, <1>6 DEF SafeInv, SeedsSafe

LEMMA PickSafe ==
  ASSUME SafeInput, Grounds, SafeInv, AmpleSeeds, Pick
  PROVE  SafeInv'
<1> DEFINE p == Head(worklist)
<1>1. /\ TypeOK /\ CoverInv /\ Picking /\ pc = "row" /\ pc' = "row" /\ todo = <<>> /\ todo' = <<>>
      /\ RowSafe /\ SeedsSafe /\ ColumnsValid /\ Consistent(row)
      /\ UNCHANGED <<exclusions, taskSeeds, rowSeeds>>
  BY DEF Grounds, EntryInv, SafeInv, Pick, Picking, input
<1>2. PICK v \in BestValues(p) : Bindable(p, v) /\ Bind(p, v, Tail(worklist))
  BY DEF Pick, Pickable, SafeInput
<1>3. /\ p \in Param \ BoundParams /\ v \in Values(p) /\ ~ RuledOut(p, v)
      /\ Tail(worklist) \in Seq(Param)
  BY <1>1, <1>2 DEF Bindable, BestValues, Picking, TypeOK
<1> HIDE DEF p
<1>4. ~ ViolatesAny(row \cup {<<p, v>>}, exclusions)
  BY <1>1, <1>3, PickedIsSafe
<1>5. ColumnsValid'
  BY <1>1, <1>2, <1>3, <1>4, BindKeepsValid
<1>6. row' = row \cup {<<p, v>>} /\ Plan' = row' /\ Plan = row /\ row' # {}
  <2>1. row' = row \cup {<<p, v>>}
    BY <1>2 DEF Bind
  <2>2. Plan = row
    BY <1>1 DEF Plan
  <2>3. Plan' = row'
    BY <1>1 DEF Plan
  <2> QED BY <2>1, <2>2, <2>3
<1>7. RowSafe'
  <2>1. row' \in SUBSET Term /\ Consistent(row')
    <3>1. row \in SUBSET Term /\ Consistent(row)
      BY <1>1 DEF TypeOK, RowSafe
    <3>2. <<p, v>> \in Term
      BY <1>3, TermShape
    <3>3. p \notin ParamsOf(row)
      BY <1>3 DEF BoundParams
    <3>4. Consistent(row \cup {<<p, v>>})
      BY <1>1, <3>1, <3>2, <3>3, ConsistentAdd DEF BoundParams
    <3> QED BY <1>6, <3>1, <3>2, <3>4
  <2>2. Cardinality(BoundParams \cup {p}) >= Order
    <3>1. row # {}
      BY <1>1 DEF RowSafe, Picking
    <3> QED BY <1>1, <1>3, <3>1, EnoughBound
  <2>3. ParamsOf(row') = BoundParams \cup {p}
    BY <1>6, ParamsOfAdd DEF BoundParams
  <2>4. BoundParams \cup {p} \in SUBSET Param
    BY <1>1, <1>3, TermShape DEF TypeOK, BoundParams, ParamsOf
  <2>5. Cardinality(ParamsOf(row')) >= Order - 1
    BY <2>2, <2>3, <2>4, SubsetsOfParamFinite, OrderShape
  <2> QED BY <1>1, <1>4, <1>6, <2>1, <2>5 DEF RowSafe
<1> QED BY <1>1, <1>5, <1>7 DEF SafeInv, SeedsSafe

(* An open entry is chosen: it is the plan of the row.                     *)
LEMMA ChosenPlan ==
  ASSUME SafeInput, Grounds, RowSafe, ChooseOpen
  PROVE  row = {} /\ \E k \in opened : Plan' = k
<1>1. Choosing /\ TypeOK /\ Prepared /\ pc = "row"
  BY DEF ChooseOpen, Choosing, Grounds, EntryInv
<1>2. row = {}
  BY <1>1, ChosenFirst
<1>3. PICK c \in ComboIds : \E k \in OpenCells(c) : BindCell(c, k)
  BY DEF ChooseOpen, MostOf, Selectable
<1>4. PICK k \in OpenCells(c) : BindCell(c, k)
  BY <1>3
<1>5. k \in opened /\ k \in SUBSET Term /\ ParamsOf(k) = vecCombo[c]
  BY <1>1, ChosenCell DEF OpenCells, Agreeing
<1>6. Consistent(k)
  BY <1>1, <1>5, BaseCellNotEmpty, CellShape, GcdAssumption DEF Prepared
<1>7. /\ \A q \in vecCombo[c] : \E i \in DOMAIN todo' : todo'[i][1] = q
      /\ \A i \in DOMAIN todo' : todo'[i] \in k
  BY <1>1, <1>2, <1>4, <1>5, BindCellAll, NothingBound
<1>8. \A t \in k : \E i \in DOMAIN todo' : todo'[i] = t
  <2> TAKE t \in k
  <2>1. t[1] \in vecCombo[c]
    BY <1>5 DEF ParamsOf
  <2> QED BY <1>6, <1>7, <2>1 DEF Consistent
<1>9. row' = {}
  BY <1>2, <1>4 DEF BindCell
<1>10. Plan' = k
  BY <1>7, <1>8, <1>9 DEF Plan
<1> QED BY <1>2, <1>5, <1>10

LEMMA ChooseOpenSafe ==
  ASSUME SafeInput, Grounds, SafeInv, AmpleSeeds, ChooseOpen
  PROVE  SafeInv'
<1>1. /\ Choosing /\ pc = "row" /\ worklist = <<>> /\ Prepared
      /\ RowSafe /\ SeedsSafe /\ ColumnsValid
  BY DEF ChooseOpen, Choosing, Grounds, EntryInv, SafeInv
<1>2. /\ pc' = "row"
      /\ UNCHANGED <<exclusions, taskSeeds, rowSeeds, columns, opened, row, worklist>>
  BY <1>1 DEF ChooseOpen, BindCell, input, counters
<1>3. PICK k \in opened : Plan' = k /\ row = {}
  BY <1>1, ChosenPlan
<1>4. PICK c \in DOMAIN BaseCombos : k \in Cells(BaseCombos[c])
  BY <1>1, BaseCellNotEmpty DEF Prepared
<1>5. k \in SUBSET Term /\ Consistent(k) /\ Cardinality(ParamsOf(k)) = Order
  BY <1>4, OrderShape, CellShape
<1>6. ~ ViolatesAny(k, exclusions)
  BY <1>1 DEF Prepared
<1>7. RowSafe'
  BY <1>1, <1>2, <1>3, <1>5, <1>6, OrderShape DEF RowSafe
<1>8. ColumnsValid'
  BY <1>1, <1>2 DEF ColumnsValid, RowAt
<1> QED BY <1>1, <1>2, <1>7, <1>8 DEF SafeInv, SeedsSafe

(* Neither of the two ways to get stuck is open.                           *)
LEMMA NeverStuck ==
  ASSUME SafeInput, Grounds, RowSafe
  PROVE  ~ ChooseCovered /\ ~ NoChoice /\ ~ NoValue
<1>1. ~ ChooseCovered /\ ~ NoChoice
  BY ChosenFirst DEF ChooseCovered, NoChoice
<1>2. ASSUME NoValue PROVE FALSE
  <2>1. /\ Picking /\ Head(worklist) \in Param \ BoundParams
        /\ BestValues(Head(worklist)) = {}
    BY <1>2 DEF NoValue, Picking, Pickable, Grounds, TypeOK
  <2> QED BY <2>1, ValueFound
<1> QED BY <1>1, <1>2

LEMMA SafeStep ==
  ASSUME SafeInput
  PROVE  Grounds /\ SafeInv /\ [Next]_vars => SafeInv'
<1> SUFFICES ASSUME Grounds, SafeInv, [Next]_vars PROVE SafeInv'
  OBVIOUS
<1>1. UNCHANGED taskSeeds
  BY DEF Next, Step, ProcessExclusions, EmptyExclusion, FixRowSeeds, StartRow, EndRow,
         BindNext, AssertFails, ChooseOpen, ChooseCovered, BindCell, NoChoice, Pick, NoValue,
         DrawRow, GiveUp, Finish, MoveResults, Cancel, input, vars
<1>2. pc' \in {"start", "seeds"} => pc \in {"start", "seeds"} /\ rowSeeds' = rowSeeds
  BY DEF Next, Step, ProcessExclusions, EmptyExclusion, FixRowSeeds, StartRow, EndRow,
         BindNext, AssertFails, ChooseOpen, ChooseCovered, BindCell, NoChoice, Pick, NoValue,
         DrawRow, GiveUp, Finish, MoveResults, Cancel, input, vars, Choosing, Picking
<1>3. AmpleSeeds' = AmpleSeeds
  BY <1>1 DEF AmpleSeeds
<1>4. CASE ~ AmpleSeeds
  BY <1>1, <1>2, <1>3, <1>4 DEF SafeInv
<1>5. CASE AmpleSeeds
  <2>1. CASE FixRowSeeds    BY <1>5, <2>1, FixRowSeedsSafe DEF Grounds
  <2>2. CASE StartRow       BY <1>5, <2>2, StartRowSafe
  <2>3. CASE BindNext       BY <1>5, <2>3, BindNextSafe
  <2>4. CASE Pick           BY <1>5, <2>4, PickSafe
  <2>5. CASE ChooseOpen     BY <1>5, <2>5, ChooseOpenSafe
  <2>6. CASE ChooseCovered \/ NoChoice \/ NoValue
    <3>1. RowSafe
      BY <1>5, <2>6 DEF ChooseCovered, NoChoice, NoValue, Choosing, Picking, SafeInv
    <3> QED BY <2>6, <3>1, NeverStuck
  <2>7. CASE EndRow
    <3>1. SeedsSafe /\ ColumnsValid /\ UNCHANGED <<exclusions, rowSeeds, columns>> /\ pc' = "top"
      BY <1>5, <2>7 DEF EndRow, SafeInv, input, rowState
    <3> QED BY <1>2, <1>3, <3>1 DEF SafeInv, SeedsSafe, ColumnsValid, RowAt
  <2>8. CASE ProcessExclusions \/ EmptyExclusion \/ AssertFails \/ DrawRow \/ Cancel
             \/ GiveUp \/ Finish
    <3>1. ColumnsValid /\ UNCHANGED <<exclusions, columns>>
          /\ pc' \in {"seeds", "asserted", "drawn", "cancelled", "done"}
      BY <1>5, <2>8 DEF ProcessExclusions, EmptyExclusion, AssertFails, DrawRow, Cancel, GiveUp,
                        Finish, MoveResults, SafeInv, input, rowState
    <3> QED BY <1>1, <1>2, <3>1 DEF SafeInv, ColumnsValid, RowAt
  <2>9. CASE UNCHANGED vars
    BY <1>5, <2>9 DEF vars, SafeInv, AmpleSeeds, SeedsSafe, RowSafe, Plan, ColumnsValid, RowAt
  <2> QED BY <2>1, <2>2, <2>3, <2>4, <2>5, <2>6, <2>7, <2>8, <2>9 DEF Next, Step
<1> QED BY <1>4, <1>5

LEMMA InitSafe == Init => SafeInv
<1> SUFFICES ASSUME Init PROVE SafeInv
  OBVIOUS
<1>1. \A p \in Param : Len(columns[p]) = 0
  BY DEF Init
<1>2. ColumnsValid
  <2>1. PICK p \in Param : Len(columns[p]) = 0
    BY <1>1, ParamAssumption
  <2>2. \A i \in Nat \ {0} : ~ (i <= Len(columns[p]))
    BY <2>1
  <2> QED BY <2>1, <2>2 DEF ColumnsValid
<1> QED BY <1>2 DEF Init, SafeInv

LEMMA SafeHolds == ASSUME SafeInput PROVE Spec => []SafeInv
<1>1. SoundInput
  BY DEF SafeInput
<1> QED BY <1>1, InitSafe, SafeStep, GroundsHold, PTL DEF Spec

(* Valid columns make valid rows.                                          *)
LEMMA ValidRows == TypeOK /\ CoverInv /\ ColumnsValid => NoInvalidRow
<1> SUFFICES ASSUME TypeOK, CoverInv, ColumnsValid, NEW i \in DOMAIN DoneRows
             PROVE  ~ ViolatesAny(DoneRows[i], exclusions)
  BY DEF NoInvalidRow
<1>1. PICK n \in Nat : InStep(n)
  BY DEF CoverInv
<1>2. /\ DoneRows = [m \in 1 .. Shortest(columns) |-> RowAt(columns, m)]
      /\ Shortest(columns) \in Nat
      /\ \A m \in Nat \ {0} :
           (m <= Shortest(columns)) <=> (\A p \in Param : m <= Len(columns[p]))
  BY <1>1, DoneRowsAre
<1>3. /\ i \in Nat \ {0} /\ DoneRows[i] = RowAt(columns, i)
      /\ \A p \in Param : i <= Len(columns[p])
  BY <1>2
<1> QED BY <1>3 DEF ColumnsValid

(***************************************************************************)
(* In Regular mode, from seeds that bind enough: no row contains an        *)
(* exclusion (pictapi.h:107), and the search finds a combination and a     *)
(* value whenever it looks for one (model.cpp:283, parameter.cpp:129),     *)
(* whatever the parameters, their values, the order (two or more), the     *)
(* closed exclusions and the choices of rand().                            *)
(***************************************************************************)
THEOREM SafeFromSeeds == ASSUME SafeInput PROVE Spec => []SafeFromAmpleSeeds
<1>1. Grounds /\ SafeInv => SafeFromAmpleSeeds
  BY ValidRows DEF Grounds, SafeInv, SafeFromAmpleSeeds, NeverFails
<1>2. SoundInput
  BY DEF SafeInput
<1> QED BY <1>1, <1>2, SafeHolds, GroundsHold, PTL

(* No seed is too short; so it is without any.                             *)
AmpleInput ==
  \A s \in SeedChoices : \A i \in DOMAIN s, c \in DOMAIN BaseCombos :
    \/ s[i] \cap Term = {}
    \/ Cardinality(s[i] \cap Term) >= Cardinality(BaseCombos[c]) - 1

LEMMA AmpleAlways == ASSUME AmpleInput PROVE TypeOK => AmpleSeeds
BY DEF AmpleInput, TypeOK, AmpleSeeds

(* Without seeds, or with ample ones only, no row contains an exclusion    *)
(* (pictapi.h:107).                                                        *)
THEOREM RowsAreValid == ASSUME SafeInput, AmpleInput PROVE Spec => []NoInvalidRow
<1>1. TypeOK /\ SafeFromAmpleSeeds => NoInvalidRow
  BY AmpleAlways DEF SafeFromAmpleSeeds
<1> QED BY <1>1, SafeFromSeeds, TypeCorrect, PTL

(* Without seeds, or with ample ones only, the search never gets stuck     *)
(* (model.cpp:283, parameter.cpp:129).                                     *)
THEOREM SearchNeverFails == ASSUME SafeInput, AmpleInput PROVE Spec => []NeverFails
<1>1. TypeOK /\ SafeFromAmpleSeeds => NeverFails
  BY AmpleAlways DEF SafeFromAmpleSeeds
<1> QED BY <1>1, SafeFromSeeds, TypeCorrect, PTL

-----------------------------------------------------------------------------
(* The finished rows *)

LEMMA AppendIs ==
  ASSUME NEW S, NEW n \in Nat, NEW f \in [1 .. n -> S], NEW g \in [1 .. n + 1 -> S],
         \A i \in 1 .. n : g[i] = f[i]
  PROVE  g = Append(f, g[n + 1])
<1>1. f \in Seq(S) /\ Len(f) = n /\ g[n + 1] \in S
  OBVIOUS
<1> DEFINE h == Append(f, g[n + 1])
<1>2. h \in Seq(S) /\ Len(h) = n + 1 /\ h[n + 1] = g[n + 1]
  BY <1>1
<1>3. \A i \in 1 .. n : h[i] = f[i]
  BY <1>1
<1> HIDE DEF h
<1>4. h \in [1 .. n + 1 -> S]
  BY <1>2
<1>5. \A i \in 1 .. n + 1 : i \in 1 .. n \/ i = n + 1
  OBVIOUS
<1>6. \A i \in 1 .. n + 1 : g[i] = h[i]
  BY <1>2, <1>3, <1>5
<1>7. g = h
  BY <1>4, <1>6
<1> QED BY <1>7 DEF h

(* A Bind finishes a row if it binds the last parameter; otherwise the     *)
(* finished rows stay as they are.                                         *)
LEMMA BindFinishes ==
  ASSUME TypeOK, CoverInv, NEW p \in Param \ BoundParams, NEW v \in Values(p),
         NEW queue \in Seq(Param), Bind(p, v, queue)
  PROVE  /\ ParamsOf(row') = Param => DoneRows' = Append(DoneRows, row')
         /\ ParamsOf(row') # Param => DoneRows' = DoneRows
<1>1. PICK n \in Nat : InStep(n)
  BY DEF CoverInv
<1>2. /\ row' \in SUBSET Term
      /\ \A q \in Param :
           /\ Len(columns'[q]) = IF q \in ParamsOf(row') THEN n + 1 ELSE n
           /\ \A i \in 1 .. n : columns'[q][i] = columns[q][i]
      /\ \A t \in row' : columns'[t[1]][Len(columns'[t[1]])] = t[2]
  BY <1>1, AppendedColumns DEF CoverInv
<1>3. DoneRows = [i \in 1 .. n |-> RowAt(columns, i)]
  <2>1. BoundParams # Param
    OBVIOUS
  <2> QED BY <1>1, <2>1, DoneRowsAre
<1>4. DoneRows' = [i \in 1 .. Shortest(columns') |-> RowAt(columns', i)]
  BY DEF DoneRows, Shortest, RowAt
<1>5. \A q \in Param : Len(columns'[q]) = IF q \in ParamsOf(row') THEN n + 1 ELSE n
  BY <1>2
<1>6. Shortest(columns') = IF ParamsOf(row') = Param THEN n + 1 ELSE n
  <2>1. row' \in SUBSET Term
    BY <1>2
  <2> QED BY <1>5, <2>1, ShortestColumn
<1>7. \A i \in 1 .. n : RowAt(columns', i) = RowAt(columns, i)
  BY <1>2 DEF RowAt
<1>8. CASE ParamsOf(row') # Param
  BY <1>3, <1>4, <1>6, <1>7, <1>8
<1>9. CASE ParamsOf(row') = Param
  <2> DEFINE last == n + 1
  <2>1. last \in Nat \ {0} /\ ~ (last <= n) /\ \A q \in Param : last <= Len(columns'[q])
    BY <1>5, <1>9
  <2>2. \A t \in row' : columns'[t[1]][Len(columns'[t[1]])] = t[2]
    BY <1>2
  <2>3. RowAt(columns', last) = row'
    <3>1. row' \in SUBSET Term
      BY <1>2
    <3> HIDE DEF last
    <3> QED BY <1>5, <2>1, <2>2, <3>1, LastFinished
  <2> DEFINE S == { RowAt(columns, i) : i \in 1 .. n } \cup { RowAt(columns', i) : i \in 1 .. n + 1 }
  <2>4. DoneRows' = [i \in 1 .. n + 1 |-> RowAt(columns', i)]
    BY <1>4, <1>6, <1>9
  <2>5. DoneRows \in [1 .. n -> S] /\ DoneRows' \in [1 .. n + 1 -> S]
    BY <1>3, <2>4
  <2>6. /\ \A i \in 1 .. n : DoneRows'[i] = DoneRows[i]
        /\ DoneRows'[n + 1] = row'
    BY <1>3, <1>7, <2>3, <2>4
  <2> HIDE DEF S
  <2>7. DoneRows' = Append(DoneRows, DoneRows'[n + 1])
    BY <2>5, <2>6, AppendIs
  <2> QED BY <1>9, <2>6, <2>7
<1> QED BY <1>8, <1>9

LEMMA SameRows == columns' = columns => DoneRows' = DoneRows
BY DEF DoneRows

-----------------------------------------------------------------------------
(* The promise *)

(* The abstract specification speaks of the same terms, cells and rows.    *)
LEMMA SameTerms ==
  /\ Promise!Term = Term /\ Promise!Rows = Rows
  /\ \A S : Promise!Cells(S) = Cells(S)
  /\ \A a, b : Promise!Contained(a, b) <=> Contained(a, b)
  /\ \A a, E : Promise!ViolatesAny(a, E) <=> ViolatesAny(a, E)
<1>1. \A p : Promise!Values(p) = Values(p)
  BY DEF Promise!Values, Values
<1>2. Promise!Term = Term
  BY <1>1 DEF Promise!Term, Term
<1>3. \A S : Promise!Cells(S) = Cells(S)
  BY <1>1 DEF Promise!Cells, Cells
<1>4. Promise!Rows = Rows
  BY <1>3 DEF Promise!Rows, Rows
<1>5. \A a, b : Promise!Contained(a, b) <=> Contained(a, b)
  BY DEF Promise!Contained, Contained
<1>6. \A a, E : Promise!ViolatesAny(a, E) <=> ViolatesAny(a, E)
  BY <1>5 DEF Promise!ViolatesAny, ViolatesAny
<1> QED BY <1>2, <1>3, <1>4, <1>5, <1>6

Target(k) == k \in AllCells(BaseCombos) /\ ~ ViolatesAny(k, exclusions)

Covered(k) == \E n \in DOMAIN DoneRows : Contained(k, DoneRows[n])

LEMMA SameTargets ==
  /\ \A k : k \in Promise!Targets <=> Target(k)
  /\ \A k : Promise!Covered(k) <=> Covered(k)
<1>1. \A k : k \in Promise!Targets <=> Target(k)
  BY SameTerms DEF Promise!Targets, Target, AllCells
<1>2. \A k : Promise!Covered(k) <=> Covered(k)
  BY SameTerms DEF Promise!Covered, Covered
<1> QED BY <1>1, <1>2

(* The row under construction is planned for a seed, or for a valid entry  *)
(* that no finished row contains.                                          *)
Aimed ==
  \/ \E i \in DOMAIN taskSeeds :
       taskSeeds[i] \cap Term # {} /\ Contained(taskSeeds[i] \cap Term, Plan)
  \/ \E k : Target(k) /\ Contained(k, Plan) /\ ~ Covered(k)

PurposeInv ==
  /\ pc \in {"top", "row"} =>
       \A n \in DOMAIN rowSeeds : \E i \in DOMAIN taskSeeds :
         rowSeeds[n] = taskSeeds[i] \cap Term /\ rowSeeds[n] # {}
  /\ pc = "row" /\ BoundParams # Param => Plan = {} \/ Aimed

(* Aims are kept as the plan grows, until the row is finished.             *)
LEMMA AimKept ==
  ASSUME Aimed, Plan \subseteq Plan', DoneRows' = DoneRows, UNCHANGED <<exclusions, taskSeeds>>
  PROVE  Aimed'
<1>1. \A k : Target(k)' = Target(k) /\ Covered(k)' = Covered(k)
  BY DEF Target, Covered
<1> QED BY <1>1 DEF Aimed, Contained

LEMMA SeedsKept ==
  ASSUME PurposeInv, pc \in {"top", "row"}, UNCHANGED <<rowSeeds, taskSeeds>>
  PROVE  \A n \in DOMAIN rowSeeds' : \E i \in DOMAIN taskSeeds' :
           rowSeeds'[n] = taskSeeds'[i] \cap Term /\ rowSeeds'[n] # {}
BY DEF PurposeInv

LEMMA FixRowSeedsPurpose ==
  TypeOK /\ SafeInv /\ FixRowSeeds => PurposeInv'
<1> SUFFICES ASSUME TypeOK, SafeInv, FixRowSeeds PROVE PurposeInv'
  OBVIOUS
<1>1. rowSeeds = taskSeeds /\ taskSeeds' = taskSeeds /\ pc' \in {"returned", "top"}
  BY DEF FixRowSeeds, SafeInv, input
<1> QED BY <1>1, FixedAre DEF PurposeInv

LEMMA StartRowPurpose ==
  TypeOK /\ PurposeInv /\ pc = "top" /\ StartRow => PurposeInv'
<1> SUFFICES ASSUME TypeOK, PurposeInv, pc = "top", StartRow PROVE PurposeInv'
  OBVIOUS
<1>1. taskSeeds' = taskSeeds /\ rowSeeds \in Seq(SUBSET (Nat \X Nat))
  BY DEF StartRow, input, TypeOK
<1>2. \A n \in DOMAIN rowSeeds' : \E m \in DOMAIN rowSeeds : rowSeeds'[n] = rowSeeds[m]
  <2>1. CASE rowSeeds = <<>>
    BY <2>1 DEF StartRow, TakeSeed
  <2>2. CASE rowSeeds # <<>>
    <3>1. rowSeeds' = Tail(rowSeeds)
      BY <2>2 DEF StartRow, TakeSeed
    <3>2. \A n \in DOMAIN rowSeeds' : n + 1 \in DOMAIN rowSeeds /\ rowSeeds'[n] = rowSeeds[n + 1]
      BY <1>1, <2>2, <3>1
    <3> QED BY <3>2
  <2> QED BY <2>1, <2>2
<1>3. ASSUME Plan' # {} PROVE Aimed'
  <2>1. rowSeeds # <<>> /\ Plan' = Head(rowSeeds)
    BY <1>3, StartedPlan
  <2>2. 1 \in DOMAIN rowSeeds /\ Plan' = rowSeeds[1]
    BY <1>1, <2>1
  <2>3. PICK i \in DOMAIN taskSeeds : Plan' = taskSeeds[i] \cap Term
    BY <2>2 DEF PurposeInv
  <2> QED BY <1>1, <1>3, <2>3 DEF Aimed, Contained
<1> QED BY <1>1, <1>2, <1>3 DEF PurposeInv

LEMMA ChooseOpenPurpose ==
  ASSUME SafeInput, Grounds, RowSafe, PurposeInv, ChooseOpen
  PROVE  PurposeInv'
<1>1. /\ TypeOK /\ CoverInv /\ Prepared /\ Uncovered /\ pc = "row"
  BY DEF ChooseOpen, Choosing, Grounds, EntryInv
<1>2. UNCHANGED <<exclusions, taskSeeds, rowSeeds, columns>>
  BY DEF ChooseOpen, BindCell, input
<1>3. PICK k \in opened : Plan' = k
  BY ChosenPlan
<1>4. Target(k)
  BY <1>1 DEF Prepared, Target
<1>5. ~ Covered(k)
  <2>1. k \in SUBSET Term
    BY <1>1, BaseCellShape DEF Prepared
  <2>2. ~ Seen(k)
    BY <1>1 DEF Uncovered
  <2> QED BY <1>1, <2>1, <2>2, SeenIsDone DEF CoverInv, Covered
<1>6. Aimed'
  <2>1. Target(k)' /\ ~ Covered(k)'
    BY <1>2, <1>4, <1>5, SameRows DEF Target, Covered
  <2> QED BY <1>3, <2>1 DEF Aimed, Contained
<1> QED BY <1>1, <1>2, <1>6, SeedsKept DEF PurposeInv

LEMMA BindNextPurpose == TypeOK /\ CoverInv /\ PurposeInv /\ BindNext => PurposeInv'
<1> SUFFICES ASSUME TypeOK, CoverInv, PurposeInv, BindNext, pc = "row" PROVE PurposeInv'
  BY DEF PurposeInv, BindNext, Bind
<1> DEFINE p == Head(todo)[1]
           v == Head(todo)[2]
<1>1. /\ p \in Param \ BoundParams /\ v \in Values(p) /\ worklist \in Seq(Param)
      /\ Bind(p, v, worklist) /\ UNCHANGED <<exclusions, taskSeeds, rowSeeds>>
  BY DEF BindNext, Bindable, TypeOK, input
<1>2. Plan' = Plan
  BY PlanStays
<1>3. ASSUME BoundParams' # Param PROVE Plan' = {} \/ Aimed'
  <2> HIDE DEF p, v
  <2>1. DoneRows' = DoneRows
    BY <1>1, <1>3, BindFinishes DEF BoundParams
  <2>2. Plan = {} \/ Aimed
    BY <1>1 DEF PurposeInv
  <2> QED BY <1>1, <1>2, <2>1, <2>2, AimKept
<1> QED BY <1>1, <1>3, SeedsKept DEF PurposeInv

LEMMA PickPurpose ==
  ASSUME SafeInput, TypeOK, CoverInv, RowSafe, PurposeInv, Pick
  PROVE  PurposeInv'
<1> DEFINE p == Head(worklist)
<1>1. /\ pc = "row" /\ todo = <<>> /\ todo' = <<>> /\ worklist # <<>>
      /\ UNCHANGED <<exclusions, taskSeeds, rowSeeds>>
  BY DEF Pick, Picking, input
<1>2. PICK v \in BestValues(p) : Bindable(p, v) /\ Bind(p, v, Tail(worklist))
  BY DEF Pick, Pickable, SafeInput
<1>3. p \in Param \ BoundParams /\ v \in Values(p) /\ Tail(worklist) \in Seq(Param)
  BY <1>1, <1>2 DEF Bindable, TypeOK
<1> HIDE DEF p
<1>4. Plan \subseteq Plan' /\ Plan # {}
  <2>1. Plan = row /\ row # {}
    BY <1>1 DEF Plan, RowSafe
  <2>2. row \subseteq row'
    BY <1>2 DEF Bind
  <2> QED BY <2>1, <2>2 DEF Plan
<1>5. ASSUME BoundParams' # Param PROVE Aimed'
  <2>1. DoneRows' = DoneRows
    BY <1>1, <1>2, <1>3, <1>5, BindFinishes DEF BoundParams
  <2>2. Aimed
    BY <1>1, <1>3, <1>4 DEF PurposeInv
  <2> QED BY <1>1, <1>4, <2>1, <2>2, AimKept
<1> QED BY <1>1, <1>5, SeedsKept DEF PurposeInv

(* Below, what the proof of the safety of the search established.          *)
Safe == Grounds /\ SafeInv /\ AmpleSeeds

LEMMA PurposeStep ==
  ASSUME SafeInput
  PROVE  Safe /\ PurposeInv /\ [Next]_vars => PurposeInv'
<1> SUFFICES ASSUME Safe, PurposeInv, [Next]_vars PROVE PurposeInv'
  OBVIOUS
<1>1. TypeOK /\ CoverInv /\ (pc = "row" => RowSafe) /\ pc \notin {"random", "drawn"}
  BY DEF Safe, Grounds, SafeInv, BindInv
<1>2. CASE FixRowSeeds   BY <1>1, <1>2, FixRowSeedsPurpose DEF Safe
<1>3. CASE StartRow      BY <1>1, <1>3, StartRowPurpose DEF StartRow, AtTop
<1>4. CASE ChooseOpen    BY <1>1, <1>4, ChooseOpenPurpose DEF Safe, ChooseOpen, Choosing
<1>5. CASE BindNext      BY <1>1, <1>5, BindNextPurpose
<1>6. CASE Pick          BY <1>1, <1>6, PickPurpose DEF Pick, Picking
<1>7. CASE ChooseCovered \/ NoChoice \/ NoValue
  <2>1. pc = "row"
    BY <1>7 DEF ChooseCovered, NoChoice, NoValue, Choosing, Picking
  <2> QED BY <1>1, <1>7, <2>1, NeverStuck DEF Safe
<1>8. CASE EndRow
  <2>1. pc = "row" /\ pc' = "top" /\ UNCHANGED <<rowSeeds, taskSeeds>>
    BY <1>8 DEF EndRow, input
  <2> QED BY <2>1, SeedsKept DEF PurposeInv
<1>9. CASE \/ ProcessExclusions \/ EmptyExclusion \/ AssertFails \/ DrawRow \/ Cancel
           \/ GiveUp \/ Finish
  <2>1. pc' \notin {"top", "row"}
    BY <1>9 DEF ProcessExclusions, EmptyExclusion, AssertFails, DrawRow, Cancel, GiveUp,
                Finish, MoveResults
  <2> QED BY <2>1 DEF PurposeInv
<1>10. CASE UNCHANGED vars
  <2>1. /\ UNCHANGED <<pc, rowSeeds, taskSeeds, exclusions, columns>>
        /\ Plan' = Plan /\ BoundParams' = BoundParams
    BY <1>10 DEF vars, Plan, BoundParams
  <2>2. Aimed => Aimed'
    BY <2>1, SameRows, AimKept
  <2> QED BY <2>1, <2>2 DEF PurposeInv
<1> QED BY <1>2, <1>3, <1>4, <1>5, <1>6, <1>7, <1>8, <1>9, <1>10 DEF Next, Step

(* What a step leaves alone, seen from the abstract specification.         *)
LEMMA Stutters ==
  ASSUME UNCHANGED <<exclusions, taskSeeds, columns>>, Status' = Status
  PROVE  UNCHANGED <<exclusions, taskSeeds, DoneRows, Status>>
BY SameRows

(* A Bind finishes a row that is valid and has a purpose, or none at all.  *)
LEMMA BindPromised ==
  ASSUME Safe, RowSafe', TypeOK, CoverInv, pc = "row", pc' = "row", Aimed,
         Consistent(Plan), Plan' \in SUBSET Term, Plan \subseteq Plan',
         NEW p \in Param \ BoundParams, NEW v \in Values(p),
         NEW queue \in Seq(Param), Bind(p, v, queue), UNCHANGED <<exclusions, taskSeeds>>
  PROVE  \/ Promise!AddRow
         \/ UNCHANGED <<exclusions, taskSeeds, DoneRows, Status>>
<1>1. Status = "running" /\ Status' = "running"
  BY DEF Status
<1>2. CASE ParamsOf(row') # Param
  BY <1>1, <1>2, BindFinishes
<1>3. CASE ParamsOf(row') = Param
  <2>1. DoneRows' = Append(DoneRows, row')
    BY <1>3, BindFinishes
  <2>2. row' \subseteq Plan' /\ Consistent(Plan') /\ ~ ViolatesAny(Plan', exclusions)
    BY DEF RowSafe, Plan
  <2>3. Plan' = row'
    <3> SUFFICES ASSUME NEW t \in Plan' PROVE t \in row'
      BY <2>2
    <3>1. t[1] \in ParamsOf(row')
      BY <1>3, TermShape
    <3>2. PICK s \in row' : s[1] = t[1]
      BY <3>1 DEF ParamsOf
    <3> QED BY <2>2, <3>2 DEF Consistent
  <2>4. row' \in Rows
    <3>1. row' \in SUBSET Term /\ Consistent(row')
      BY <2>2, <2>3
    <3>2. Project(row', Param) = row'
      BY <1>3, <3>1, CellIsProject
    <3>3. Project(row', Param) \in Cells(Param)
      BY <1>3, <3>1, ProjectIsCell
    <3> QED BY <3>2, <3>3 DEF Rows
  <2>5. Promise!Useful(row')
    <3>1. CASE \E i \in DOMAIN taskSeeds :
                 taskSeeds[i] \cap Term # {} /\ Contained(taskSeeds[i] \cap Term, Plan)
      BY <2>3, <3>1, SameTerms DEF Promise!Useful, Contained
    <3>2. CASE \E k : Target(k) /\ Contained(k, Plan) /\ ~ Covered(k)
      <4>1. PICK k : Target(k) /\ Contained(k, Plan) /\ ~ Covered(k)
        BY <3>2
      <4>2. k \in Promise!Targets /\ Promise!Contained(k, row') /\ ~ Promise!Covered(k)
        BY <2>3, <4>1, SameTerms, SameTargets DEF Contained
      <4> QED BY <4>2 DEF Promise!Useful
    <3> QED BY <3>1, <3>2 DEF Aimed
  <2>6. row' \in Promise!Rows /\ ~ Promise!ViolatesAny(row', exclusions)
    BY <2>2, <2>3, <2>4, SameTerms
  <2> QED BY <1>1, <2>1, <2>5, <2>6 DEF Promise!AddRow
<1> QED BY <1>2, <1>3

(* What is covered: every valid entry, once none is open.                  *)
LEMMA AllCovered ==
  ASSUME Grounds, pc = "top", opened = {}, NEW k, Target(k)
  PROVE  Covered(k)
<1>1. PICK n \in Nat : InStep(n)
  BY DEF Grounds, CoverInv
<1>2. /\ TypeOK /\ Prepared /\ Accounted /\ RowInColumns /\ BoundParams \in {{}, Param}
      /\ k \in AllCells(BaseCombos) /\ ~ ViolatesAny(k, exclusions)
  BY DEF Grounds, EntryInv, CoverInv, Target
<1>3. k \in SUBSET Term /\ k # {} /\ k \notin excluded
  BY <1>2, BaseCellShape, BaseCellNotEmpty DEF Prepared
<1>4. Contained(k, row) \/ Seen(k)
  BY <1>2, <1>3 DEF Accounted
<1>5. CASE Seen(k)
  BY <1>1, <1>2, <1>3, <1>5, SeenIsDone DEF Covered
<1>6. CASE Contained(k, row)
  <2>1. BoundParams = Param
    <3>1. BoundParams # {}
      BY <1>3, <1>6 DEF BoundParams, ParamsOf, Contained
    <3> QED BY <1>2, <3>1
  <2> DEFINE last == n + 1
  <2>2. /\ last \in Nat \ {0} /\ ~ (last <= n) /\ row \in SUBSET Term
        /\ \A q \in Param : Len(columns[q]) = IF q \in ParamsOf(row) THEN n + 1 ELSE n
        /\ \A q \in Param : last <= Len(columns[q])
    BY <1>1, <1>2, <2>1 DEF InStep, BoundParams, TypeOK
  <2>3. RowAt(columns, last) = row
    <3>1. \A t \in row : columns[t[1]][Len(columns[t[1]])] = t[2]
      BY <1>2 DEF RowInColumns
    <3> HIDE DEF last
    <3> QED BY <2>2, <3>1, LastFinished
  <2>4. DoneRows = [i \in 1 .. n + 1 |-> RowAt(columns, i)]
    BY <1>1, <1>2, <2>1, DoneRowsAre
  <2>5. n + 1 \in DOMAIN DoneRows /\ DoneRows[n + 1] = row
    BY <2>3, <2>4
  <2> QED BY <1>6, <2>5 DEF Covered
<1> QED BY <1>4, <1>5, <1>6

LEMMA BindNextPromised ==
  ASSUME SafeInput, Safe, SafeInv', AmpleSeeds', PurposeInv, BindNext
  PROVE  \/ Promise!AddRow
         \/ UNCHANGED <<exclusions, taskSeeds, DoneRows, Status>>
<1> DEFINE p == Head(todo)[1]
           v == Head(todo)[2]
<1>1. /\ TypeOK /\ CoverInv /\ pc = "row" /\ pc' = "row" /\ RowSafe /\ RowSafe'
      /\ UNCHANGED <<exclusions, taskSeeds>>
  BY DEF Safe, Grounds, BindInv, SafeInv, BindNext, input
<1>2. /\ p \in Param \ BoundParams /\ v \in Values(p) /\ worklist \in Seq(Param)
      /\ Bind(p, v, worklist)
  BY <1>1 DEF BindNext, Bindable, TypeOK
<1>3. Plan' = Plan /\ row' # {}
  BY <1>1, PlanStays
<1>4. Plan # {} /\ Plan \in SUBSET Term /\ Consistent(Plan)
  BY <1>1, <1>3 DEF Plan, RowSafe
<1>5. Aimed
  BY <1>1, <1>2, <1>4 DEF PurposeInv
<1> HIDE DEF p, v
<1> QED BY <1>1, <1>2, <1>3, <1>4, <1>5, BindPromised

LEMMA PickPromised ==
  ASSUME SafeInput, Safe, SafeInv', AmpleSeeds', PurposeInv, Pick
  PROVE  \/ Promise!AddRow
         \/ UNCHANGED <<exclusions, taskSeeds, DoneRows, Status>>
<1> DEFINE p == Head(worklist)
<1>1. /\ TypeOK /\ CoverInv /\ pc = "row" /\ pc' = "row" /\ RowSafe /\ RowSafe'
      /\ todo = <<>> /\ worklist # <<>> /\ UNCHANGED <<exclusions, taskSeeds>>
  BY DEF Safe, Grounds, SafeInv, Pick, Picking, input
<1>2. PICK v \in BestValues(p) : Bindable(p, v) /\ Bind(p, v, Tail(worklist))
  BY DEF Pick, Pickable, SafeInput
<1>3. p \in Param \ BoundParams /\ v \in Values(p) /\ Tail(worklist) \in Seq(Param)
  BY <1>1, <1>2 DEF Bindable, TypeOK
<1> HIDE DEF p
<1>4. Plan = row /\ row # {} /\ row \subseteq Plan'
  BY <1>1, <1>2 DEF Plan, RowSafe, Bind
<1>5. Aimed
  BY <1>1, <1>3, <1>4 DEF PurposeInv
<1>6. Consistent(Plan) /\ Plan' \in SUBSET Term
  BY <1>1 DEF RowSafe
<1> QED BY <1>1, <1>2, <1>3, <1>4, <1>5, <1>6, BindPromised

LEMMA FinishPromised ==
  ASSUME Grounds, BindInv', Finish
  PROVE  Promise!Deliver
<1>1. /\ pc = "top" /\ CountsRight /\ TypeOK /\ zeros <= 0 /\ pc' = "done"
      /\ UNCHANGED <<exclusions, taskSeeds, columns>>
  BY DEF Grounds, BindInv, Finish, AtTop, MoveResults, CountInv, Counting, input, rowState
<1>2. opened = {}
  <2>1. IsFiniteSet(opened) /\ Cardinality(opened) \in Nat
    BY <1>1, OpenedFinite
  <2> QED BY <1>1, <2>1, FS_EmptySet DEF CountsRight
<1>3. \A k \in Promise!Targets : Promise!Covered(k)
  BY <1>1, <1>2, AllCovered, SameTargets
<1>4. Status = "running" /\ Status' = "done"
  BY <1>1 DEF Status
<1> QED BY <1>1, <1>3, <1>4, SameRows DEF Promise!Deliver

LEMMA FixRowSeedsPromised ==
  ASSUME Grounds, FixRowSeeds
  PROVE  \/ Promise!Deliver
         \/ UNCHANGED <<exclusions, taskSeeds, DoneRows, Status>>
<1>1. /\ pc = "seeds" /\ Prepared /\ UNCHANGED <<exclusions, taskSeeds, columns>>
      /\ (vecCombo = <<>> /\ pc' = "returned") \/ pc' = "top"
  BY DEF FixRowSeeds, Grounds, EntryInv, input, rowState
<1>2. Status = "running"
  BY <1>1 DEF Status
<1>3. CASE pc' = "top"
  BY <1>1, <1>2, <1>3, Stutters DEF Status
<1>4. CASE vecCombo = <<>> /\ pc' = "returned"
  <2>1. DOMAIN BaseCombos = {}
    <3>1. ComboIds = {}
      BY <1>4 DEF ComboIds
    <3> QED BY <1>1, <3>1 DEF Prepared
  <2>2. \A k : ~ Target(k)
    BY <2>1 DEF Target, AllCells
  <2>3. \A k \in Promise!Targets : Promise!Covered(k)
    BY <2>2, SameTargets
  <2>4. Status' = "done"
    BY <1>4 DEF Status
  <2> QED BY <1>1, <1>2, <2>3, <2>4, SameRows DEF Promise!Deliver
<1> QED BY <1>1, <1>3, <1>4

LEMMA PromiseStep ==
  ASSUME SafeInput
  PROVE  Safe /\ PurposeInv /\ Safe' /\ [Next]_vars =>
           [Promise!Next]_<<exclusions, taskSeeds, DoneRows, Status>>
<1> SUFFICES ASSUME Safe, PurposeInv, Safe', [Next]_vars
             PROVE  \/ Promise!Next
                    \/ UNCHANGED <<exclusions, taskSeeds, DoneRows, Status>>
  OBVIOUS
<1>1. /\ Grounds /\ TypeOK /\ BindInv /\ BindInv' /\ SafeInv' /\ AmpleSeeds'
      /\ pc = "row" => RowSafe
      /\ pc \notin {"random", "drawn"} /\ pc' # "asserted"
  BY DEF Safe, Grounds, SafeInv, BindInv
<1>2. CASE BindNext        BY <1>1, <1>2, BindNextPromised DEF Promise!Next
<1>3. CASE Pick            BY <1>1, <1>3, PickPromised DEF Promise!Next
<1>4. CASE Finish          BY <1>1, <1>4, FinishPromised DEF Promise!Next
<1>5. CASE FixRowSeeds     BY <1>1, <1>5, FixRowSeedsPromised DEF Promise!Next
<1>6. CASE Cancel
  <2>1. Status = "running" /\ Status' = "cancelled" /\ UNCHANGED <<exclusions, taskSeeds, columns>>
    BY <1>1, <1>6 DEF Cancel, AtTop, Status, input, rowState
  <2> QED BY <2>1, SameRows DEF Promise!Cancel, Promise!Next
<1>7. CASE ChooseCovered \/ NoChoice \/ NoValue
  <2>1. RowSafe
    BY <1>1, <1>7 DEF ChooseCovered, NoChoice, NoValue, Choosing, Picking
  <2> QED BY <1>1, <1>7, <2>1, NeverStuck
<1>8. CASE EmptyExclusion \/ AssertFails \/ DrawRow \/ GiveUp
  BY <1>1, <1>8, AssertDisabled DEF EmptyExclusion, DrawRow, GiveUp
<1>9. CASE ProcessExclusions \/ StartRow \/ EndRow \/ ChooseOpen
  <2>1. /\ pc \in {"start", "top", "row"} /\ pc' \in {"seeds", "row", "top"}
        /\ UNCHANGED <<exclusions, taskSeeds, columns>>
    BY <1>1, <1>9 DEF ProcessExclusions, StartRow, AtTop, EndRow, ChooseOpen, Choosing, BindCell,
                      input, rowState, SafeInput
  <2>2. Status = "running" /\ Status' = "running"
    BY <2>1 DEF Status
  <2> QED BY <2>1, <2>2, Stutters
<1>10. CASE UNCHANGED vars
  BY <1>10, Stutters DEF vars, Status
<1> QED BY <1>2, <1>3, <1>4, <1>5, <1>6, <1>7, <1>8, <1>9, <1>10 DEF Next, Step

LEMMA InitPromised == Init => Promise!Init /\ PurposeInv
<1> SUFFICES ASSUME Init PROVE Promise!Init /\ PurposeInv
  OBVIOUS
<1>1. /\ pc = "start" /\ \A p \in Param : Len(columns[p]) = 0
      /\ row = {} /\ TypeOK
  BY InitType DEF Init
<1>2. InStep(0) /\ BoundParams # Param
  BY <1>1, NothingBound, ParamAssumption DEF InStep
<1>3. DoneRows = [i \in 1 .. 0 |-> RowAt(columns, i)]
  BY <1>1, <1>2, DoneRowsAre
<1>4. DoneRows = <<>>
  BY <1>3
<1> QED BY <1>1, <1>4 DEF Promise!Init, Status, PurposeInv

(***************************************************************************)
(* The generator keeps its promise (pictapi.h:107, :135, doc/pict.md): the *)
(* suite grows by valid rows only, each of which completes a seed or       *)
(* covers a valid combination that no row before covered; it is delivered  *)
(* when every valid combination is covered, unless the caller aborts; and  *)
(* it never breaks down.  For every model of one order of two or more,     *)
(* closed exclusions, and seeds that are not too short.                    *)
(***************************************************************************)
THEOREM GeneratorImplementsPromise ==
  ASSUME SafeInput, AmpleInput PROVE Spec => PromiseKept
<1>1. SoundInput
  BY DEF SafeInput
<1>2. TypeOK => AmpleSeeds
  BY AmpleAlways
<1>3. Grounds /\ SafeInv => Safe
  BY <1>2 DEF Safe, Grounds
<1> QED BY <1>1, <1>3, GroundsHold, SafeHolds, InitPromised, PurposeStep, PromiseStep, PTL
           DEF Spec, PromiseKept, Promise!Spec

-----------------------------------------------------------------------------
(* Seeds *)

(* Only one order of a set follows a key.                                  *)
LEMMA OneOrdering ==
  ASSUME NEW S, IsFiniteSet(S), NEW key, \A x \in S : key[x] \in Int,
         NEW a \in Ordered(S, key), NEW b \in Ordered(S, key)
  PROVE  a = b
<1> DEFINE N == Cardinality(S)
           D == { i \in 1 .. N : a[i] # b[i] }
           f == [i \in D |-> 0 - i]
<1>1. /\ N \in Nat /\ a \in [1 .. N -> S] /\ b \in [1 .. N -> S]
      /\ \A i, j \in 1 .. N : i < j => key[a[i]] < key[a[j]] /\ key[b[i]] < key[b[j]]
  BY FS_CardinalityType DEF Ordered
<1>2. /\ \A x \in S : \E i \in 1 .. N : a[i] = x
      /\ \A x \in S : \E i \in 1 .. N : b[i] = x
  <2>1. \A x \in S : \E i \in DOMAIN a : a[i] = x
    BY OrderedAll
  <2>2. \A x \in S : \E i \in DOMAIN b : b[i] = x
    BY OrderedAll
  <2> QED BY <1>1, <2>1, <2>2
<1>3. ASSUME D # {} PROVE FALSE
  <2>1. IsFiniteSet(D) /\ D \subseteq 1 .. N
    <3>1. IsFiniteSet(1 .. N)
      BY <1>1, FS_Interval
    <3> QED BY <3>1, FS_Subset
  <2>2. PICK n \in D : \A i \in D : f[i] <= f[n]
    <3>1. \A i \in D : f[i] \in Int
      OBVIOUS
    <3> HIDE DEF D, f
    <3> QED BY <1>3, <2>1, <3>1, Largest
  <2>3. n \in 1 .. N /\ a[n] # b[n] /\ a[n] \in S /\ b[n] \in S
    BY <1>1
  <2>4. \A i \in 1 .. N : i < n => a[i] = b[i]
    <3> SUFFICES ASSUME NEW i \in 1 .. N, i < n, i \in D PROVE FALSE
      OBVIOUS
    <3>1. f[i] <= f[n]
      BY <2>2
    <3> QED BY <1>1, <2>3, <3>1
  <2> HIDE DEF D, f, N
  <2>5. PICK i \in 1 .. N : b[i] = a[n]
    BY <1>2, <2>3
  <2>6. PICK j \in 1 .. N : a[j] = b[n]
    BY <1>2, <2>3
  <2>7. \A x \in S : ~ (key[x] < key[x])
    OBVIOUS
  <2>8. i > n
    <3>1. ASSUME i < n PROVE FALSE
      BY <1>1, <2>3, <2>4, <2>5, <2>7, <3>1
    <3> QED BY <1>1, <2>3, <2>5, <3>1
  <2>9. j > n
    <3>1. ASSUME j < n PROVE FALSE
      BY <1>1, <2>3, <2>4, <2>6, <2>7, <3>1
    <3> QED BY <1>1, <2>3, <2>6, <3>1
  <2>10. key[b[n]] < key[a[n]] /\ key[a[n]] < key[b[n]]
    BY <1>1, <2>3, <2>5, <2>6, <2>8, <2>9
  <2>11. key[a[n]] \in Int /\ key[b[n]] \in Int
    BY <2>3
  <2> QED BY <2>10, <2>11
<1>4. \A i \in 1 .. N : a[i] = b[i]
  BY <1>3
<1> HIDE DEF N, D, f
<1> QED BY <1>1, <1>4

LEMMA KeptOnce ==
  ASSUME NEW list, NEW keep \in SUBSET Nat, IsFiniteSet(keep),
         NEW x \in Kept(list, keep), NEW y \in Kept(list, keep)
  PROVE  x = y
<1> DEFINE key == [i \in keep |-> i]
<1>1. PICK a \in Ordered(keep, key) : x = [n \in 1 .. Cardinality(keep) |-> list[a[n]]]
  BY DEF Kept
<1>2. PICK b \in Ordered(keep, key) : y = [n \in 1 .. Cardinality(keep) |-> list[b[n]]]
  BY DEF Kept
<1>3. \A i \in keep : key[i] \in Int
  OBVIOUS
<1> HIDE DEF key
<1>4. a = b
  BY <1>3, OneOrdering
<1> QED BY <1>1, <1>2, <1>4

LEMMA FixedOnce ==
  ASSUME TypeOK, NEW x \in FixedSeeds(taskSeeds, exclusions),
         NEW y \in FixedSeeds(taskSeeds, exclusions)
  PROVE  x = y
<1> DEFINE known == KnownTerms(taskSeeds)
           keep  == { i \in DOMAIN known :
                        ~ Redundant(known, i) /\ ~ ViolatesAny(known[i], exclusions) }
<1>1. taskSeeds \in Seq(SUBSET (Nat \X Nat))
  BY GcdAssumption DEF TypeOK
<1>2. keep \in SUBSET Nat /\ IsFiniteSet(keep)
  <2>1. DOMAIN known = 1 .. Len(taskSeeds) /\ Len(taskSeeds) \in Nat
    BY <1>1 DEF KnownTerms
  <2>2. IsFiniteSet(1 .. Len(taskSeeds))
    BY <2>1, FS_Interval
  <2>3. keep \in SUBSET (1 .. Len(taskSeeds))
    BY <2>1
  <2> QED BY <2>2, <2>3, FS_Subset
<1>3. x \in Kept(known, keep) /\ y \in Kept(known, keep)
  BY DEF FixedSeeds
<1> HIDE DEF known, keep
<1> QED BY <1>2, <1>3, KeptOnce

(* After m rows, the seeds that are left are those from number m + 1 on.   *)
Rest(fixed, m) ==
  \A j \in Nat \ {0} :
    m + j \in DOMAIN fixed => j \in DOMAIN rowSeeds /\ rowSeeds[j] = fixed[m + j]

(* The first m rows have kept their seeds.                                 *)
KeptBy(fixed, m) ==
  \A i \in 1 .. m : i \in DOMAIN fixed => Contained(fixed[i], RowAt(columns, i))

SeedInv ==
  /\ pc \in {"start", "seeds"} =>
       rowSeeds = taskSeeds /\ row = {} /\ \A p \in Param : Len(columns[p]) = 0
  /\ pc \in {"random", "drawn"} => Mode = "Approximate"
  /\ \A fixed \in FixedSeeds(taskSeeds, exclusions) :
       /\ pc = "top" => Rest(fixed, Shortest(columns)) /\ KeptBy(fixed, Shortest(columns))
       /\ pc = "row" =>
            \E n \in Nat :
              /\ InStep(n) /\ Rest(fixed, n + 1) /\ KeptBy(fixed, n)
              /\ n + 1 \in DOMAIN fixed => Contained(fixed[n + 1], Plan)

LEMMA FixRowSeedsSeeds == TypeOK /\ SeedInv /\ FixRowSeeds => SeedInv'
<1> SUFFICES ASSUME TypeOK, SeedInv, FixRowSeeds PROVE SeedInv'
  OBVIOUS
<1>1. /\ pc = "seeds" /\ pc' \in {"returned", "top"} /\ rowSeeds = taskSeeds
      /\ rowSeeds' \in FixedSeeds(taskSeeds, exclusions)
      /\ row = {} /\ \A p \in Param : Len(columns[p]) = 0
      /\ UNCHANGED <<taskSeeds, exclusions, columns>>
  BY DEF FixRowSeeds, SeedInv, input, rowState
<1>2. Shortest(columns) = 0
  <2>1. InStep(0) /\ BoundParams # Param
    BY <1>1, NothingBound, ParamAssumption DEF InStep
  <2> QED BY <2>1, DoneRowsAre
<1> SUFFICES ASSUME NEW fixed \in FixedSeeds(taskSeeds, exclusions)
             PROVE  Rest(fixed, 0)' /\ KeptBy(fixed, 0)'
  BY <1>1, <1>2 DEF SeedInv
<1>3. rowSeeds' = fixed
  BY <1>1, FixedOnce
<1> QED BY <1>3 DEF Rest, KeptBy

LEMMA StartRowSeeds == TypeOK /\ CoverInv /\ SeedInv /\ StartRow => SeedInv'
<1> SUFFICES ASSUME TypeOK, CoverInv, SeedInv, StartRow PROVE SeedInv'
  OBVIOUS
<1>1. /\ pc' \in {"row", "random"} /\ UNCHANGED <<taskSeeds, exclusions, columns>>
      /\ pc' = "random" => Mode = "Approximate"
      /\ pc' = "row" => Mode # "Approximate"
      /\ row' = {} /\ pc \in {"top", "drawn"}
      /\ rowSeeds \in Seq(SUBSET (Nat \X Nat))
  BY DEF StartRow, AtTop, input, TypeOK
<1> SUFFICES ASSUME pc' = "row", NEW fixed \in FixedSeeds(taskSeeds, exclusions)
             PROVE  \E n \in Nat :
                      /\ InStep(n)' /\ Rest(fixed, n + 1)' /\ KeptBy(fixed, n)'
                      /\ n + 1 \in DOMAIN fixed => Contained(fixed[n + 1], Plan')
  BY <1>1 DEF SeedInv
<1>2. PICK n : n = Shortest(columns)
  OBVIOUS
<1>3. pc = "top" /\ Rest(fixed, n) /\ KeptBy(fixed, n)
  BY <1>1, <1>2 DEF SeedInv
<1>4. n \in Nat /\ InStep(n)'
  <2>1. PICK m \in Nat : InStep(m)
    BY DEF CoverInv
  <2>2. n = IF BoundParams = Param THEN m + 1 ELSE m
    BY <1>2, <2>1, DoneRowsAre
  <2>3. BoundParams \in {{}, Param} /\ BoundParams' = {}
    BY <1>1, <1>3 DEF CoverInv, BoundParams, ParamsOf
  <2>4. \A p \in Param : Len(columns[p]) = n
    BY <2>1, <2>2, <2>3 DEF InStep
  <2> QED BY <1>1, <2>1, <2>2, <2>3, <2>4 DEF InStep
<1>5. KeptBy(fixed, n)'
  BY <1>1, <1>3 DEF KeptBy
<1>6. Rest(fixed, n + 1)'
  <2> SUFFICES ASSUME NEW j \in Nat \ {0}, n + 1 + j \in DOMAIN fixed
               PROVE  j \in DOMAIN rowSeeds' /\ rowSeeds'[j] = fixed[n + 1 + j]
    BY DEF Rest
  <2>1. j + 1 \in Nat \ {0} /\ n + (j + 1) = n + 1 + j
    BY <1>4
  <2>2. j + 1 \in DOMAIN rowSeeds /\ rowSeeds[j + 1] = fixed[n + 1 + j]
    BY <1>3, <2>1 DEF Rest
  <2>3. rowSeeds # <<>> /\ rowSeeds' = Tail(rowSeeds)
    BY <2>2 DEF StartRow, TakeSeed
  <2> QED BY <1>1, <2>2, <2>3
<1>7. ASSUME n + 1 \in DOMAIN fixed PROVE Contained(fixed[n + 1], Plan')
  <2>1. 1 \in DOMAIN rowSeeds /\ rowSeeds[1] = fixed[n + 1]
    BY <1>3, <1>7 DEF Rest
  <2>2. rowSeeds # <<>> /\ Head(rowSeeds) = fixed[n + 1]
    BY <1>1, <2>1
  <2> QED BY <2>2, StartedPlan DEF Contained
<1> QED BY <1>4, <1>5, <1>6, <1>7

LEMMA BindSeeds ==
  ASSUME TypeOK, CoverInv, SeedInv, pc = "row", pc' = "row", Plan \subseteq Plan',
         NEW p \in Param \ BoundParams, NEW v \in Values(p),
         NEW queue \in Seq(Param), Bind(p, v, queue),
         UNCHANGED <<rowSeeds, taskSeeds, exclusions>>
  PROVE  SeedInv'
<1> SUFFICES ASSUME NEW fixed \in FixedSeeds(taskSeeds, exclusions)
             PROVE  \E n \in Nat :
                      /\ InStep(n)' /\ Rest(fixed, n + 1)' /\ KeptBy(fixed, n)'
                      /\ n + 1 \in DOMAIN fixed => Contained(fixed[n + 1], Plan')
  BY DEF SeedInv
<1>1. PICK n \in Nat : /\ InStep(n) /\ Rest(fixed, n + 1) /\ KeptBy(fixed, n)
                       /\ n + 1 \in DOMAIN fixed => Contained(fixed[n + 1], Plan)
  BY DEF SeedInv
<1>2. \A q \in Param :
        /\ Len(columns'[q]) = IF q \in ParamsOf(row') THEN n + 1 ELSE n
        /\ \A i \in 1 .. n : columns'[q][i] = columns[q][i]
  BY <1>1, AppendedColumns DEF CoverInv
<1>3. InStep(n)'
  BY <1>2 DEF InStep, BoundParams
<1>4. Rest(fixed, n + 1)'
  BY <1>1 DEF Rest
<1>5. KeptBy(fixed, n)'
  <2>1. \A i \in 1 .. n : RowAt(columns', i) = RowAt(columns, i)
    BY <1>2 DEF RowAt
  <2> QED BY <1>1, <2>1 DEF KeptBy
<1>6. n + 1 \in DOMAIN fixed => Contained(fixed[n + 1], Plan')
  BY <1>1 DEF Contained
<1> QED BY <1>3, <1>4, <1>5, <1>6

LEMMA BindNextSeeds == TypeOK /\ CoverInv /\ SeedInv /\ BindNext => SeedInv'
<1> SUFFICES ASSUME TypeOK, CoverInv, SeedInv, BindNext PROVE SeedInv'
  OBVIOUS
<1> DEFINE p == Head(todo)[1]
           v == Head(todo)[2]
<1>1. /\ p \in Param \ BoundParams /\ v \in Values(p) /\ worklist \in Seq(Param)
      /\ Bind(p, v, worklist) /\ UNCHANGED <<exclusions, taskSeeds, rowSeeds>>
      /\ pc \in {"row", "random", "drawn"} /\ pc' = pc
  BY DEF BindNext, Bindable, TypeOK, input
<1>2. CASE pc = "row"
  <2>1. Plan \subseteq Plan'
    BY PlanStays
  <2> HIDE DEF p, v
  <2> QED BY <1>1, <1>2, <2>1, BindSeeds
<1>3. CASE pc # "row"
  BY <1>1, <1>3 DEF SeedInv
<1> QED BY <1>2, <1>3

LEMMA PickSeeds == TypeOK /\ CoverInv /\ SeedInv /\ Pick => SeedInv'
<1> SUFFICES ASSUME TypeOK, CoverInv, SeedInv, Pick PROVE SeedInv'
  OBVIOUS
<1> DEFINE p == Head(worklist)
<1>1. /\ pc = "row" /\ pc' = "row" /\ todo = <<>> /\ worklist # <<>>
      /\ UNCHANGED <<exclusions, taskSeeds, rowSeeds>>
  BY DEF Pick, Picking, input
<1>2. PICK v \in Pickable(p) : Bindable(p, v) /\ Bind(p, v, Tail(worklist))
  BY DEF Pick
<1>3. p \in Param \ BoundParams /\ v \in Values(p) /\ Tail(worklist) \in Seq(Param)
  BY <1>1, <1>2 DEF Bindable, TypeOK
<1> HIDE DEF p
<1>4. Plan \subseteq Plan'
  <2>1. Plan = row /\ row \subseteq row'
    BY <1>1, <1>2 DEF Plan, Bind
  <2> QED BY <2>1 DEF Plan
<1> QED BY <1>1, <1>2, <1>3, <1>4, BindSeeds

LEMMA ChooseSeeds == SeedInv /\ (ChooseOpen \/ ChooseCovered) => SeedInv'
<1> SUFFICES ASSUME SeedInv, ChooseOpen \/ ChooseCovered PROVE SeedInv'
  OBVIOUS
<1>1. /\ pc = "row" /\ pc' = "row" /\ todo = <<>>
      /\ UNCHANGED <<exclusions, taskSeeds, rowSeeds, row, columns>>
  BY DEF ChooseOpen, ChooseCovered, Choosing, BindCell, input
<1>2. Plan \subseteq Plan'
  <2>1. Plan = row
    BY <1>1 DEF Plan
  <2> QED BY <1>1, <2>1 DEF Plan
<1>3. /\ \A n : InStep(n) => InStep(n)'
      /\ \A fixed, n : Rest(fixed, n) => Rest(fixed, n)'
      /\ \A fixed, n : KeptBy(fixed, n) => KeptBy(fixed, n)'
  BY <1>1 DEF InStep, BoundParams, Rest, KeptBy
<1> QED BY <1>1, <1>2, <1>3 DEF SeedInv, Contained

LEMMA EndRowSeeds == TypeOK /\ CountInv /\ CoverInv /\ SeedInv /\ EndRow => SeedInv'
<1> SUFFICES ASSUME TypeOK, CountInv, CoverInv, SeedInv, EndRow PROVE SeedInv'
  OBVIOUS
<1>1. /\ pc = "row" /\ pc' = "top" /\ todo = <<>> /\ unbound <= 0
      /\ UNCHANGED <<exclusions, taskSeeds, rowSeeds, row, columns>>
  BY DEF EndRow, input, rowState
<1>2. BoundParams = Param /\ Plan = row
  <2>1. unbound = Cardinality(Param \ BoundParams)
    BY <1>1 DEF CountInv
  <2>2. IsFiniteSet(Param \ BoundParams) /\ Cardinality(Param \ BoundParams) \in Nat
    BY SubsetsOfParamFinite
  <2>3. Param \ BoundParams = {}
    BY <1>1, <2>1, <2>2, FS_EmptySet
  <2>4. BoundParams \subseteq Param
    BY TermShape DEF TypeOK, BoundParams, ParamsOf
  <2>5. Plan = row
    BY <1>1 DEF Plan
  <2> QED BY <2>3, <2>4, <2>5
<1> SUFFICES ASSUME NEW fixed \in FixedSeeds(taskSeeds, exclusions)
             PROVE  Rest(fixed, Shortest(columns))' /\ KeptBy(fixed, Shortest(columns))'
  BY <1>1 DEF SeedInv
<1>3. PICK n \in Nat : /\ InStep(n) /\ Rest(fixed, n + 1) /\ KeptBy(fixed, n)
                       /\ n + 1 \in DOMAIN fixed => Contained(fixed[n + 1], Plan)
  BY <1>1 DEF SeedInv
<1> DEFINE last == n + 1
<1>4. Shortest(columns) = last /\ Shortest(columns') = last
  BY <1>1, <1>2, <1>3, DoneRowsAre
<1>5. RowAt(columns, last) = row
  <2>1. /\ last \in Nat \ {0} /\ ~ (last <= n) /\ row \in SUBSET Term
        /\ \A q \in Param : Len(columns[q]) = IF q \in ParamsOf(row) THEN n + 1 ELSE n
        /\ \A q \in Param : last <= Len(columns[q])
    BY <1>2, <1>3 DEF InStep, BoundParams, TypeOK
  <2>2. \A t \in row : columns[t[1]][Len(columns[t[1]])] = t[2]
    BY DEF CoverInv, RowInColumns
  <2> HIDE DEF last
  <2> QED BY <2>1, <2>2, LastFinished
<1>6. Rest(fixed, last)'
  BY <1>1, <1>3 DEF Rest
<1>7. KeptBy(fixed, last)'
  <2> SUFFICES ASSUME NEW i \in 1 .. last, i \in DOMAIN fixed
               PROVE  Contained(fixed[i], RowAt(columns, i))
    BY <1>1 DEF KeptBy
  <2>1. i \in 1 .. n \/ i = last
    BY <1>3
  <2> QED BY <1>2, <1>3, <1>5, <2>1 DEF KeptBy
<1> QED BY <1>4, <1>6, <1>7 DEF Rest, KeptBy

LEMMA SeedStep == TypeOK /\ CountInv /\ CoverInv /\ SeedInv /\ [Next]_vars => SeedInv'
<1> SUFFICES ASSUME TypeOK, CountInv, CoverInv, SeedInv, [Next]_vars PROVE SeedInv'
  OBVIOUS
<1>1. CASE FixRowSeeds                 BY <1>1, FixRowSeedsSeeds
<1>2. CASE StartRow                    BY <1>2, StartRowSeeds
<1>3. CASE BindNext                    BY <1>3, BindNextSeeds
<1>4. CASE Pick                        BY <1>4, PickSeeds
<1>5. CASE ChooseOpen \/ ChooseCovered BY <1>5, ChooseSeeds
<1>6. CASE EndRow                      BY <1>6, EndRowSeeds
<1>7. CASE ProcessExclusions
  BY <1>7 DEF ProcessExclusions, SeedInv, input, rowState
<1>8. CASE DrawRow
  BY <1>8 DEF DrawRow, SeedInv
<1>9. CASE EmptyExclusion \/ AssertFails \/ Cancel \/ NoChoice \/ NoValue \/ GiveUp \/ Finish
  BY <1>9 DEF EmptyExclusion, AssertFails, Cancel, NoChoice, NoValue, GiveUp, Finish,
              MoveResults, SeedInv
<1>10. CASE UNCHANGED vars
  <2>1. /\ UNCHANGED <<pc, exclusions, taskSeeds, rowSeeds, row, columns>>
        /\ Plan' = Plan /\ Shortest(columns)' = Shortest(columns)
    BY <1>10 DEF vars, Plan
  <2>2. /\ \A n : InStep(n) => InStep(n)'
        /\ \A fixed, n : Rest(fixed, n) => Rest(fixed, n)'
        /\ \A fixed, n : KeptBy(fixed, n) => KeptBy(fixed, n)'
    BY <2>1 DEF InStep, BoundParams, Rest, KeptBy
  <2> QED BY <2>1, <2>2 DEF SeedInv, Contained
<1> QED BY <1>1, <1>2, <1>3, <1>4, <1>5, <1>6, <1>7, <1>8, <1>9, <1>10 DEF Next, Step

(***************************************************************************)
(* The seeds that fixRowSeeds keeps are used in order, one per row, and    *)
(* every row contains the seed it was started from (model.cpp:149-168),    *)
(* for every model, every input and every mode.                            *)
(***************************************************************************)
THEOREM SeedsStayInTheirRows == Spec => []SeedRowsKeepSeeds
<1>1. Init => SeedInv
  <2> SUFFICES ASSUME Init PROVE SeedInv
    OBVIOUS
  <2>1. \A p \in Param : Len(columns[p]) = 0
    BY DEF Init
  <2> QED BY <2>1 DEF Init, SeedInv
<1>2. TypeOK /\ CoverInv /\ SeedInv => SeedRowsKeepSeeds
  <2> SUFFICES ASSUME TypeOK, CoverInv, SeedInv, pc = "top",
                      NEW fixed \in FixedSeeds(taskSeeds, exclusions),
                      NEW i \in DOMAIN DoneRows, i \in DOMAIN fixed
               PROVE  Contained(fixed[i], DoneRows[i])
    BY DEF SeedRowsKeepSeeds
  <2>1. PICK n \in Nat : InStep(n)
    BY DEF CoverInv
  <2>2. DoneRows = [m \in 1 .. Shortest(columns) |-> RowAt(columns, m)]
    BY <2>1, DoneRowsAre
  <2>3. i \in 1 .. Shortest(columns) /\ DoneRows[i] = RowAt(columns, i)
    BY <2>2
  <2> QED BY <2>3 DEF SeedInv, KeptBy
<1> QED BY <1>1, <1>2, SeedStep, TypeCorrect, InitCounts, CountStep, InitCover, CoverStep, PTL
           DEF Spec

-----------------------------------------------------------------------------
(* Approximate mode *)

(* A row was drawn over a seed: some Bind of the loop will fail, or has.   *)
Lost ==
  \/ pc = "drawn" /\ \E i \in DOMAIN todo : todo[i][1] \in BoundParams
  \/ pc = "asserted"

(* What is planned is one seed or one random row, each of them valid.      *)
Drawn ==
  /\ pc # "row"
  /\ pc \in {"top", "random", "drawn"} =>
       \A i \in DOMAIN rowSeeds : ~ ViolatesAny(rowSeeds[i], exclusions)
  /\ pc \in {"random", "drawn"} => Plan = {} \/ ~ ViolatesAny(Plan, exclusions)
  /\ ColumnsValid

LEMMA StartRowDrawn ==
  ASSUME Mode = "Approximate"
  PROVE  TypeOK /\ Drawn /\ StartRow => Drawn'
<1> SUFFICES ASSUME TypeOK, Drawn, StartRow PROVE Drawn'
  OBVIOUS
<1>1. /\ pc' = "random" /\ pc \in {"top", "drawn"} /\ UNCHANGED <<exclusions, columns>>
      /\ rowSeeds \in Seq(SUBSET (Nat \X Nat))
      /\ \A i \in DOMAIN rowSeeds : ~ ViolatesAny(rowSeeds[i], exclusions)
  BY DEF StartRow, AtTop, Drawn, input, TypeOK
<1>2. Plan' = {} \/ ~ ViolatesAny(Plan', exclusions)
  <2>1. rowSeeds # <<>> => 1 \in DOMAIN rowSeeds /\ Head(rowSeeds) = rowSeeds[1]
    BY <1>1
  <2> QED BY <1>1, <2>1, StartedPlan
<1>3. \A i \in DOMAIN rowSeeds' : ~ ViolatesAny(rowSeeds'[i], exclusions)
  <2>1. CASE rowSeeds = <<>>
    BY <1>1, <2>1 DEF StartRow, TakeSeed
  <2>2. CASE rowSeeds # <<>>
    <3>1. rowSeeds' = Tail(rowSeeds)
      BY <2>2 DEF StartRow, TakeSeed
    <3>2. \A i \in DOMAIN rowSeeds' : i + 1 \in DOMAIN rowSeeds /\ rowSeeds'[i] = rowSeeds[i + 1]
      BY <1>1, <2>2, <3>1
    <3> QED BY <1>1, <3>2
  <2> QED BY <2>1, <2>2
<1>4. ColumnsValid'
  BY <1>1 DEF Drawn, ColumnsValid, RowAt
<1> QED BY <1>1, <1>2, <1>3, <1>4 DEF Drawn

LEMMA BindNextDrawn == TypeOK /\ CoverInv /\ Drawn /\ BindNext => Drawn'
<1> SUFFICES ASSUME TypeOK, CoverInv, Drawn, BindNext PROVE Drawn'
  OBVIOUS
<1> DEFINE p == Head(todo)[1]
           v == Head(todo)[2]
<1>1. /\ pc \in {"random", "drawn"} /\ pc' = pc /\ UNCHANGED <<exclusions, rowSeeds>>
      /\ p \in Param \ BoundParams /\ v \in Values(p) /\ worklist \in Seq(Param)
      /\ Bind(p, v, worklist) /\ ColumnsValid
  BY DEF BindNext, Bindable, Drawn, TypeOK, input
<1>2. Plan' = Plan /\ row' # {} /\ row' \subseteq Plan
  <2>1. Plan' = Plan /\ row' # {}
    BY PlanStays
  <2> QED BY <2>1 DEF Plan
<1>3. ~ ViolatesAny(Plan, exclusions)
  BY <1>1, <1>2 DEF Drawn
<1>4. ~ ViolatesAny(row \cup {<<p, v>>}, exclusions)
  <2>1. row' = row \cup {<<p, v>>}
    BY <1>1 DEF Bind
  <2> QED BY <1>2, <1>3, <2>1 DEF ViolatesAny, Contained
<1> HIDE DEF p, v
<1>5. ColumnsValid'
  BY <1>1, <1>4, BindKeepsValid
<1> QED BY <1>1, <1>2, <1>3, <1>5 DEF Drawn

(* A random row binds every parameter.                                     *)
LEMMA DrawnPlan ==
  ASSUME TypeOK, DrawRow
  PROVE  \E r : /\ ~ ViolatesAny(r, exclusions) /\ ParamsOf(r) = Param
                /\ Plan' = row \cup r
                /\ \A t \in r : \E i \in DOMAIN todo' : todo'[i] = t
<1>1. PICK r \in RandomRows : ~ Rejected(r) /\ todo' \in Ordered(r, [t \in r |-> t[1]])
  BY DEF DrawRow
<1>2. PICK f \in [Param -> UNION { RandomValues(p) : p \in Param }] :
        r = { <<p, f[p]>> : p \in Param }
  BY <1>1 DEF RandomRows
<1>3. ParamsOf(r) = Param
  <2>1. \A p \in Param : <<p, f[p]>> \in r /\ <<p, f[p]>>[1] = p
    BY <1>2
  <2>2. \A t \in r : t[1] \in Param
    BY <1>2
  <2> QED BY <2>1, <2>2 DEF ParamsOf
<1> DEFINE key == [t \in r |-> t[1]]
<1>4. IsFiniteSet(r)
  <2> DEFINE g == [p \in Param |-> <<p, f[p]>>]
  <2>1. g \in Surjection(Param, r)
    <3>1. \A t \in r : \E p \in Param : g[p] = t
      BY <1>2
    <3>2. g \in [Param -> r]
      BY <1>2
    <3> QED BY <3>1, <3>2 DEF Surjection
  <2> HIDE DEF g
  <2> QED BY <2>1, FS_Surjection, ParamAssumption
<1>5. \A t \in r : key[t] \in Int
  BY <1>2, ParamAssumption
<1> HIDE DEF key
<1>6. todo' \in Ordered(r, key)
  BY <1>1 DEF key
<1>7. todo' \in Seq(r) /\ \A t \in r : \E i \in DOMAIN todo' : todo'[i] = t
  BY <1>4, <1>5, <1>6, OrderedShape, OrderedAll
<1>8. row' = row
  BY DEF DrawRow
<1>9. Plan' = row \cup r
  BY <1>7, <1>8 DEF Plan
<1> QED BY <1>1, <1>3, <1>7, <1>9 DEF Rejected

LEMMA DrawRowDrawn ==
  TypeOK /\ Drawn /\ DrawRow => pc' = "drawn" /\ (Drawn' \/ (row # {} /\ Lost'))
<1> SUFFICES ASSUME TypeOK, Drawn, DrawRow
             PROVE  pc' = "drawn" /\ (Drawn' \/ (row # {} /\ Lost'))
  OBVIOUS
<1>1. /\ pc = "random" /\ pc' = "drawn" /\ UNCHANGED <<exclusions, rowSeeds, columns, row>>
  BY DEF DrawRow, input
<1>2. PICK r : /\ ~ ViolatesAny(r, exclusions) /\ ParamsOf(r) = Param
               /\ Plan' = row \cup r
               /\ \A t \in r : \E i \in DOMAIN todo' : todo'[i] = t
  BY DrawnPlan
<1>3. CASE row = {}
  <2>1. Plan' = r
    BY <1>2, <1>3
  <2>2. ColumnsValid'
    BY <1>1 DEF Drawn, ColumnsValid, RowAt
  <2> QED BY <1>1, <1>2, <2>1, <2>2 DEF Drawn
<1>4. CASE row # {}
  <2>1. PICK t \in row : t[1] \in BoundParams /\ t[1] \in Param
    BY <1>4, TermShape DEF TypeOK, BoundParams, ParamsOf
  <2>2. PICK u \in r : u[1] = t[1]
    BY <1>2, <2>1 DEF ParamsOf
  <2>3. \E i \in DOMAIN todo' : todo'[i][1] \in BoundParams
    BY <1>2, <2>1, <2>2
  <2> QED BY <1>1, <1>4, <2>3 DEF Lost, BoundParams
<1> QED BY <1>1, <1>3, <1>4

LEMMA DrawnStep ==
  ASSUME Mode = "Approximate"
  PROVE  TypeOK /\ CoverInv /\ Drawn /\ [Next]_vars =>
           Drawn' \/ (DrawRow /\ row # {} /\ Lost')
<1> SUFFICES ASSUME TypeOK, CoverInv, Drawn, [Next]_vars
             PROVE  Drawn' \/ (DrawRow /\ row # {} /\ Lost')
  OBVIOUS
<1>1. CASE FixRowSeeds
  <2>1. pc' \in {"returned", "top"} /\ UNCHANGED <<exclusions, columns>>
    BY <1>1 DEF FixRowSeeds, input, rowState
  <2>2. ColumnsValid'
    BY <2>1 DEF Drawn, ColumnsValid, RowAt
  <2>3. \A n \in DOMAIN rowSeeds' : ~ ViolatesAny(rowSeeds'[n], exclusions)
    BY <1>1, FixedAre
  <2> QED BY <2>1, <2>2, <2>3 DEF Drawn
<1>2. CASE StartRow      BY <1>2, StartRowDrawn
<1>3. CASE BindNext      BY <1>3, BindNextDrawn
<1>4. CASE DrawRow       BY <1>4, DrawRowDrawn
<1>5. CASE EndRow \/ ChooseOpen \/ ChooseCovered \/ NoChoice \/ Pick \/ NoValue
  BY <1>5 DEF EndRow, ChooseOpen, ChooseCovered, NoChoice, Pick, NoValue, Choosing, Picking, Drawn
<1>6. CASE ProcessExclusions \/ EmptyExclusion \/ AssertFails \/ GiveUp \/ Finish \/ Cancel
  <2>1. /\ pc' \in {"seeds", "asserted", "done", "cancelled"}
        /\ UNCHANGED <<exclusions, columns>>
    BY <1>6 DEF ProcessExclusions, EmptyExclusion, AssertFails, GiveUp, Finish, MoveResults,
                Cancel, input, rowState
  <2>2. ColumnsValid'
    BY <2>1 DEF Drawn, ColumnsValid, RowAt
  <2> QED BY <2>1, <2>2 DEF Drawn
<1>7. CASE UNCHANGED vars
  <2>1. Plan' = Plan /\ ColumnsValid'
    BY <1>7 DEF vars, Plan, Drawn, ColumnsValid, RowAt
  <2> QED BY <1>7, <2>1 DEF vars, Drawn
<1> QED BY <1>1, <1>2, <1>3, <1>4, <1>5, <1>6, <1>7 DEF Next, Step

LEMMA InitDrawn == Init => Drawn
<1> SUFFICES ASSUME Init PROVE Drawn
  OBVIOUS
<1>1. ColumnsValid
  <2>1. PICK p \in Param : Len(columns[p]) = 0
    BY ParamAssumption DEF Init
  <2>2. \A i \in Nat \ {0} : ~ (i <= Len(columns[p]))
    BY <2>1
  <2> QED BY <2>1, <2>2 DEF ColumnsValid
<1> QED BY <1>1 DEF Init, Drawn

(***************************************************************************)
(* Without seeds, every row of Approximate mode is valid, for all models   *)
(* and all exclusions, derived or not (model.cpp:185-218).                 *)
(***************************************************************************)
THEOREM DrawnRowsAreValid ==
  ASSUME Mode = "Approximate",
         \A s \in SeedChoices : \A i \in DOMAIN s : s[i] \cap Term = {}
  PROVE  Spec => []NoInvalidRow
<1> DEFINE Seedless ==
      /\ pc \in {"start", "seeds"} => rowSeeds = taskSeeds
      /\ pc \in {"top", "random", "drawn"} => rowSeeds = <<>>
      /\ pc = "random" => row = {} /\ todo = <<>>
<1>1. Init => Seedless
  BY DEF Init
<1>2. TypeOK /\ Drawn /\ Seedless /\ [Next]_vars => Seedless'
  <2> SUFFICES ASSUME TypeOK, Drawn, Seedless, [Next]_vars PROVE Seedless'
    OBVIOUS
  <2>1. CASE FixRowSeeds
    <3>1. rowSeeds = taskSeeds /\ taskSeeds \in SeedChoices /\ pc' \in {"returned", "top"}
      BY <2>1 DEF FixRowSeeds, TypeOK
    <3>2. DOMAIN rowSeeds' = {}
      BY <2>1, <3>1, FixedAre
    <3>3. rowSeeds' \in Seq(SUBSET (Nat \X Nat))
      BY <2>1, FixRowSeedsType DEF TypeOK
    <3>4. rowSeeds' = <<>>
      BY <3>2, <3>3
    <3> QED BY <3>1, <3>4
  <2>2. CASE StartRow
    BY <2>2 DEF StartRow, AtTop, TakeSeed
  <2>3. CASE BindNext
    BY <2>3 DEF BindNext
  <2>4. CASE DrawRow
    BY <2>4 DEF DrawRow
  <2>5. CASE EndRow \/ ChooseOpen \/ ChooseCovered \/ NoChoice \/ Pick \/ NoValue
    BY <2>5 DEF EndRow, ChooseOpen, ChooseCovered, NoChoice, Pick, NoValue, Choosing, Picking,
                Drawn
  <2>6. CASE ProcessExclusions
    BY <2>6 DEF ProcessExclusions, input
  <2>7. CASE EmptyExclusion \/ AssertFails \/ GiveUp \/ Finish \/ Cancel
    <3>1. pc' \in {"asserted", "done", "cancelled", "returned"}
      BY <2>7 DEF EmptyExclusion, AssertFails, GiveUp, Finish, MoveResults, Cancel
    <3> QED BY <3>1
  <2>8. CASE UNCHANGED vars
    BY <2>8 DEF vars
  <2> QED BY <2>1, <2>2, <2>3, <2>4, <2>5, <2>6, <2>7, <2>8 DEF Next, Step
<1>3. TypeOK /\ CoverInv /\ Drawn /\ Seedless /\ [Next]_vars => Drawn'
  BY DrawnStep DEF DrawRow
<1>4. TypeOK /\ CoverInv /\ Drawn => NoInvalidRow
  BY ValidRows DEF Drawn
<1> HIDE DEF Seedless
<1> QED BY <1>1, <1>2, <1>3, <1>4, InitDrawn, TypeCorrect, InitCounts, CountStep,
           InitCover, CoverStep, PTL DEF Spec
=============================================================================
