-------------------------------- MODULE Gcd ---------------------------------
(***************************************************************************)
(* Model::gcd, the covering-array generator, with the parts it drives:     *)
(* Combination (bit vector and counters), Parameter (binding and value     *)
(* choice) and WorkList.  One behaviour is one call of gcd on one model.   *)
(*                                                                         *)
(* The code is sequential; what is nondeterministic is rand(), the abort   *)
(* callback, the address order in which a row seed is iterated, and the    *)
(* model given to the call (exclusions, seeds).  The bulk binds of a seed, *)
(* of a combination and of a random row are loops over Parameter::Bind;    *)
(* "todo" is what such a loop has left, so that every Bind is one step.    *)
(*                                                                         *)
(* The assert()s of the code are modelled, since the Makefile build keeps  *)
(* them: pc "asserted", or "failed" for the two that find the search stuck *)
(* and are followed by a GenerationFailure for builds without assert().    *)
(***************************************************************************)
EXTENDS Exclusions, Sequences

CONSTANTS
  Mode,             \* GenerationMode: "Regular", "Preview", "Approximate"
  BaseCombos,       \* vecCombo as Model::choose leaves it, params as sets
  Position,         \* index of a parameter in m_parameters
  Weight,           \* Parameter::GetWeight
  ExclusionChoices, \* the m_exclusions a call may be given
  SeedChoices,      \* the m_rowSeeds a call may be given
  MayAbort,         \* whether an abort callback is installed
  MaxRows           \* bound on the rows; Approximate mode, which may draw
                    \* covered rows again and again, is the one to need it

ASSUME GcdAssumption ==
  /\ Mode \in {"Regular", "Preview", "Approximate"}
  /\ BaseCombos \in Seq((SUBSET Param) \ {{}})
  /\ \A c, d \in DOMAIN BaseCombos : BaseCombos[c] = BaseCombos[d] => c = d
  /\ Position \in [Param -> Nat]
  /\ Weight \in [Param -> Seq(Nat \ {0})]
  /\ \A p \in Param : Len(Weight[p]) = ValueCount[p]
  /\ \A E \in ExclusionChoices :
       /\ E \subseteq SUBSET Term /\ IsFiniteSet(E)
       \* or processExclusions reads past the end of an empty vector
       /\ \A p \in ParamsOf(UNION E) :
            \E c \in DOMAIN BaseCombos : p \in BaseCombos[c]
  /\ \A s \in SeedChoices : s \in Seq(SUBSET (Nat \X Nat))
  /\ MayAbort \in BOOLEAN
  /\ MaxRows \in Nat

VARIABLES
  pc,           \* where gcd stands
  exclusions,   \* Model::m_exclusions
  taskSeeds,    \* Task::m_rowSeeds, as added to this model
  rowSeeds,     \* Model::m_rowSeeds
  vecCombo,     \* the combinations, as sets of parameters
  opened,       \* the OPEN entries of all bit vectors
  excluded,     \* the EXCLUDED entries of all bit vectors
  openCount,    \* Combination::m_openCount
  boundCount,   \* Combination::m_boundCount
  zeros,        \* Model::GlobalZerosCount
  total,        \* Model::m_totalCombinations
  row,          \* m_currentValue of the parameters with m_bound
  pending,      \* the parameters with m_pending
  worklist,     \* WorkList::m_rep
  unbound,      \* local of gcd
  todo,         \* the Binds a running bulk-bind loop still has to do
  columns,      \* Parameter::m_result
  results       \* Model::m_results

vars == <<pc, exclusions, taskSeeds, rowSeeds, vecCombo, opened, excluded,
          openCount, boundCount, zeros, total, row, pending, worklist,
          unbound, todo, columns, results>>

input    == <<exclusions, taskSeeds>>
counters == <<opened, openCount, boundCount, zeros>>
rowState == <<row, pending, worklist, unbound, todo, columns>>

ComboIds == DOMAIN vecCombo

-----------------------------------------------------------------------------
(* Before the main loop *)

(***************************************************************************)
(* processExclusions: an exclusion no combination can express gets one of  *)
(* its own, filled with COVERED; every entry that contains an exclusion    *)
(* is EXCLUDED.  Smaller exclusions come first (ExclusionSizeLess).        *)
(***************************************************************************)
Uncontainable(E) ==
  { ParamsOf(e) : e \in { x \in E : \A c \in DOMAIN BaseCombos :
                                       ~ (ParamsOf(x) \subseteq BaseCombos[c]) } }

ExclusionCombos(E) ==
  { s \in AnyOrder(Uncontainable(E)) :
      \A i, j \in DOMAIN s :
         i < j => Cardinality(s[i]) <= Cardinality(s[j]) }

AllCells(combos) == UNION { Cells(combos[c]) : c \in DOMAIN combos }

ProcessExclusions ==
  /\ pc = "start"
  /\ {} \notin exclusions
  /\ \E new \in ExclusionCombos(exclusions) : vecCombo' = BaseCombos \o new
  /\ excluded' = { k \in AllCells(vecCombo') : ViolatesAny(k, exclusions) }
  /\ opened' = AllCells(BaseCombos) \ excluded'
  /\ openCount' = [c \in DOMAIN vecCombo' |->
                     Cardinality({ k \in opened' : ParamsOf(k) = vecCombo'[c] })]
  /\ boundCount' = [c \in DOMAIN vecCombo' |-> 0]
  /\ zeros' = Cardinality(opened')
  /\ pc' = "seeds"
  /\ UNCHANGED <<input, rowSeeds, total, rowState, results>>

(* assert( !iexcl->empty() ) *)
EmptyExclusion ==
  /\ pc = "start"
  /\ {} \in exclusions
  /\ pc' = "asserted"
  /\ UNCHANGED <<input, rowSeeds, vecCombo, excluded, counters, total,
                 rowState, results>>

(* The rest of the prologue: no combination at all means an early return,  *)
(* otherwise the open entries are counted and the main loop starts.        *)
FixRowSeeds ==
  /\ pc = "seeds"
  /\ rowSeeds' \in FixedSeeds(rowSeeds, exclusions)
  /\ IF vecCombo = <<>>
       THEN pc' = "returned" /\ UNCHANGED total
       ELSE pc' = "top" /\ total' = zeros
  /\ UNCHANGED <<input, vecCombo, excluded, counters, rowState, results>>

-----------------------------------------------------------------------------
(* Binding *)

BoundParams == ParamsOf(row)

FullyBound(c) == boundCount[c] = Cardinality(vecCombo[c])

(***************************************************************************)
(* Parameter::Bind with Combination::AddBinding and WorkList::AddItem:     *)
(* count the binding in every combination of p, cover the entries it       *)
(* completes, and queue the parameters that are now the last of some       *)
(* combination, in the order of the combinations.                          *)
(***************************************************************************)
Counted(p) ==
  [c \in ComboIds |-> IF p \in vecCombo[c] THEN boundCount[c] + 1
                                            ELSE boundCount[c]]

(* Mutant: a covered entry is counted again.                               *)
HitAgain(p, v) ==
  { c \in ComboIds : p \in vecCombo[c] /\ Counted(p)[c] = Cardinality(vecCombo[c]) }

(* The combinations that are completed by p = v with an open entry.        *)
Hit(p, v) ==
  { c \in ComboIds : /\ p \in vecCombo[c]
                     /\ Counted(p)[c] = Cardinality(vecCombo[c])
                     /\ Project(row \cup {<<p, v>>}, vecCombo[c]) \in opened }

(* Mutant: the index leaves out the parameters bound before.               *)
NewlyCoveredWide(p, v) ==
  { k \in opened : <<p, v>> \in k /\ \E c \in Hit(p, v) : ParamsOf(k) = vecCombo[c] }

NewlyCovered(p, v) ==
  { Project(row \cup {<<p, v>>}, vecCombo[c]) : c \in Hit(p, v) }

(* Mutant: off by one.                                                     *)
LastInLate(p, q) ==
  { c \in ComboIds : /\ {p, q} \subseteq vecCombo[c]
                     /\ q \notin BoundParams \cup {p}
                     /\ Counted(p)[c] = Cardinality(vecCombo[c]) - 2 }

(* Mutant: off by one, the other way.                                      *)
LastInFull(p, q) ==
  { c \in ComboIds : /\ {p, q} \subseteq vecCombo[c]
                     /\ q \notin BoundParams \cup {p}
                     /\ Counted(p)[c] = Cardinality(vecCombo[c]) }

(* The combinations that lack q only, once p is bound.                     *)
LastIn(p, q) ==
  { c \in ComboIds : /\ {p, q} \subseteq vecCombo[c]
                     /\ q \notin BoundParams \cup {p}
                     /\ Counted(p)[c] = Cardinality(vecCombo[c]) - 1 }

(* Mutant: MarkPending is not looked at.                                   *)
FreshOrPending(p) == { q \in Param : LastIn(p, q) # {} }

Fresh(p) == { q \in Param \ pending : LastIn(p, q) # {} }

Bind(p, v, queue) ==
  /\ row' = row \cup {<<p, v>>}
  /\ boundCount' = Counted(p)
  /\ opened' = opened \ NewlyCovered(p, v)
  /\ openCount' = [c \in ComboIds |-> IF c \in Hit(p, v) THEN openCount[c] - 1
                                                         ELSE openCount[c]]
  /\ zeros' = zeros - Cardinality(Hit(p, v))
  /\ columns' = [columns EXCEPT ![p] = Append(@, v)]
  /\ unbound' = unbound - 1
  /\ pending' = pending \cup Fresh(p)
  /\ \E s \in AnyOrder(Fresh(p)) :
       /\ \A i, j \in DOMAIN s : i < j =>
            \E c \in LastIn(p, s[i]) : \A d \in LastIn(p, s[j]) : c < d
       /\ worklist' = queue \o s

(* assert( !m_bound ) and assert( value < m_valueCount ) of Bind *)
Bindable(p, v) == p \notin BoundParams /\ v \in Values(p)

BindNext ==
  /\ todo # <<>>
  /\ pc \in {"row", "random", "drawn"}
  /\ Bindable(Head(todo)[1], Head(todo)[2])
  /\ Bind(Head(todo)[1], Head(todo)[2], worklist)
  /\ todo' = Tail(todo)
  /\ UNCHANGED <<pc, input, rowSeeds, vecCombo, excluded, total, results>>

-----------------------------------------------------------------------------
(* The main loop *)

AtTop == pc \in {"top", "drawn"} /\ todo = <<>>

(* Mutant of TakeSeed: from the wrong end.                                 *)
TakeBackSeed ==
  IF rowSeeds = <<>>
    THEN pending' = {} /\ todo' = <<>> /\ UNCHANGED rowSeeds
    ELSE /\ pending' = ParamsOf(rowSeeds[Len(rowSeeds)])
         /\ todo' \in AnyOrder(rowSeeds[Len(rowSeeds)])
         /\ rowSeeds' = SubSeq(rowSeeds, 1, Len(rowSeeds) - 1)

(* A row starts by binding the front seed, if there is one.                *)
TakeSeed ==
  IF rowSeeds = <<>>
    THEN pending' = {} /\ todo' = <<>> /\ UNCHANGED rowSeeds
    ELSE /\ pending' = ParamsOf(Head(rowSeeds))
         /\ todo' \in AnyOrder(Head(rowSeeds))
         /\ rowSeeds' = Tail(rowSeeds)

(* while( GlobalZerosCount > 0 ), the abort check, and the initialisation  *)
(* of a new row.                                                           *)
StartRow ==
  /\ AtTop
  /\ zeros > 0
  /\ \A p \in Param : Len(columns[p]) < MaxRows
  /\ boundCount' = [c \in ComboIds |-> 0]
  /\ row' = {}
  /\ unbound' = Cardinality(Param)
  /\ worklist' = <<>>
  /\ TakeSeed
  /\ pc' = IF Mode = "Approximate" THEN "random" ELSE "row"
  /\ UNCHANGED <<input, vecCombo, opened, excluded, openCount, zeros, total,
                 columns, results>>

(* AbortGeneration() is asked once per row. *)
Cancel ==
  /\ AtTop
  /\ zeros > 0
  /\ MayAbort
  /\ pc' = "cancelled"
  /\ UNCHANGED <<input, rowSeeds, vecCombo, excluded, counters, total,
                 rowState, results>>

(***************************************************************************)
(* The work list is empty: choose a combination.  rand() breaks ties, so   *)
(* any of the best may be taken; Feasible(vidx) is what keeps only the     *)
(* entries that agree with the values already bound.                       *)
(***************************************************************************)
Choosing == pc = "row" /\ todo = <<>> /\ unbound > 0 /\ worklist = <<>>

Agreeing(c, cells) == { k \in cells : Contained(Project(row, vecCombo[c]), k) }

(* Mutant: what is not COVERED is taken for OPEN.                          *)
OpenCellsToo(c) ==
  Agreeing(c, { k \in opened \cup excluded : ParamsOf(k) = vecCombo[c] })

OpenCells(c) == Agreeing(c, { k \in opened : ParamsOf(k) = vecCombo[c] })

CoveredCellsNever(c) == {}  \* mutant: a covered entry is never taken

CoveredCells(c) == Agreeing(c, Cells(vecCombo[c]) \ (opened \cup excluded))

Selectable == { c \in ComboIds : ~ FullyBound(c) }

MostOf(count) ==
  { c \in Selectable : /\ count[c] > 0
                       /\ \A d \in Selectable : count[d] <= count[c] }

(* Mutant of BindCell: parameters that are pending are not bound.          *)
BindCellPending(c, k) ==
  /\ pending' = pending \cup vecCombo[c]
  /\ todo' = <<>>
  /\ UNCHANGED <<pc, input, rowSeeds, vecCombo, excluded, counters, total,
                 row, worklist, unbound, columns, results>>

(* Combination::Bind: everything pending, then a Bind per unbound          *)
(* parameter.  m_params is walked backwards: choose() pushed the later     *)
(* parameters first, processExclusions the earlier ones.                   *)
BindCell(c, k) ==
  LET free == vecCombo[c] \ BoundParams
      key  == [p \in free |-> IF c \in DOMAIN BaseCombos THEN Position[p] ELSE -p]
  IN  /\ pending' = pending \cup vecCombo[c]
      /\ \E s \in Ordered(free, key) :
           todo' = [i \in DOMAIN s |-> CHOOSE t \in k : t[1] = s[i]]
      /\ UNCHANGED <<pc, input, rowSeeds, vecCombo, excluded, counters, total,
                     row, worklist, unbound, columns, results>>

OpenScore == [c \in ComboIds |-> Cardinality(OpenCells(c))]

CoveredScore == [c \in ComboIds |-> Cardinality(CoveredCells(c))]

ChooseOpen ==
  /\ Choosing
  /\ \E c \in MostOf(OpenScore) : \E k \in OpenCells(c) : BindCell(c, k)

ChooseCovered ==
  /\ Choosing
  /\ MostOf(OpenScore) = {}
  /\ \E c \in MostOf(CoveredScore) : \E k \in CoveredCells(c) : BindCell(c, k)

(* assert( choice != -1 ) and the GenerationFailure after it *)
NoChoice ==
  /\ Choosing
  /\ MostOf(OpenScore) = {} /\ MostOf(CoveredScore) = {}
  /\ pc' = "failed"
  /\ UNCHANGED <<input, rowSeeds, vecCombo, excluded, counters, total,
                 rowState, results>>

(***************************************************************************)
(* The work list is not empty: Parameter::PickValue for its front.  A      *)
(* value is ruled out by an EXCLUDED entry of a combination it completes;  *)
(* the others are compared by the combinations they complete with an open  *)
(* entry, then by the open entries they leave reachable.                   *)
(***************************************************************************)
CombosOf(p) == { c \in ComboIds : p \in vecCombo[c] }

LastOf(p) ==
  { c \in CombosOf(p) : boundCount[c] >= Cardinality(vecCombo[c]) - 1 }

Reaches(c, terms) ==
  { k \in opened : /\ ParamsOf(k) = vecCombo[c]
                   /\ Contained(Project(terms, vecCombo[c]), k) }

(* Mutant: combinations that processExclusions adds are not linked.        *)
RuledOutByBase(p, v) ==
  \E c \in LastOf(p) \cap DOMAIN BaseCombos :
     Project(row \cup {<<p, v>>}, vecCombo[c]) \in excluded

RuledOut(p, v) ==
  \E c \in LastOf(p) : Project(row \cup {<<p, v>>}, vecCombo[c]) \in excluded

Completes(p, v) ==
  Cardinality({ c \in LastOf(p) : Reaches(c, row \cup {<<p, v>>}) # {} })

TotalZeros(p, v) ==
  Cardinality(UNION { Reaches(c, row \cup {<<p, v>>}) : c \in CombosOf(p) })

BestValues(p) ==
  LET ok == { v \in Values(p) : ~ RuledOut(p, v) }
      score == [v \in ok |-> <<Completes(p, v), TotalZeros(p, v)>>]
  IN  { v \in ok : \A w \in ok : \/ score[w][1] < score[v][1]
                                 \/ /\ score[w][1] = score[v][1]
                                    /\ score[w][2] <= score[v][2] }

(* Preview keeps going with value 0 where Regular gives up. *)
Pickable(p) ==
  IF BestValues(p) = {} /\ Mode = "Preview" THEN {0} ELSE BestValues(p)

Picking == pc = "row" /\ todo = <<>> /\ unbound > 0 /\ worklist # <<>>

Pick ==
  /\ Picking
  /\ LET p == Head(worklist)
     IN  \E v \in Pickable(p) :
           /\ Bindable(p, v)
           /\ Bind(p, v, Tail(worklist))
  /\ UNCHANGED <<pc, input, rowSeeds, vecCombo, excluded, total, todo, results>>

(***************************************************************************)
(* The assert()s on the way of the next Bind: the two in Bind itself, and  *)
(* assert( !param->GetBoundCount() ) in GetItem and in gcd.                *)
(***************************************************************************)
Doomed ==
  IF todo # <<>> THEN ~ Bindable(Head(todo)[1], Head(todo)[2])
                 ELSE Picking /\ Head(worklist) \in BoundParams

AssertFails ==
  /\ pc \in {"row", "random", "drawn"}
  /\ Doomed
  /\ pc' = "asserted"
  /\ UNCHANGED <<input, rowSeeds, vecCombo, excluded, counters, total,
                 rowState, results>>

(* assert( bestValueCount > 0 ) and the GenerationFailure after it *)
NoValue ==
  /\ Picking
  /\ Head(worklist) \notin BoundParams
  /\ Pickable(Head(worklist)) = {}
  /\ pc' = "failed"
  /\ UNCHANGED <<input, rowSeeds, vecCombo, excluded, counters, total,
                 rowState, results>>

(* while( unbound > 0 ) ends: the row is complete. *)
EndRow ==
  /\ pc = "row" /\ todo = <<>> /\ unbound <= 0
  /\ pc' = "top"
  /\ UNCHANGED <<input, rowSeeds, vecCombo, excluded, counters, total,
                 rowState, results>>

-----------------------------------------------------------------------------
(* Approximate mode *)

(***************************************************************************)
(* generateRandomRow for one parameter: rand() gives idx below the sum of  *)
(* the weights, and the loop stops at the first n whose predecessors weigh *)
(* idx or more.                                                            *)
(***************************************************************************)
WeightBelow(p) ==
  LET sum[n \in 0 .. ValueCount[p]] ==
        IF n = 0 THEN 0 ELSE sum[n - 1] + Weight[p][n]
  IN  sum

(* Mutant: one value late.                                                 *)
StopsPast(p, idx, n) ==
  /\ n = ValueCount[p] \/ WeightBelow(p)[n] > idx
  /\ \A m \in 0 .. n - 1 : WeightBelow(p)[m] <= idx

StopsAt(p, idx, n) ==
  /\ n = ValueCount[p] \/ WeightBelow(p)[n] >= idx
  /\ \A m \in 0 .. n - 1 : WeightBelow(p)[m] < idx

RandomValues(p) ==
  { n \in 0 .. ValueCount[p] :
      \E idx \in 0 .. WeightBelow(p)[ValueCount[p]] - 1 : StopsAt(p, idx, n) }

RandomRows ==
  LET choices == { f \in [Param -> UNION { RandomValues(p) : p \in Param }] :
                     \A p \in Param : f[p] \in RandomValues(p) }
  IN  { { <<p, f[p]>> : p \in Param } : f \in choices }

RejectedNever(r) == FALSE  \* mutant: exclusions are not looked at

(* rowViolatesExclusion *)
Rejected(r) == ViolatesAny(r, exclusions)

(* The first random row that violates nothing is bound, in sequence order. *)
DrawRow ==
  /\ pc = "random" /\ todo = <<>>
  /\ \E r \in RandomRows :
       /\ ~ Rejected(r)
       /\ todo' \in Ordered(r, [t \in r |-> t[1]])
  /\ pending' = Param
  /\ pc' = "drawn"
  /\ UNCHANGED <<input, rowSeeds, vecCombo, excluded, counters, total,
                 row, worklist, unbound, columns, results>>

-----------------------------------------------------------------------------
(* After the main loop *)

(* The results as rows; the code asserts that all columns are as long.     *)
ColumnsAligned == \A p, q \in Param : Len(columns[p]) = Len(columns[q])

SuiteRows ==
  [n \in 1 .. Len(columns[CHOOSE p \in Param : TRUE]) |->
     { <<p, columns[p][n]>> : p \in Param }]

KeepRow(r) == Mode # "Preview" \/ ~ Rejected(r)

(* Move the columns into m_results, without the invalid rows of Preview;   *)
(* the rows that stay keep their number here.                              *)
MoveResults ==
  /\ IF ColumnsAligned
       THEN /\ pc' = "done"
            /\ results' = [n \in { m \in DOMAIN SuiteRows : KeepRow(SuiteRows[m]) }
                              |-> SuiteRows[n]]
       ELSE pc' = "asserted" /\ UNCHANGED results
  /\ UNCHANGED <<input, rowSeeds, vecCombo, excluded, counters, total, rowState>>

FinishEarly == AtTop /\ zeros <= 1 /\ MoveResults  \* mutant: off by one

Finish == AtTop /\ zeros <= 0 /\ MoveResults

(* GetMaxRandomTries random rows in a row were all invalid. *)
GiveUp ==
  /\ pc = "random" /\ todo = <<>>
  /\ \E r \in RandomRows : Rejected(r)
  /\ MoveResults

-----------------------------------------------------------------------------
Init ==
  /\ pc = "start"
  /\ exclusions \in ExclusionChoices
  /\ taskSeeds \in SeedChoices
  /\ rowSeeds = taskSeeds
  /\ vecCombo = BaseCombos
  /\ opened = {} /\ excluded = {}
  /\ openCount = [c \in DOMAIN BaseCombos |-> 0]
  /\ boundCount = [c \in DOMAIN BaseCombos |-> 0]
  /\ zeros = 0 /\ total = 0
  /\ row = {} /\ pending = {} /\ worklist = <<>> /\ unbound = 0 /\ todo = <<>>
  /\ columns = [p \in Param |-> <<>>]
  /\ results = <<>>

Step ==
  \/ ProcessExclusions \/ EmptyExclusion \/ FixRowSeeds
  \/ StartRow \/ EndRow
  \/ BindNext \/ AssertFails
  \/ ChooseOpen \/ ChooseCovered \/ NoChoice
  \/ Pick \/ NoValue
  \/ DrawRow \/ GiveUp \/ Finish

Next == Step \/ Cancel

Spec == Init /\ [][Next]_vars

(* The thread that called gcd keeps running; nobody has to abort it. *)
FairSpec == Spec /\ WF_vars(Step)

-----------------------------------------------------------------------------
(* Properties *)

Terminal == {"returned", "done", "failed", "cancelled", "asserted"}

(* The state is of the shapes the C++ declarations give it. *)
TypeOK ==
  /\ pc \in {"start", "seeds", "top", "row", "random", "drawn"} \cup Terminal
  /\ exclusions \in ExclusionChoices
  /\ taskSeeds \in SeedChoices
  /\ rowSeeds \in Seq(SUBSET (Nat \X Nat))
  /\ pc \in {"top", "row", "random", "drawn"} => rowSeeds \in Seq(SUBSET Term)
  /\ vecCombo \in Seq(SUBSET Param)
  /\ opened \subseteq AllCells(vecCombo)
  /\ excluded \subseteq AllCells(vecCombo)
  /\ openCount \in [ComboIds -> Int]
  /\ boundCount \in [ComboIds -> Nat]
  /\ zeros \in Int /\ total \in Int
  /\ row \subseteq Term
  /\ pending \subseteq Param
  /\ worklist \in Seq(Param)
  /\ unbound \in Int
  /\ todo \in Seq(Param \X Nat)
  /\ DOMAIN columns = Param
  /\ \A p \in Param : columns[p] \in Seq(Values(p))
  /\ DOMAIN results \subseteq Nat
  /\ \A n \in DOMAIN results : results[n] \subseteq Term

(***************************************************************************)
(* The counters the generator decides by are the truth: GlobalZerosCount   *)
(* ends the main loop, m_openCount and m_boundCount select combinations    *)
(* and detect completed ones, unbound ends a row.  Each is maintained      *)
(* incrementally, in another class than the one that reads it.             *)
(***************************************************************************)
CountersAgree ==
  pc \in {"top", "row", "random", "drawn"} =>
    /\ zeros = Cardinality(opened)
    /\ \A c \in ComboIds :
         /\ openCount[c] = Cardinality({ k \in opened : ParamsOf(k) = vecCombo[c] })
         /\ boundCount[c] = Cardinality(vecCombo[c] \cap BoundParams)
    /\ pc = "row" => unbound = Cardinality(Param \ BoundParams)

(***************************************************************************)
(* The data structures are never misused: no parameter is bound twice in a *)
(* row, no bound parameter is queued, no value is out of range, and all    *)
(* result columns end up equally long (parameter.cpp:29-30,                *)
(* worklist.cpp:14 and :26, model.cpp:346 and :375).                       *)
(***************************************************************************)
AssertionsHold == pc # "asserted"

(***************************************************************************)
(* In the row under construction a parameter is in one place only: bound,  *)
(* about to be bound by a running loop, or waiting in the work list, each  *)
(* place without duplicates; and MarkPending, by which AddBinding decides  *)
(* what to queue, is set for all of them (combination.cpp:145-169,         *)
(* worklist.cpp:10-29).  AssertionsHold rests on this.                     *)
(***************************************************************************)
BindingDiscipline ==
  pc = "row" =>
    /\ BoundParams \subseteq pending
    /\ \A i \in DOMAIN todo :
         todo[i] \in Term /\ todo[i][1] \in pending \ BoundParams
    /\ \A i, j \in DOMAIN todo : todo[i][1] = todo[j][1] => i = j
    /\ \A i \in DOMAIN worklist : worklist[i] \in pending \ BoundParams
    /\ \A i, j \in DOMAIN worklist : worklist[i] = worklist[j] => i = j
    /\ \A i \in DOMAIN worklist, j \in DOMAIN todo : worklist[i] # todo[j][1]

(***************************************************************************)
(* While combinations are chosen freely, every parameter that alone can    *)
(* complete a combination is waiting in the work list or about to be       *)
(* bound: only so does PickValue get to check the exclusions of that       *)
(* combination (parameter.cpp:38-47).                                      *)
(***************************************************************************)
LastParamsQueued ==
  pc = "row" =>
    \A c \in ComboIds :
      (Cardinality(vecCombo[c]) > 1 /\ boundCount[c] = Cardinality(vecCombo[c]) - 1) =>
        \A p \in vecCombo[c] \ BoundParams :
          \/ \E i \in DOMAIN worklist : worklist[i] = p
          \/ \E i \in DOMAIN todo : todo[i][1] = p

(* The rows finished so far: those every column has. *)
DoneRows ==
  LET n == CHOOSE m \in { Len(columns[p]) : p \in Param } :
             \A p \in Param : m <= Len(columns[p])
  IN  [i \in 1 .. n |-> { <<p, columns[p][i]>> : p \in Param }]

(***************************************************************************)
(* No row the engine builds contains an exclusion: "Exclusions define      *)
(* combinations which should not appear in the output" (pictapi.h:107).    *)
(***************************************************************************)
NoInvalidRow ==
  \A n \in DOMAIN DoneRows : ~ ViolatesAny(DoneRows[n], exclusions)

(* The search never paints itself into a corner: there is always a         *)
(* combination to choose and a value to pick (model.cpp:283,               *)
(* parameter.cpp:129-130).                                                 *)
NeverFails == pc # "failed"

(***************************************************************************)
(* The search gives up for a reason only: a parameter in no combination is *)
(* left (one of order two alone among others of order one, which no front  *)
(* end refuses, gcdmodel.cpp:115, and no seed has bound), or no valid row  *)
(* extends the one under construction (model.cpp:283, parameter.cpp:125).  *)
(***************************************************************************)
StuckForCause ==
  pc = "failed" =>
    \/ \E p \in Param \ BoundParams : CombosOf(p) = {}
    \/ \A r \in Rows : Contained(row, r) => ViolatesAny(r, exclusions)

(***************************************************************************)
(* At one order of two or more, a seed of order - 1 terms or more leaves   *)
(* each other parameter as the last one of some combination, hence in the  *)
(* work list, where exclusions are looked at.  From such seeds the search  *)
(* is as safe as from none; after a shorter one, or once parameters of     *)
(* order one are bound, a combination is chosen without a look at the      *)
(* exclusions that connect it with the row (model.cpp:149-168, 220-340).   *)
(* Seeds without known terms are dropped.                                  *)
(***************************************************************************)
AmpleSeeds ==
  \A i \in DOMAIN taskSeeds, c \in DOMAIN BaseCombos :
    \/ taskSeeds[i] \cap Term = {}
    \/ Cardinality(taskSeeds[i] \cap Term) >= Cardinality(BaseCombos[c]) - 1

SafeFromAmpleSeeds == AmpleSeeds => NoInvalidRow /\ NeverFails

(* Seeds are used in order, one per row, and a row that starts from a seed *)
(* keeps it (model.cpp:149-168).                                           *)
SeedRowsKeepSeeds ==
  pc = "top" /\ todo = <<>> =>
    \A fixed \in FixedSeeds(taskSeeds, exclusions) :
      \A n \in DOMAIN DoneRows :
        n \in DOMAIN fixed => Contained(fixed[n], DoneRows[n])

(***************************************************************************)
(* What the bit vectors hold open is what is missing: the valid entries    *)
(* that no row contains, finished or under construction.  None is marked   *)
(* covered too early, none too late (combination.cpp:145-169).             *)
(***************************************************************************)
CoverageIsExact ==
  pc \notin {"start", "seeds", "asserted"} =>
    \A k \in AllCells(BaseCombos) :
      k \in opened <=> /\ ~ ViolatesAny(k, exclusions)
                      /\ ~ Contained(k, row)
                      /\ \A n \in DOMAIN DoneRows : ~ Contained(k, DoneRows[n])

(* The generator implements the abstract promise. *)
Status ==
  CASE pc \in {"done", "returned"} -> "done"
    [] pc = "cancelled"            -> "cancelled"
    [] pc \in {"failed", "asserted"} -> "broken"
    [] OTHER                       -> "running"

Promise == INSTANCE CoveringSuite WITH
             Combos <- BaseCombos, seeds <- taskSeeds,
             suite <- DoneRows, status <- Status

PromiseKept == Promise!Spec

(* A call ends: every row uses up a seed or an open entry. *)
Terminates == <>(pc \in Terminal)
=============================================================================
