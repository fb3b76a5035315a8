-------------------------- MODULE GcdRunnerProofs ---------------------------
(***************************************************************************)
(* What GcdRunner promises of its tests where orders and seeds are such    *)
(* that rows obey the exclusions: one negative value per test of the       *)
(* negative run and none in the positive one, no combination the           *)
(* constraints forbid, and rows of the root that are rows of every         *)
(* submodel.  The invariant is that each row a model may still produce     *)
(* stands for a row of all the parameters of the file, in which nothing    *)
(* that is obeyed is forbidden and the rows of all submodels are contained.*)
(***************************************************************************)
EXTENDS GcdRunner, ModelTreeProofs

-----------------------------------------------------------------------------
(* The data *)

ValueData == [name : STRING, positive : BOOLEAN]
ParameterData ==
  [name : STRING, isResult : BOOLEAN, order : Int, values : Seq(ValueData)]
SubmodelData == [parameters : Seq(Int), order : Int]

SeedRows == Seq(SUBSET Cell)

(* What readLine makes of a file.                                          *)
IsData(d) ==
  d = [section |-> d.section, parameters |-> d.parameters, submodels |-> d.submodels,
       constraints |-> d.constraints, parsable |-> d.parsable,
       wellFormed |-> d.wellFormed, rowSeeds |-> d.rowSeeds]

(* Submodels of some of the first n parameters, each once.                 *)
SubmodelsOk(submodels, n) ==
  /\ submodels \in Seq(SubmodelData)
  /\ \A i \in DOMAIN submodels : /\ ToSet(submodels[i].parameters) \subseteq 0 .. n - 1
                                 /\ IsInjective(submodels[i].parameters)

DataOk(d) ==
  /\ IsData(d)
  /\ d.section \in {"parameters", "submodels", "constraints"}
  /\ d.parameters \in Seq(ParameterData)
  /\ SubmodelsOk(d.submodels, Len(d.parameters))
  /\ d.rowSeeds \in SeedRows

(* There are numbers for all of its parameters.                            *)
Sized == DataOk(data) /\ Len(data.parameters) <= PseudoBase

Given == NegativePairs(data) \cup ConstraintExclusions(data)

-----------------------------------------------------------------------------
(* The tree of two levels *)

Leaves == DOMAIN models[Root].submodels

Columns(m) == ToSet(models[m].parameters)

(* What rows of the model obey. *)
Valid(m, r) == \A e \in models[m].exclusions : RespectedIn(e, m, data) => ~ (e \subseteq r)

(* One of the file's parameters, whatever its order is just now.           *)
Indexed(p) ==
  /\ p \in DOMAIN parameters
  /\ parameters[p] = [sequence |-> p, order |-> parameters[p].order,
                      isResult |-> data.parameters[p + 1].isResult,
                      valueCount |-> Len(data.parameters[p + 1].values)]
  /\ parameters[p].order \in Int

Wired ==
  /\ models[Root].submodels = [n \in 1 .. Len(models[Root].submodels) |-> n]
  /\ Len(models[Root].submodels) \in Nat
  /\ DOMAIN models = {Root} \cup Leaves
  /\ \A m \in DOMAIN models : IsModel(models[m]) /\ models[m].order \in Int
  /\ \A m \in Leaves : /\ models[m].submodels = <<>>
                       /\ models[m].parameters \in Seq(Int) /\ IsInjective(models[m].parameters)
                       /\ Columns(m) \subseteq Indices(data)
  /\ Leaves # {} => Indices(data) \subseteq UNION { Columns(m) : m \in Leaves }
  /\ \A p \in Indices(data) : Indexed(p)
  /\ IsTask(task) /\ task.root = Root

(* The models are those that were translated, as far as orders go.         *)
Shaped ==
  /\ DOMAIN TranslatedModels(data) = DOMAIN models
  /\ \A m \in DOMAIN models : /\ TranslatedModels(data)[m].order = models[m].order
                              /\ TranslatedModels(data)[m].submodels = models[m].submodels
  /\ \A m \in Leaves : ToSet(TranslatedModels(data)[m].parameters) = Columns(m)
  /\ ToSet(TranslatedModels(data)[Root].parameters) = IF Leaves = {} THEN Indices(data) ELSE {}
  /\ task.rowSeeds = <<>> <=> data.rowSeeds = <<>>

(* The rows of all the parameters of the file, ...                         *)
WholeRows == RowsOf(Indices(data), parameters)

(* ... of which the exclusions of the task rule out those with a given     *)
(* exclusion.                                                              *)
Free(whole) == \A e \in task.exclusions : RespectedEverywhere(e, data) => ~ (e \subseteq whole)

Clear(whole) == \A e \in Given : RespectedEverywhere(e, data) => ~ (e \subseteq whole)

(* What derivation put in the place of what is given forbids as much.      *)
GivenCovered ==
  \A whole \in WholeRows : Free(whole) => Clear(whole)

(* Every exclusion went to a leaf with all its parameters or to the root.  *)
Housed ==
  \A e \in task.exclusions :
    \/ e \in models[Root].exclusions /\ ParamsOf(e) \subseteq Indices(data)
    \/ \E m \in Leaves : e \in models[m].exclusions /\ ParamsOf(e) \subseteq Columns(m)

(* Whether or not it has been generated, a leaf has only valid rows.       *)
LeafRight(m) ==
  /\ models[m].results \in Seq(ToSet(models[m].results))
  /\ \A v \in PseudoValues(m) :
       RowTerms(m, v) \in RowsOf(Columns(m), parameters) /\ Valid(m, RowTerms(m, v))

(* The root before its own gcd: its parameters are set, its rows are not. *)
RootFresh ==
  /\ models[Root].results = <<>>
  /\ models[Root].parameters =
       IF Leaves = {} THEN [n \in DOMAIN data.parameters |-> n - 1] ELSE <<>>
  /\ Housed

(* A row of all the parameters is made of rows of the submodels; one of    *)
(* pseudo-parameters stands for those that its values are rows of.         *)
LeavesIn(whole) == \A m \in Leaves : \E v \in PseudoValues(m) : RowTerms(m, v) \subseteq whole

StandsFor(r, whole) ==
  IF Leaves = {} THEN whole = r
  ELSE \A m \in Leaves :
         \E v \in PseudoValues(m) : <<PseudoOf(m), v>> \in r /\ RowTerms(m, v) \subseteq whole

RootParams == IF Leaves = {} THEN Indices(data) ELSE { PseudoOf(m) : m \in Leaves }

(* The root in its own gcd: each row it may still make stands for a row    *)
(* of all the parameters that no exclusion of the task rules out, if rows  *)
(* of submodels that contradict each other do not go together.             *)
RootInWork ==
  /\ models[Root].results = <<>>
  /\ models[Root].parameters \in Seq(Int) /\ IsInjective(models[Root].parameters)
  /\ Columns(Root) = RootParams
  /\ PairsRespected(Root, data) => \A r \in RowsOf(RootParams, parameters) :
       Valid(Root, r) => \E whole \in WholeRows : StandsFor(r, whole) /\ Free(whole)

(* In work are the root or, above it, one of the leaves.                   *)
CallsRight ==
  /\ calls \in Seq([model : {Root} \cup Leaves, left : Seq(Leaves)])
  /\ Len(calls) \in {1, 2} /\ calls[1].model = Root
  /\ Len(calls) = 2 => Top.model \in Leaves /\ Top.left = <<>>

(* A model has seeds only if there were some.                              *)
SeedsKnown(m) == \E A : models[m].rowSeeds \in Seq(A) /\ (task.rowSeeds = <<>> => models[m].rowSeeds = <<>>)

(* The model in gcd has its orders from FixParamOrder.                     *)
InOrders == \A p \in MyParams : parameters[p].order = OrderIn(p, Top.model, data)

(* Generation, from the first descent to the last row of the root.         *)
Walking ==
  /\ Wired /\ Shaped /\ GivenCovered /\ CallsRight
  /\ \A m \in DOMAIN models : SeedsKnown(m)
  /\ pc # "walk" => InOrders
  /\ \A m \in Leaves : LeafRight(m)
  /\ pc = "walk" \/ Len(calls) = 2 => RootFresh
  /\ pc # "walk" /\ Len(calls) = 1 => RootInWork
  /\ IF pc = "rows" THEN RowInWork ELSE bound = {}
  /\ pc = "rows" =>
       /\ IsFiniteSet(run.rows)
       /\ \A r \in run.rows : r \in RowsOf(MyParams, parameters) /\ Valid(Top.model, r)

(* A row of the results, where a result may be undefined.                  *)
RowIs(row, whole) ==
  /\ DOMAIN row = DOMAIN data.parameters
  /\ \A i \in DOMAIN row :
       \/ <<i - 1, row[i]>> \in whole
       \/ parameters[i - 1].isResult /\ row[i] = UndefinedValue

(* When it is over, rows of the root are such rows.                        *)
RootDone ==
  /\ Wired /\ Shaped
  /\ models[Root].results \in Seq(ToSet(models[Root].results))
  /\ models[Root].results # <<>> =>
       models[Root].parameters = [n \in DOMAIN data.parameters |-> n - 1]
  /\ PairsRespected(Root, data) => \A row \in ToSet(models[Root].results) :
       \E whole \in WholeRows : RowIs(row, whole) /\ LeavesIn(whole) /\ Clear(whole)

-----------------------------------------------------------------------------
(* The invariant *)

(* What TranslateToGCD leaves: the tree, and the task with what is given.  *)
FreshTree ==
  /\ Wired /\ Shaped /\ task.exclusions = Given
  /\ \E A : task.rowSeeds \in Seq(A)
  /\ \A m \in DOMAIN models : /\ models[m].exclusions = {} /\ models[m].results = <<>>
                              /\ models[m].rowSeeds = <<>>
  /\ models[Root].parameters =
       IF Leaves = {} THEN [n \in DOMAIN data.parameters |-> n - 1] ELSE <<>>

OfCopy ==
  /\ DataOk(copy) /\ Len(copy.parameters) <= PseudoBase
  /\ stage = "positive" => data = RemoveNegativeValues(copy)
  /\ stage = "negative" => data = copy

(* Until a run starts; a line adds one parameter at most.                  *)
Reading ==
  /\ pc = "client" /\ bound = {} /\ tests = {} /\ DataOk(data)
  /\ command \in [args : Seq([switch : STRING, value : Int]), lines : Seq(Line),
                  seedRows : Seq(SUBSET Cell)]
  /\ Len(data.parameters) + Len(command.lines) <= PseudoBase

(* Of the tree at each point of a run.                                     *)
TreeRight ==
  /\ pc = "translated" => FreshTree
  /\ pc \in {"walk", "gcd", "rows"} => Walking
  /\ pc = "generated" => RootDone
  /\ pc \in {"client", "translated", "generated"} => bound = {}

RunnerInv ==
  /\ stage \in {"start", "reading", "positive", "negative", "exited"}
  /\ options.order \in Int
  /\ stage \in {"start", "reading"} => Reading
  /\ stage \in {"positive", "negative"} => OfCopy /\ TreeRight
  /\ stage = "exited" => pc # "generated"
  /\ OneNegativePerTest /\ ConstraintsHold

-----------------------------------------------------------------------------
(* Folds over what was read *)

(* What FoldLeft iterates over a list of n, of which h[<<k, x>>] is step k. *)
FoldsLeft(iter, n, base, h) ==
  \A s \in SUBSET (1 .. n) :
    iter[s] = IF s = {} THEN base ELSE h[<<Max(s), iter[s \ {Max(s)}]>>]

LEMMA StepsExist ==
  ASSUME NEW n \in Nat, NEW X, NEW base \in X, NEW h, StaysIn(X, 1 .. n, h)
  PROVE  \E iter \in [SUBSET (1 .. n) -> X] : FoldsLeft(iter, n, base, h)
<1> DEFINE D == 1 .. n
           pick == [s \in SUBSET D |-> Max(s)]
<1>1. IsFiniteSet(D)
  BY FS_Interval
<1>7. \A s \in SUBSET D : s # {} => Max(s) \in s
  BY PicksOfIntervals
<1>2. \A s \in SUBSET D : pick[s] = Max(s)
  OBVIOUS
<1> HIDE DEF D, pick
<1>3. PicksFrom(D, pick)
  BY <1>2, <1>7 DEF PicksFrom
<1>4. StaysIn(X, D, h)
  BY DEF D
<1>5. PICK iter \in [SUBSET D -> X] : Folds(iter, D, base, h, pick)
  BY <1>1, <1>3, <1>4, FoldExists
<1>6. \A s \in SUBSET D :
        iter[s] = IF s = {} THEN base ELSE h[<<Max(s), iter[s \ {Max(s)}]>>]
  BY <1>2, <1>5 DEF Folds
<1> QED BY <1>5, <1>6 DEF D, FoldsLeft

LEMMA ParseArgsTyped ==
  ASSUME NEW args \in Seq([switch : STRING, value : Int])
  PROVE  ParseArgs(args).order \in Int
<1> DEFINE n == Len(args)
           D == 1 .. n
           X == [order : Int, provided : SUBSET STRING, valid : BOOLEAN]
           step(k, x) == parseArg(x, args[k])
           h == [dx \in D \X X |-> step(dx[1], dx[2])]
           Body(f, s) == IF s = {} THEN DefaultOptions ELSE step(Max(s), f[s \ {Max(s)}])
<1>1. n \in Nat /\ DOMAIN args = D /\ \A k \in D : args[k].switch \in STRING /\ args[k].value \in Int
  <2> DEFINE R == [switch : STRING, value : Int]
  <2>1. \A a \in R : a.switch \in STRING /\ a.value \in Int
    OBVIOUS
  <2>2. args \in Seq(R)
    OBVIOUS
  <2> HIDE DEF R
  <2> QED BY <2>1, <2>2
<1>2. \A k \in D : \A x \in X : step(k, x) \in X
  <2> SUFFICES ASSUME NEW k \in D, NEW x \in X PROVE parseArg(x, args[k]) \in X
    OBVIOUS
  <2>1. args[k].switch \in STRING /\ args[k].value \in Int
    BY <1>1
  <2>2. x = [order |-> x.order, provided |-> x.provided, valid |-> x.valid]
        /\ x.order \in Int /\ x.provided \subseteq STRING
    OBVIOUS
  <2>3. [x EXCEPT !.valid = FALSE] = [order |-> x.order, provided |-> x.provided, valid |-> FALSE]
    <3>1. \A a, b, c, d : [[order |-> a, provided |-> b, valid |-> c] EXCEPT !.valid = d]
                           = [order |-> a, provided |-> b, valid |-> d]
      OBVIOUS
    <3>2. PICK a, b, c : x = [order |-> a, provided |-> b, valid |-> c]
      BY <2>2
    <3>3. x.order = a /\ x.provided = b
      BY <3>2
    <3>4. PICK no : no = FALSE
      OBVIOUS
    <3>5. [[order |-> a, provided |-> b, valid |-> c] EXCEPT !.valid = no]
             = [order |-> a, provided |-> b, valid |-> no]
      BY <3>1
    <3> QED BY <3>2, <3>3, <3>4, <3>5, Zenon
  <2>4. [order |-> x.order, provided |-> x.provided, valid |-> FALSE] \in X
    BY <2>2
  <2>5. [order |-> IF args[k].switch = "o" THEN args[k].value ELSE x.order,
         provided |-> x.provided \cup {args[k].switch}, valid |-> TRUE] \in X
    BY <2>1, <2>2
  <2> HIDE DEF X
  <2> QED BY <2>3, <2>4, <2>5 DEF parseArg
<1>3. DefaultOptions \in X
  BY DEF DefaultOptions
<1>4. \E iter : iter = [s \in SUBSET D |-> Body(iter, s)]
  <2> HIDE DEF X, step, n
  <2>1. \A d \in D : \A x \in X : h[<<d, x>>] = step(d, x) /\ h[<<d, x>>] \in X
    BY <1>2
  <2> HIDE DEF h
  <2>5. n \in Nat /\ DefaultOptions \in X /\ StaysIn(X, 1 .. n, h)
    BY <1>1, <1>3, <2>1 DEF StaysIn
  <2>2. PICK iter \in [SUBSET D -> X] : FoldsLeft(iter, n, DefaultOptions, h)
    BY <2>5, StepsExist
  <2>3. \A s \in SUBSET D : iter[s] = Body(iter, s)
    <3> SUFFICES ASSUME NEW s \in SUBSET D, s # {} PROVE iter[s] = step(Max(s), iter[s \ {Max(s)}])
      BY <2>2 DEF FoldsLeft
    <3>1. Max(s) \in D /\ s \ {Max(s)} \in SUBSET D
      BY <1>1, PicksOfIntervals
    <3>2. iter[s \ {Max(s)}] \in X
      BY <2>2, <3>1
    <3> QED BY <2>1, <2>2, <3>1, <3>2 DEF FoldsLeft
  <2> HIDE DEF D, Body
  <2>4. iter = [s \in SUBSET D |-> Body(iter, s)]
    BY <2>2, <2>3
  <2> QED BY <2>4
<1> DEFINE it == CHOOSE iter : iter = [s \in SUBSET D |-> Body(iter, s)]
<1>5. it = [s \in SUBSET D |-> Body(it, s)]
  <2> HIDE DEF D, Body
  <2> QED BY <1>4
<1>6. ParseArgs(args) = it[D]
  BY <1>1 DEF ParseArgs, FoldLeft, MapThenFoldSet
<1> HIDE DEF it
<1> DEFINE G == { k \in 0 .. n : it[1 .. k] \in X }
<1>7. 0 \in G
  <2>1. 1 .. 0 = {} /\ {} \in SUBSET D /\ 0 \in 0 .. n
    BY <1>1
  <2> HIDE DEF X, step
  <2> QED BY <1>3, <1>5, <2>1
<1>8. ASSUME NEW k \in 1 .. n, k - 1 \in G
      PROVE  k \in G
  <2>1. /\ 1 .. k \in SUBSET D /\ 1 .. k # {}
        /\ Max(1 .. k) = k /\ (1 .. k) \ {k} = 1 .. (k - 1)
    BY <1>1, PrefixRest
  <2>4. k \in 0 .. n
    BY <1>1
  <2> HIDE DEF step, X
  <2>2. it[1 .. k] = Body(it, 1 .. k)
    <3> HIDE DEF Body, D
    <3> QED BY <1>5, <2>1
  <2>3. it[1 .. k] = step(k, it[1 .. (k - 1)])
    BY <2>1, <2>2
  <2> QED BY <1>2, <1>8, <2>3, <2>4
<1>9. n \in G
  <2>1. n \in Nat /\ n \in 0 .. n
    BY <1>1
  <2> HIDE DEF G, n
  <2>2. \A k \in 0 .. n : k \in G
    BY <1>7, <1>8, <2>1, UpTo
  <2> QED BY <2>1, <2>2
<1>10. ParseArgs(args) \in X
  BY <1>6, <1>9
<1> QED BY <1>10

(* FindParameterByName and GetValueOrdinal find the first one.             *)
LEMMA IndexOfFirst ==
  ASSUME NEW d, d.parameters \in Seq(ParameterData), NEW name \in Names(d)
  PROVE  /\ IndexOf(d, name) \in DOMAIN d.parameters
         /\ d.parameters[IndexOf(d, name)].name = name
<1> DEFINE n == Len(d.parameters)
           S == { i \in 1 .. n : d.parameters[i].name = name }
<1>1. n \in Nat /\ DOMAIN d.parameters = 1 .. n
  OBVIOUS
<1>2. S # {} /\ S \in SUBSET Int
  BY <1>1 DEF Names
<1>3. IsFiniteSet(S)
  <2>1. IsFiniteSet(1 .. n)
    BY <1>1, FS_Interval
  <2>2. S \subseteq 1 .. n
    OBVIOUS
  <2> HIDE DEF S, n
  <2> QED BY <2>1, <2>2, FS_Subset
<1>4. PICK i \in S : \A j \in S : i <= j
  <2> HIDE DEF S
  <2> QED BY <1>2, <1>3, LastOf
<1>5. \E k \in DOMAIN d.parameters :
        /\ d.parameters[k].name = name
        /\ \A j \in DOMAIN d.parameters : d.parameters[j].name = name => k <= j
  BY <1>1, <1>4
<1> QED BY <1>5 DEF IndexOf

LEMMA ValuesTyped ==
  ASSUME NEW d, d.parameters \in Seq(ParameterData), NEW line, line.values \in Seq(Item)
  PROVE  ValuesOf(line, d) \in Seq(ValueData)
<1> DEFINE items == line.values
           n == Len(items)
           D == 1 .. n
           X == Seq(ValueData)
           step(k, x) ==
             IF items[k].isReference /\ items[k].name \in Names(d)
               THEN x \o d.parameters[IndexOf(d, items[k].name)].values
               ELSE Append(x, [name |-> items[k].name, positive |-> items[k].positive])
           h == [dx \in D \X X |-> step(dx[1], dx[2])]
           Body(f, s) == IF s = {} THEN <<>> ELSE step(Max(s), f[s \ {Max(s)}])
<1>1. n \in Nat /\ DOMAIN items = D /\ \A k \in D : items[k] \in Item
  OBVIOUS
<1>2. ASSUME NEW k \in D, NEW x \in X
      PROVE  step(k, x) \in X
  <2>1. [name |-> items[k].name, positive |-> items[k].positive] \in ValueData
    <3>1. \A a \in Item : a.name \in STRING /\ a.positive \in BOOLEAN
      BY DEF Item
    <3> QED BY <1>1, <3>1 DEF ValueData
  <2>2. items[k].name \in Names(d) => d.parameters[IndexOf(d, items[k].name)].values \in X
    <3>1. \A a \in ParameterData : a.values \in X
      BY DEF ParameterData
    <3>2. \A name \in Names(d) : d.parameters[IndexOf(d, name)] \in ParameterData
      BY IndexOfFirst
    <3> HIDE DEF X, items
    <3> QED BY <3>1, <3>2
  <2>3. \A y, z \in X : y \o z \in X
    OBVIOUS
  <2>4. \A v \in ValueData : Append(x, v) \in X
    OBVIOUS
  <2> HIDE DEF X, items
  <2> QED BY <2>1, <2>2, <2>3, <2>4
<1>3. <<>> \in X
  OBVIOUS
<1>4. \E iter : iter = [s \in SUBSET D |-> Body(iter, s)]
  <2> HIDE DEF X, step, n
  <2>1. \A e \in D : \A x \in X : h[<<e, x>>] = step(e, x) /\ h[<<e, x>>] \in X
    BY <1>2
  <2> HIDE DEF h
  <2>5. n \in Nat /\ <<>> \in X /\ StaysIn(X, 1 .. n, h)
    BY <1>1, <1>3, <2>1 DEF StaysIn
  <2>2. PICK iter \in [SUBSET D -> X] : FoldsLeft(iter, n, <<>>, h)
    BY <2>5, StepsExist
  <2>3. \A s \in SUBSET D : iter[s] = Body(iter, s)
    <3> SUFFICES ASSUME NEW s \in SUBSET D, s # {} PROVE iter[s] = step(Max(s), iter[s \ {Max(s)}])
      BY <2>2 DEF FoldsLeft
    <3>1. Max(s) \in D /\ s \ {Max(s)} \in SUBSET D
      BY <1>1, PicksOfIntervals
    <3>2. iter[s \ {Max(s)}] \in X
      BY <2>2, <3>1
    <3> QED BY <2>1, <2>2, <3>1, <3>2 DEF FoldsLeft
  <2> HIDE DEF D, Body
  <2>4. iter = [s \in SUBSET D |-> Body(iter, s)]
    BY <2>2, <2>3
  <2> QED BY <2>4
<1> DEFINE it == CHOOSE iter : iter = [s \in SUBSET D |-> Body(iter, s)]
<1>5. it = [s \in SUBSET D |-> Body(it, s)]
  <2> HIDE DEF D, Body
  <2> QED BY <1>4
<1>6. ValuesOf(line, d) = it[D]
  BY <1>1 DEF ValuesOf, FoldLeft, MapThenFoldSet
<1> HIDE DEF it
<1> DEFINE G == { k \in 0 .. n : it[1 .. k] \in X }
<1>7. 0 \in G
  <2>1. 1 .. 0 = {} /\ {} \in SUBSET D /\ 0 \in 0 .. n
    BY <1>1
  <2> HIDE DEF X, step
  <2> QED BY <1>3, <1>5, <2>1
<1>8. ASSUME NEW k \in 1 .. n, k - 1 \in G
      PROVE  k \in G
  <2>1. /\ 1 .. k \in SUBSET D /\ 1 .. k # {}
        /\ Max(1 .. k) = k /\ (1 .. k) \ {k} = 1 .. (k - 1)
    BY <1>1, PrefixRest
  <2>4. k \in 0 .. n
    BY <1>1
  <2> HIDE DEF step, X
  <2>2. it[1 .. k] = Body(it, 1 .. k)
    <3> HIDE DEF Body, D
    <3> QED BY <1>5, <2>1
  <2>3. it[1 .. k] = step(k, it[1 .. (k - 1)])
    BY <2>1, <2>2
  <2> QED BY <1>2, <1>8, <2>3, <2>4
<1>9. n \in G
  <2>1. n \in Nat /\ n \in 0 .. n
    BY <1>1
  <2> HIDE DEF G, n
  <2>2. \A k \in 0 .. n : k \in G
    BY <1>7, <1>8, <2>1, UpTo
  <2> QED BY <2>1, <2>2
<1> QED BY <1>6, <1>9

(* A set of names stands for indices of parameters, each once.             *)
LEMMA SortedUniqueOnce ==
  ASSUME NEW d, d.parameters \in Seq(ParameterData), NEW names
  PROVE  /\ SortedUnique(names, d) \in Seq(Int)
         /\ ToSet(SortedUnique(names, d)) \subseteq 0 .. Len(d.parameters) - 1
         /\ IsInjective(SortedUnique(names, d))
<1> DEFINE all == [i \in DOMAIN d.parameters |-> i]
           n == Len(d.parameters)
           D == 1 .. n
           X == Seq(Int)
           Named(i) == \E m \in DOMAIN names : IndexOf(d, names[m]) = i
           step(k, x) == IF Named(all[k]) THEN Append(x, all[k] - 1) ELSE x
           h == [dx \in D \X X |-> step(dx[1], dx[2])]
           Body(f, s) == IF s = {} THEN <<>> ELSE step(Max(s), f[s \ {Max(s)}])
<1>1. n \in Nat /\ DOMAIN all = D /\ \A k \in D : all[k] = k
  OBVIOUS
<1>2. ASSUME NEW k \in D, NEW x \in X
      PROVE  step(k, x) \in X
  <2> HIDE DEF Named, all
  <2> QED BY <1>1
<1>3. <<>> \in X
  OBVIOUS
<1>4. \E iter : iter = [s \in SUBSET D |-> Body(iter, s)]
  <2> HIDE DEF X, step, n
  <2>1. \A e \in D : \A x \in X : h[<<e, x>>] = step(e, x) /\ h[<<e, x>>] \in X
    BY <1>2
  <2> HIDE DEF h
  <2>5. n \in Nat /\ <<>> \in X /\ StaysIn(X, 1 .. n, h)
    BY <1>1, <1>3, <2>1 DEF StaysIn
  <2>2. PICK iter \in [SUBSET D -> X] : FoldsLeft(iter, n, <<>>, h)
    BY <2>5, StepsExist
  <2>3. \A s \in SUBSET D : iter[s] = Body(iter, s)
    <3> SUFFICES ASSUME NEW s \in SUBSET D, s # {} PROVE iter[s] = step(Max(s), iter[s \ {Max(s)}])
      BY <2>2 DEF FoldsLeft
    <3>1. Max(s) \in D /\ s \ {Max(s)} \in SUBSET D
      BY <1>1, PicksOfIntervals
    <3>2. iter[s \ {Max(s)}] \in X
      BY <2>2, <3>1
    <3> QED BY <2>1, <2>2, <3>1, <3>2 DEF FoldsLeft
  <2> HIDE DEF D, Body
  <2>4. iter = [s \in SUBSET D |-> Body(iter, s)]
    BY <2>2, <2>3
  <2> QED BY <2>4
<1> DEFINE it == CHOOSE iter : iter = [s \in SUBSET D |-> Body(iter, s)]
<1>5. it = [s \in SUBSET D |-> Body(it, s)]
  <2> HIDE DEF D, Body
  <2> QED BY <1>4
<1>6. SortedUnique(names, d) = it[D]
  BY <1>1 DEF SortedUnique, FoldLeft, MapThenFoldSet
<1> HIDE DEF it
<1> DEFINE G == { k \in 0 .. n : /\ it[1 .. k] \in X /\ ToSet(it[1 .. k]) \subseteq 0 .. k - 1
                                 /\ IsInjective(it[1 .. k]) }
<1>7. 0 \in G
  <2>1. 1 .. 0 = {} /\ {} \in SUBSET D /\ 0 \in 0 .. n
    BY <1>1
  <2>2. it[1 .. 0] = <<>>
    <3> HIDE DEF X, step
    <3> QED BY <1>5, <2>1
  <2>3. ToSet(<<>>) = {} /\ IsInjective(<<>>) /\ <<>> \in X
    BY DEF ToSet, IsInjective
  <2> HIDE DEF X
  <2> QED BY <2>1, <2>2, <2>3
<1>8. ASSUME NEW k \in 1 .. n, k - 1 \in G
      PROVE  k \in G
  <2>1. /\ 1 .. k \in SUBSET D /\ 1 .. k # {}
        /\ Max(1 .. k) = k /\ (1 .. k) \ {k} = 1 .. (k - 1)
    BY <1>1, PrefixRest
  <2>2. it[1 .. k] = Body(it, 1 .. k)
    <3> HIDE DEF Body, D
    <3> QED BY <1>5, <2>1
  <2> DEFINE x == it[1 .. (k - 1)]
  <2>3. it[1 .. k] = x \/ it[1 .. k] = Append(x, k - 1)
    <3>1. it[1 .. k] = step(k, x)
      <4> HIDE DEF step
      <4> QED BY <2>1, <2>2
    <3> HIDE DEF Named, x, all
    <3> QED BY <1>1, <3>1
  <2>4. x \in X /\ ToSet(x) \subseteq 0 .. (k - 1) - 1 /\ IsInjective(x)
    BY <1>8
  <2> HIDE DEF x
  <2>5. k - 1 \in Int /\ k - 1 \notin ToSet(x) /\ ToSet(x) \subseteq 0 .. k - 1
    <3>1. k - 1 \in Int /\ k - 1 \notin 0 .. (k - 1) - 1 /\ 0 .. (k - 1) - 1 \subseteq 0 .. k - 1
      BY <1>1
    <3> QED BY <2>4, <3>1
  <2>6. ToSet(Append(x, k - 1)) = ToSet(x) \cup {k - 1}
    BY <2>4, <2>5, AppendedMember
  <2>7. IsInjective(Append(x, k - 1))
    BY <2>4, <2>5, AppendedOnce
  <2>8. Append(x, k - 1) \in X
    BY <2>4, <2>5
  <2>9. k \in 0 .. n /\ k - 1 \in 0 .. k - 1
    BY <1>1
  <2> HIDE DEF X
  <2>10. it[1 .. k] \in X /\ IsInjective(it[1 .. k])
    BY <2>3, <2>4, <2>7, <2>8
  <2>11. ToSet(it[1 .. k]) \subseteq 0 .. k - 1
    BY <2>3, <2>5, <2>6, <2>9
  <2> QED BY <2>9, <2>10, <2>11
<1>9. n \in G
  <2>1. n \in Nat /\ n \in 0 .. n
    BY <1>1
  <2> HIDE DEF G, n
  <2>2. \A k \in 0 .. n : k \in G
    BY <1>7, <1>8, <2>1, UpTo
  <2> QED BY <2>1, <2>2
<1> QED BY <1>6, <1>9

-----------------------------------------------------------------------------
(* Reading *)

LEMMA DataEdited ==
  ASSUME NEW d, IsData(d), NEW s, NEW p, NEW w
  PROVE  /\ [d EXCEPT !.section = s] =
              [section |-> s, parameters |-> d.parameters, submodels |-> d.submodels,
               constraints |-> d.constraints, parsable |-> d.parsable,
               wellFormed |-> d.wellFormed, rowSeeds |-> d.rowSeeds]
         /\ [d EXCEPT !.parameters = p] =
              [section |-> d.section, parameters |-> p, submodels |-> d.submodels,
               constraints |-> d.constraints, parsable |-> d.parsable,
               wellFormed |-> d.wellFormed, rowSeeds |-> d.rowSeeds]
         /\ [d EXCEPT !.wellFormed = w] =
              [section |-> d.section, parameters |-> d.parameters, submodels |-> d.submodels,
               constraints |-> d.constraints, parsable |-> d.parsable,
               wellFormed |-> w, rowSeeds |-> d.rowSeeds]
         /\ [d EXCEPT !.submodels = p] =
              [section |-> d.section, parameters |-> d.parameters, submodels |-> p,
               constraints |-> d.constraints, parsable |-> d.parsable,
               wellFormed |-> d.wellFormed, rowSeeds |-> d.rowSeeds]
         /\ [d EXCEPT !.constraints = p] =
              [section |-> d.section, parameters |-> d.parameters, submodels |-> d.submodels,
               constraints |-> p, parsable |-> d.parsable,
               wellFormed |-> d.wellFormed, rowSeeds |-> d.rowSeeds]
         /\ [d EXCEPT !.parsable = w] =
              [section |-> d.section, parameters |-> d.parameters, submodels |-> d.submodels,
               constraints |-> d.constraints, parsable |-> w,
               wellFormed |-> d.wellFormed, rowSeeds |-> d.rowSeeds]
         /\ [d EXCEPT !.rowSeeds = p] =
              [section |-> d.section, parameters |-> d.parameters, submodels |-> d.submodels,
               constraints |-> d.constraints, parsable |-> d.parsable,
               wellFormed |-> d.wellFormed, rowSeeds |-> p]
<1>1. PICK a, b, c, e, f, g, h :
        /\ d = [section |-> a, parameters |-> b, submodels |-> c, constraints |-> e,
                parsable |-> f, wellFormed |-> g, rowSeeds |-> h]
        /\ d.section = a /\ d.parameters = b /\ d.submodels = c /\ d.constraints = e
        /\ d.parsable = f /\ d.wellFormed = g /\ d.rowSeeds = h
  BY DEF IsData
<1>2. [d EXCEPT !.section = s] =
        [section |-> s, parameters |-> d.parameters, submodels |-> d.submodels,
         constraints |-> d.constraints,
         parsable |-> d.parsable, wellFormed |-> d.wellFormed, rowSeeds |-> d.rowSeeds]
  BY <1>1
<1>4. [d EXCEPT !.parameters = p] =
        [section |-> d.section, parameters |-> p, submodels |-> d.submodels,
         constraints |-> d.constraints,
         parsable |-> d.parsable, wellFormed |-> d.wellFormed, rowSeeds |-> d.rowSeeds]
  BY <1>1
<1>5. [d EXCEPT !.wellFormed = w] =
        [section |-> d.section, parameters |-> d.parameters, submodels |-> d.submodels,
         constraints |-> d.constraints,
         parsable |-> d.parsable, wellFormed |-> w, rowSeeds |-> d.rowSeeds]
  BY <1>1
<1>6. [d EXCEPT !.submodels = p] =
        [section |-> d.section, parameters |-> d.parameters, submodels |-> p,
         constraints |-> d.constraints,
         parsable |-> d.parsable, wellFormed |-> d.wellFormed, rowSeeds |-> d.rowSeeds]
  BY <1>1
<1>7. [d EXCEPT !.constraints = p] =
        [section |-> d.section, parameters |-> d.parameters, submodels |-> d.submodels,
         constraints |-> p,
         parsable |-> d.parsable, wellFormed |-> d.wellFormed, rowSeeds |-> d.rowSeeds]
  BY <1>1
<1>8. [d EXCEPT !.parsable = w] =
        [section |-> d.section, parameters |-> d.parameters, submodels |-> d.submodels,
         constraints |-> d.constraints,
         parsable |-> w, wellFormed |-> d.wellFormed, rowSeeds |-> d.rowSeeds]
  BY <1>1
<1>9. [d EXCEPT !.rowSeeds = p] =
        [section |-> d.section, parameters |-> d.parameters, submodels |-> d.submodels,
         constraints |-> d.constraints,
         parsable |-> d.parsable, wellFormed |-> d.wellFormed, rowSeeds |-> p]
  BY <1>1
<1> QED BY <1>2, <1>4, <1>5, <1>6, <1>7, <1>8, <1>9

LEMMA DataGrown ==
  ASSUME NEW d, IsData(d), NEW w, NEW p,
         NEW edited, edited = [d EXCEPT !.wellFormed = w, !.parameters = p]
  PROVE  edited = [section |-> d.section, parameters |-> p, submodels |-> d.submodels,
                   constraints |-> d.constraints, parsable |-> d.parsable,
                   wellFormed |-> w, rowSeeds |-> d.rowSeeds]
<1>1. PICK one : one = [d EXCEPT !.wellFormed = w]
  OBVIOUS
<1>2. one = [section |-> d.section, parameters |-> d.parameters, submodels |-> d.submodels,
             constraints |-> d.constraints, parsable |-> d.parsable,
             wellFormed |-> w, rowSeeds |-> d.rowSeeds]
  BY <1>1, DataEdited
<1>3. edited = [one EXCEPT !.parameters = p]
  BY <1>1
<1>4. IsData(one)
  BY <1>2 DEF IsData
<1> QED BY <1>2, <1>3, <1>4, DataEdited

LEMMA MoreParameters ==
  ASSUME NEW n \in Nat, NEW subs, SubmodelsOk(subs, n)
  PROVE  SubmodelsOk(subs, n + 1)
<1>1. 0 .. n - 1 \subseteq 0 .. (n + 1) - 1
  OBVIOUS
<1> QED BY <1>1 DEF SubmodelsOk

LEMMA ReadLineOk ==
  ASSUME NEW d, DataOk(d), NEW line \in Line
  PROVE  /\ DataOk(readLine(d, line))
         /\ Len(readLine(d, line).parameters) <= Len(d.parameters) + 1
<1> DEFINE here == [d EXCEPT !.section = Section(line, d)]
           n == Len(d.parameters)
<1>1. /\ IsData(d) /\ d.section \in {"parameters", "submodels", "constraints"}
      /\ d.parameters \in Seq(ParameterData) /\ SubmodelsOk(d.submodels, n) /\ n \in Nat
      /\ d.rowSeeds \in SeedRows
  BY DEF DataOk
<1>2. Section(line, d) \in {"parameters", "submodels", "constraints"}
  BY <1>1 DEF Section
<1>3. /\ DataOk(here) /\ here.parameters = d.parameters /\ here.submodels = d.submodels
      /\ here.section = Section(line, d)
  <2>1. here = [section |-> Section(line, d), parameters |-> d.parameters, submodels |-> d.submodels,
                constraints |-> d.constraints, parsable |-> d.parsable,
                wellFormed |-> d.wellFormed, rowSeeds |-> d.rowSeeds]
    BY <1>1, DataEdited
  <2> HIDE DEF here
  <2>2. DataOk(here) /\ here.parameters = d.parameters /\ here.submodels = d.submodels
    BY <1>1, <1>2, <2>1 DEF DataOk, IsData
  <2> QED BY <2>1, <2>2
<1>4. \/ readLine(d, line) = d
      \/ /\ line.kind # "comment" /\ here.section = "parameters"
         /\ readLine(d, line) = readParameter(line, here)
      \/ here.section = "submodels" /\ readLine(d, line) = readParamSet(line, here)
      \/ here.section = "constraints" /\ readLine(d, line) = addConstraint(line, here)
  <2> HIDE DEF here
  <2>1. here = [d EXCEPT !.section = Section(line, d)]
    BY DEF here
  <2>2. CASE ~ d.wellFormed \/ line.kind = "comment"
    BY <2>2, Zenon DEF readLine
  <2>3. CASE ~ (~ d.wellFormed \/ line.kind = "comment")
    <3>1. readLine(d, line) =
            CASE here.section = "parameters"  -> readParameter(line, here)
              [] here.section = "submodels"   -> readParamSet(line, here)
              [] here.section = "constraints" -> addConstraint(line, here)
      BY <2>1, <2>3, Zenon DEF readLine
    <3>2. here.section \in {"parameters", "submodels", "constraints"}
      BY <1>2, <1>3
    <3>3. line.kind # "comment"
      BY <2>3
    <3> QED BY <3>1, <3>2, <3>3
  <2> QED BY <2>2, <2>3
<1> HIDE DEF here, n
<1>5. /\ IsData(here) /\ here.section \in {"parameters", "submodels", "constraints"}
      /\ here.parameters \in Seq(ParameterData) /\ SubmodelsOk(here.submodels, n)
      /\ Len(here.parameters) = n /\ here.rowSeeds \in SeedRows
  BY <1>1, <1>3 DEF DataOk, n
<1>6. CASE readLine(d, line) = d
  BY <1>1, <1>6 DEF n
<1>7. CASE /\ line.kind # "comment" /\ here.section = "parameters"
           /\ readLine(d, line) = readParameter(line, here)
  <2> DEFINE new == [name |-> line.name, isResult |-> line.isResult,
                     order |-> IF line.order > 0 THEN line.order ELSE UndefinedOrder,
                     values |-> ValuesOf(line, here)]
             ps == Append(here.parameters, new)
  <2>1. line.kind = "param"
    <3>1. line.kind \in {"param", "set", "constraint", "comment"}
      BY DEF Line
    <3> QED BY <1>1, <1>3, <1>7, <3>1 DEF Section
  <2>2. /\ line.name \in STRING /\ line.order \in Int /\ line.isResult \in BOOLEAN
        /\ line.values \in Seq(Item)
    <3>1. line \in [kind : {"param"}, name : STRING, order : Int, isResult : BOOLEAN, values : Seq(Item)]
      BY <2>1 DEF Line
    <3> QED BY <3>1
  <2>3. new \in ParameterData
    <3>1. ValuesOf(line, here) \in Seq(ValueData)
      BY <1>5, <2>2, ValuesTyped
    <3> QED BY <2>2, <3>1, OrderAssumption DEF ParameterData
  <2> HIDE DEF new
  <2>4. ps \in Seq(ParameterData) /\ Len(ps) = n + 1
    BY <1>5, <2>3
  <2>5. PICK w : readParameter(line, here) = [here EXCEPT !.wellFormed = w, !.parameters = ps]
    <3>1. PICK w : w = (here.wellFormed /\ line.values # <<>>)
      OBVIOUS
    <3>2. readParameter(line, here) = [here EXCEPT !.wellFormed = w, !.parameters = ps]
      BY <3>1, Zenon DEF readParameter, new
    <3> QED BY <3>2
  <2>6. readParameter(line, here) =
          [section |-> here.section, parameters |-> ps, submodels |-> here.submodels,
           constraints |-> here.constraints, parsable |-> here.parsable,
           wellFormed |-> w, rowSeeds |-> here.rowSeeds]
    <3>1. PICK e : e = readParameter(line, here)
      OBVIOUS
    <3>2. IsData(here) /\ e = [here EXCEPT !.wellFormed = w, !.parameters = ps]
      BY <1>5, <2>5, <3>1, Zenon
    <3>3. e = [section |-> here.section, parameters |-> ps, submodels |-> here.submodels,
               constraints |-> here.constraints, parsable |-> here.parsable,
               wellFormed |-> w, rowSeeds |-> here.rowSeeds]
      BY <3>2, DataGrown, Zenon
    <3> QED BY <3>1, <3>3
  <2>7. SubmodelsOk(here.submodels, Len(ps))
    BY <1>1, <1>5, <2>4, MoreParameters
  <2> HIDE DEF ps
  <2>8. DataOk(readParameter(line, here)) /\ readParameter(line, here).parameters = ps
    BY <1>5, <2>4, <2>6, <2>7 DEF DataOk, IsData
  <2> QED BY <1>1, <1>7, <2>4, <2>8 DEF n
<1>8. ASSUME NEW w, NEW e,
             \/ e = [here EXCEPT !.wellFormed = w]
             \/ e = [here EXCEPT !.parsable = w]
             \/ e = [here EXCEPT !.constraints = w]
      PROVE  DataOk(e) /\ e.parameters = here.parameters
  <2>1. \E cs, q, v :
          e = [section |-> here.section, parameters |-> here.parameters, submodels |-> here.submodels,
               constraints |-> cs, parsable |-> q, wellFormed |-> v, rowSeeds |-> here.rowSeeds]
    <3>1. CASE e = [here EXCEPT !.wellFormed = w]
      <4>1. e = [section |-> here.section, parameters |-> here.parameters, submodels |-> here.submodels,
                 constraints |-> here.constraints, parsable |-> here.parsable,
                 wellFormed |-> w, rowSeeds |-> here.rowSeeds]
        BY <1>5, <3>1, DataEdited, Zenon
      <4> QED BY <4>1
    <3>2. CASE e = [here EXCEPT !.parsable = w]
      <4>1. e = [section |-> here.section, parameters |-> here.parameters, submodels |-> here.submodels,
                 constraints |-> here.constraints, parsable |-> w,
                 wellFormed |-> here.wellFormed, rowSeeds |-> here.rowSeeds]
        BY <1>5, <3>2, DataEdited, Zenon
      <4> QED BY <4>1
    <3>3. CASE e = [here EXCEPT !.constraints = w]
      <4>1. e = [section |-> here.section, parameters |-> here.parameters, submodels |-> here.submodels,
                 constraints |-> w, parsable |-> here.parsable,
                 wellFormed |-> here.wellFormed, rowSeeds |-> here.rowSeeds]
        BY <1>5, <3>3, DataEdited, Zenon
      <4> QED BY <4>1
    <3> QED BY <1>8, <3>1, <3>2, <3>3
  <2> QED BY <1>5, <2>1 DEF DataOk, IsData
<1>9. CASE here.section = "submodels" /\ readLine(d, line) = readParamSet(line, here)
  <2> DEFINE new == [parameters |-> SortedUnique(line.names, here), order |-> line.order]
             subs == Append(here.submodels, new)
  <2>1. PICK no : no = FALSE
    OBVIOUS
  <2>2. \/ readParamSet(line, here) = [here EXCEPT !.wellFormed = no]
        \/ readParamSet(line, here) = here
        \/ line.kind = "set" /\ readParamSet(line, here) = [here EXCEPT !.submodels = subs]
    BY <2>1, Zenon DEF readParamSet
  <2>3. CASE readParamSet(line, here) = [here EXCEPT !.wellFormed = no] \/ readParamSet(line, here) = here
    <3>1. PICK e : e = readParamSet(line, here)
      OBVIOUS
    <3>2. e = [here EXCEPT !.wellFormed = no] \/ e = here
      BY <2>3, <3>1, Zenon
    <3>3. DataOk(e) /\ e.parameters = here.parameters
      BY <1>3, <1>8, <3>2, Zenon
    <3> QED BY <1>1, <1>5, <1>9, <3>1, <3>3 DEF n
  <2>4. CASE line.kind = "set" /\ readParamSet(line, here) = [here EXCEPT !.submodels = subs]
    <3>1. line.order \in Int
      <4>1. line \in [kind : {"set"}, names : Seq(STRING), order : Int]
        BY <2>4 DEF Line
      <4> QED BY <4>1
    <3>2. /\ SortedUnique(line.names, here) \in Seq(Int)
          /\ ToSet(SortedUnique(line.names, here)) \subseteq 0 .. n - 1
          /\ IsInjective(SortedUnique(line.names, here))
      BY <1>5, SortedUniqueOnce
    <3>3. new \in SubmodelData /\ new.parameters = SortedUnique(line.names, here)
      BY <3>1, <3>2 DEF SubmodelData
    <3> HIDE DEF new
    <3>4. here.submodels \in Seq(SubmodelData)
      BY <1>5 DEF SubmodelsOk
    <3>5. /\ subs \in Seq(SubmodelData) /\ DOMAIN subs = DOMAIN here.submodels \cup {Len(here.submodels) + 1}
          /\ \A i \in DOMAIN here.submodels : subs[i] = here.submodels[i]
          /\ subs[Len(here.submodels) + 1] = new
      BY <3>3, <3>4
    <3> HIDE DEF subs
    <3>6. SubmodelsOk(subs, n)
      BY <1>5, <3>2, <3>3, <3>5 DEF SubmodelsOk
    <3>7. PICK e : e = readParamSet(line, here)
      OBVIOUS
    <3>8. e = [section |-> here.section, parameters |-> here.parameters, submodels |-> subs,
               constraints |-> here.constraints, parsable |-> here.parsable,
               wellFormed |-> here.wellFormed, rowSeeds |-> here.rowSeeds]
      BY <1>5, <2>4, <3>7, DataEdited, Zenon
    <3>9. DataOk(e) /\ e.parameters = here.parameters
      BY <1>5, <3>6, <3>8 DEF DataOk, IsData
    <3> QED BY <1>1, <1>5, <1>9, <3>7, <3>9 DEF n
  <2> QED BY <2>2, <2>3, <2>4
<1>10. CASE here.section = "constraints" /\ readLine(d, line) = addConstraint(line, here)
  <2>1. PICK no : no = FALSE
    OBVIOUS
  <2>2. PICK more : more = here.constraints \cup line.forbids
    OBVIOUS
  <2>3. \/ addConstraint(line, here) = [here EXCEPT !.constraints = more]
        \/ addConstraint(line, here) = [here EXCEPT !.parsable = no]
    BY <2>1, <2>2, Zenon DEF addConstraint
  <2>4. PICK e : e = addConstraint(line, here)
    OBVIOUS
  <2>5. e = [here EXCEPT !.constraints = more] \/ e = [here EXCEPT !.parsable = no]
    BY <2>3, <2>4, Zenon
  <2>6. DataOk(e) /\ e.parameters = here.parameters
    BY <1>8, <2>5, Zenon
  <2> QED BY <1>1, <1>5, <1>10, <2>4, <2>6 DEF n
<1> QED BY <1>4, <1>6, <1>7, <1>9, <1>10

LEMMA NegativesRemoved ==
  ASSUME NEW d, DataOk(d), NEW e, e = RemoveNegativeValues(d)
  PROVE  /\ DataOk(e) /\ e.constraints = d.constraints
         /\ e.submodels = d.submodels /\ e.rowSeeds = d.rowSeeds
         /\ Len(e.parameters) = Len(d.parameters)
         /\ \A i \in DOMAIN d.parameters :
              /\ e.parameters[i].name = d.parameters[i].name
              /\ e.parameters[i].isResult = d.parameters[i].isResult
              /\ e.parameters[i].order = d.parameters[i].order
              /\ \A v \in ToSet(e.parameters[i].values) : v.positive
<1> DEFINE n == Len(d.parameters)
           negative(p) == { v \in ToSet(p.values) : ~ v.positive }
           ps == [i \in DOMAIN d.parameters |-> WithoutNegatives(d.parameters[i])]
<1>1. /\ IsData(d) /\ d.section \in {"parameters", "submodels", "constraints"}
      /\ d.parameters \in Seq(ParameterData) /\ SubmodelsOk(d.submodels, n)
      /\ n \in Nat /\ DOMAIN d.parameters = 1 .. n /\ d.rowSeeds \in SeedRows
  BY DEF DataOk
<1>2. ASSUME NEW p \in ParameterData
      PROVE  /\ WithoutNegatives(p) \in ParameterData /\ WithoutNegatives(p).name = p.name
             /\ WithoutNegatives(p).isResult = p.isResult /\ WithoutNegatives(p).order = p.order
             /\ \A v \in ToSet(WithoutNegatives(p).values) : v.positive
  <2>1. p = [name |-> p.name, isResult |-> p.isResult, order |-> p.order, values |-> p.values]
        /\ p.name \in STRING /\ p.isResult \in BOOLEAN /\ p.order \in Int /\ p.values \in Seq(ValueData)
    BY DEF ParameterData
  <2> DEFINE left == Without(p.values, negative(p))
  <2>2. left \in Seq(ValueData) /\ ToSet(left) = ToSet(p.values) \ negative(p)
    BY <2>1, WithoutMembers
  <2>3. \A v \in ToSet(left) : v.positive
    BY <2>2
  <2> HIDE DEF left
  <2>4. WithoutNegatives(p) = [name |-> p.name, isResult |-> p.isResult, order |-> p.order, values |-> left]
    BY <2>1 DEF left, WithoutNegatives
  <2>5. WithoutNegatives(p) \in ParameterData
    BY <2>1, <2>2, <2>4 DEF ParameterData
  <2>6. /\ WithoutNegatives(p).name = p.name /\ WithoutNegatives(p).values = left
        /\ WithoutNegatives(p).isResult = p.isResult /\ WithoutNegatives(p).order = p.order
    BY <2>4
  <2>7. \A v \in ToSet(WithoutNegatives(p).values) : v.positive
    BY <2>3, <2>6, Zenon
  <2> QED BY <2>5, <2>6, <2>7, Zenon
<1>3. e = [d EXCEPT !.parameters = ps]
  BY DEF RemoveNegativeValues
<1>4. ps \in Seq(ParameterData) /\ Len(ps) = n
  <2>1. \A i \in 1 .. n : d.parameters[i] \in ParameterData
    BY <1>1
  <2> QED BY <1>1, <1>2, <2>1
<1>5. \A i \in DOMAIN d.parameters : /\ ps[i].name = d.parameters[i].name
                                    /\ ps[i].isResult = d.parameters[i].isResult
                                    /\ ps[i].order = d.parameters[i].order
                                    /\ \A v \in ToSet(ps[i].values) : v.positive
  <2>1. \A i \in DOMAIN d.parameters : d.parameters[i] \in ParameterData /\ ps[i] = WithoutNegatives(d.parameters[i])
    BY <1>1
  <2> HIDE DEF ps
  <2> QED BY <1>2, <2>1
<1> HIDE DEF ps
<1>6. e = [section |-> d.section, parameters |-> ps, submodels |-> d.submodels,
           constraints |-> d.constraints, parsable |-> d.parsable,
           wellFormed |-> d.wellFormed, rowSeeds |-> d.rowSeeds]
  BY <1>1, <1>3, DataEdited, Zenon
<1>7. /\ DataOk(e) /\ e.parameters = ps /\ e.constraints = d.constraints
      /\ e.submodels = d.submodels /\ e.rowSeeds = d.rowSeeds
  BY <1>1, <1>4, <1>6 DEF DataOk, IsData
<1> QED BY <1>4, <1>5, <1>7 DEF n

LEMMA SeedsRead ==
  ASSUME NEW d, DataOk(d), NEW rows \in Seq(SUBSET Cell), NEW e, e = ReadRowSeedFile(rows, d)
  PROVE  DataOk(e) /\ e.parameters = d.parameters /\ e.constraints = d.constraints
<1> DEFINE all == [n \in DOMAIN rows |-> SeedOf(rows[n], d)]
           seeds == Without(all, {{}})
<1>0. all \in Seq(SUBSET Cell)
  <2>1. \A n \in DOMAIN rows : rows[n] \in SUBSET Cell /\ SeedOf(rows[n], d) \subseteq rows[n]
    BY DEF SeedOf
  <2>2. \A n \in DOMAIN rows : SeedOf(rows[n], d) \in SUBSET Cell
    BY <2>1
  <2> QED BY <2>2
<1>1. e = [d EXCEPT !.rowSeeds = seeds]
  BY DEF ReadRowSeedFile
<1> HIDE DEF all
<1>4. seeds \in SeedRows
  BY <1>0, WithoutMembers DEF SeedRows
<1> HIDE DEF seeds
<1>2. IsData(d)
  BY DEF DataOk
<1>3. e = [section |-> d.section, parameters |-> d.parameters, submodels |-> d.submodels,
           constraints |-> d.constraints, parsable |-> d.parsable,
           wellFormed |-> d.wellFormed, rowSeeds |-> seeds]
  BY <1>1, <1>2, DataEdited, Zenon
<1> QED BY <1>3, <1>4 DEF DataOk, IsData

(* The data of a run: a copy of what was read, or that without negatives.  *)
LEMMA DataOfCopy ==
  ASSUME OfCopy, stage \in {"positive", "negative"}
  PROVE  /\ DataOk(data) /\ data.parameters \in Seq(ParameterData)
         /\ Len(data.parameters) \in Nat /\ Len(data.parameters) <= PseudoBase
         /\ DOMAIN data.parameters = 1 .. Len(data.parameters)
         /\ DOMAIN copy.parameters = DOMAIN data.parameters
         /\ data.constraints = copy.constraints
         /\ data.submodels = copy.submodels /\ data.rowSeeds = copy.rowSeeds
         /\ \A i \in DOMAIN data.parameters : /\ data.parameters[i].name = copy.parameters[i].name
                                              /\ data.parameters[i].isResult = copy.parameters[i].isResult
                                              /\ data.parameters[i].order = copy.parameters[i].order
         /\ stage = "positive" =>
              \A i \in DOMAIN data.parameters : \A v \in ToSet(data.parameters[i].values) : v.positive
<1>1. DataOk(copy) /\ Len(copy.parameters) <= PseudoBase
  BY DEF OfCopy
<1>2. copy.parameters \in Seq(ParameterData)
  BY <1>1 DEF DataOk
<1>3. CASE stage = "negative"
  BY <1>1, <1>2, <1>3 DEF OfCopy
<1>4. CASE stage = "positive"
  <2>1. data = RemoveNegativeValues(copy)
    BY <1>4 DEF OfCopy
  <2>2. /\ DataOk(data) /\ data.constraints = copy.constraints
        /\ data.submodels = copy.submodels /\ data.rowSeeds = copy.rowSeeds
        /\ Len(data.parameters) = Len(copy.parameters)
        /\ \A i \in DOMAIN copy.parameters :
             /\ data.parameters[i].name = copy.parameters[i].name
             /\ data.parameters[i].isResult = copy.parameters[i].isResult
             /\ data.parameters[i].order = copy.parameters[i].order
             /\ \A v \in ToSet(data.parameters[i].values) : v.positive
    BY <1>1, <2>1, NegativesRemoved
  <2>3. data.parameters \in Seq(ParameterData)
    BY <2>2 DEF DataOk
  <2>4. DOMAIN copy.parameters = DOMAIN data.parameters
    BY <1>2, <2>2, <2>3
  <2> QED BY <1>1, <1>4, <2>2, <2>3, <2>4
<1> QED BY <1>3, <1>4

-----------------------------------------------------------------------------
(* The tree *)

LEMMA IndexFacts ==
  ASSUME Sized
  PROVE  /\ data.parameters \in Seq(ParameterData)
         /\ Len(data.parameters) \in Nat /\ DOMAIN data.parameters = 1 .. Len(data.parameters)
         /\ IsFiniteSet(Indices(data))
         /\ \A p \in Indices(data) : p \in Nat /\ ~ IsPseudo(p) /\ p + 1 \in DOMAIN data.parameters
         /\ \A i \in DOMAIN data.parameters : i \in Nat /\ i - 1 \in Indices(data)
<1>1. data.parameters \in Seq(ParameterData) /\ Len(data.parameters) <= PseudoBase
  BY DEF Sized, DataOk
<1>2. Len(data.parameters) \in Nat /\ DOMAIN data.parameters = 1 .. Len(data.parameters)
  BY <1>1
<1> DEFINE n == Len(data.parameters)
<1> HIDE DEF n
<1>3. IsFiniteSet(0 .. n - 1)
  BY <1>2, Intervals DEF n
<1>4. \A p \in 0 .. n - 1 : p \in Nat /\ ~ (p >= PseudoBase) /\ p + 1 \in 1 .. n
  BY <1>1, <1>2, TreeAssumption DEF n
<1>5. \A i \in 1 .. n : i \in Nat /\ i - 1 \in 0 .. n - 1
  BY <1>2 DEF n
<1> QED BY <1>1, <1>2, <1>3, <1>4, <1>5 DEF Indices, IsPseudo, n

LEMMA WiredFacts ==
  ASSUME Sized, Wired
  PROVE  /\ IsFiniteSet(Leaves) /\ Leaves \subseteq Nat /\ Root \notin Leaves
         /\ Root \in DOMAIN models /\ Leaves \subseteq DOMAIN models
         /\ models[Root].submodels \in Seq(Leaves) /\ models[Root].submodels \in Seq(Int)
         /\ ToSet(models[Root].submodels) = Leaves
         /\ \A i \in DOMAIN models[Root].submodels : models[Root].submodels[i] = i
         /\ \A m \in Leaves : /\ IsPseudo(PseudoOf(m)) /\ PseudoOf(m) - PseudoBase = m
                              /\ PseudoOf(m) \in Int
<1> DEFINE n == Len(models[Root].submodels)
           subs == models[Root].submodels
<1>1. n \in Nat /\ subs = [i \in 1 .. n |-> i] /\ DOMAIN models = {Root} \cup Leaves
  BY DEF Wired
<1>2. Leaves = DOMAIN subs
  BY DEF Leaves
<1> HIDE DEF n, subs
<1>3. Leaves = 1 .. n
  BY <1>1, <1>2
<1>4. IsFiniteSet(1 .. n)
  BY <1>1, Intervals
<1>5. 1 .. n \subseteq Nat /\ Root \notin 1 .. n
  BY <1>1 DEF Root
<1>6. subs \in Seq(1 .. n) /\ subs \in Seq(Int) /\ ToSet(subs) = 1 .. n /\ \A i \in DOMAIN subs : subs[i] = i
  BY <1>1 DEF ToSet
<1>7. ASSUME NEW m \in 1 .. n
      PROVE  IsPseudo(PseudoOf(m)) /\ PseudoOf(m) - PseudoBase = m /\ PseudoOf(m) \in Int
  BY <1>1, TreeAssumption DEF IsPseudo, PseudoOf
<1> QED BY <1>1, <1>3, <1>4, <1>5, <1>6, <1>7 DEF subs

(* The subtree of a leaf is the leaf, that of the root everything.         *)
LEMMA Subtrees ==
  ASSUME Sized, Wired
  PROVE  /\ SubtreeOf(Root) = DOMAIN models
         /\ \A m \in Leaves : SubtreeOf(m) = {m}
<1> DEFINE F(f) == [m \in DOMAIN models |->
                      {m} \cup UNION { f[c] : c \in ToSet(models[m].submodels) }]
           t == CHOOSE f : f = F(f)
           b == [m \in DOMAIN models |-> IF m = Root THEN DOMAIN models ELSE {m}]
<1>1. /\ DOMAIN models = {Root} \cup Leaves /\ Root \notin Leaves
      /\ ToSet(models[Root].submodels) = Leaves
      /\ \A m \in Leaves : models[m].submodels = <<>>
  BY WiredFacts DEF Wired
<1>2. \A m \in Leaves : ToSet(models[m].submodels) = {}
  BY <1>1 DEF ToSet
<1>3. F(b) = b
  <2>1. ASSUME NEW m \in DOMAIN models
        PROVE  {m} \cup UNION { b[c] : c \in ToSet(models[m].submodels) } = b[m]
    <3>1. CASE m = Root
      <4>1. \A c \in Leaves : b[c] = {c}
        BY <1>1
      <4>2. b[m] = {Root} \cup Leaves
        BY <1>1, <3>1
      <4> HIDE DEF b
      <4> QED BY <1>1, <3>1, <4>1, <4>2
    <3>2. CASE m \in Leaves
      BY <1>1, <1>2, <3>2
    <3> QED BY <1>1, <3>1, <3>2
  <2>2. b = [m \in DOMAIN models |-> b[m]]
    OBVIOUS
  <2> HIDE DEF b
  <2> QED BY <2>1, <2>2
<1>4. t = F(t)
  <2>1. \E f : f = F(f)
    <3> HIDE DEF F, b
    <3> QED BY <1>3
  <2> HIDE DEF F
  <2> QED BY <2>1
<1> HIDE DEF t
<1>5. \A m \in DOMAIN models : t[m] = {m} \cup UNION { t[c] : c \in ToSet(models[m].submodels) }
  BY <1>4
<1>6. \A m \in Leaves : t[m] = {m}
  <2> TAKE m \in Leaves
  <2>1. t[m] = {m} \cup UNION { t[c] : c \in ToSet(models[m].submodels) }
    BY <1>1, <1>5
  <2>2. ToSet(models[m].submodels) = {}
    BY <1>2
  <2>3. UNION { t[c] : c \in {} } = {}
    OBVIOUS
  <2> QED BY <2>1, <2>2, <2>3
<1>7. t[Root] = {Root} \cup Leaves
  <2>1. t[Root] = {Root} \cup UNION { t[c] : c \in Leaves }
    BY <1>1, <1>5
  <2>2. UNION { t[c] : c \in Leaves } = Leaves
    BY <1>6
  <2> QED BY <2>1, <2>2
<1>8. \A m : SubtreeOf(m) = t[m]
  BY DEF SubtreeOf, t
<1> QED BY <1>1, <1>6, <1>7, <1>8

LEMMA ParametersOfTree ==
  ASSUME Sized, Wired
  PROVE  /\ \A m \in Leaves : AllParameters(m) = Columns(m)
         /\ AllParameters(Root) = Columns(Root) \cup UNION { Columns(m) : m \in Leaves }
<1>1. \A m \in Leaves : AllParameters(m) = Columns(m)
  BY Subtrees DEF AllParameters, Columns
<1>2. AllParameters(Root) = UNION { Columns(m) : m \in {Root} \cup Leaves }
  BY Subtrees DEF AllParameters, Columns, Wired
<1> QED BY <1>1, <1>2

(* An exclusion goes to a leaf with all its parameters or to the root.     *)
LEMMA HomeFound ==
  ASSUME Sized, Wired, NEW e, ParamsOf(e) \subseteq AllParameters(Root)
  PROVE  /\ FindMatchingNode(e, Root) \in {Root} \cup Leaves
         /\ FindMatchingNode(e, Root) \in Leaves =>
              ParamsOf(e) \subseteq Columns(FindMatchingNode(e, Root))
<1> DEFINE sub(m) == models[m].submodels
           below(f, m) == { i \in DOMAIN sub(m) : f[sub(m)[i]] # NoModel }
           Node(f, m) == IF below(f, m) # {} THEN f[sub(m)[Min(below(f, m))]]
                         ELSE IF ParamsOf(e) \subseteq AllParameters(m) THEN m ELSE NoModel
           Own(m) == IF ParamsOf(e) \subseteq AllParameters(m) THEN m ELSE NoModel
           least == [m \in DOMAIN models |-> Own(m)]
           node == CHOOSE f : f = [m \in DOMAIN models |-> Node(f, m)]
<1>1. /\ DOMAIN models = {Root} \cup Leaves /\ Root \notin Leaves /\ Leaves = DOMAIN sub(Root)
      /\ \A m \in Leaves : sub(m) = <<>>
      /\ \A i \in Leaves : sub(Root)[i] = i
      /\ Leaves \subseteq Nat
  BY WiredFacts DEF Wired, Leaves
<1>2. \A f : \A m \in Leaves : below(f, m) = {} /\ Node(f, m) = Own(m)
  BY <1>1
<1>3. \A f : below(f, Root) = { i \in Leaves : f[i] # NoModel }
  BY <1>1
<1>4. \A f : below(f, Root) \in SUBSET Int /\ IsFiniteSet(below(f, Root))
  <2> TAKE f
  <2> DEFINE S == below(f, Root)
  <2>1. S \subseteq Leaves /\ IsFiniteSet(Leaves)
    BY <1>3, WiredFacts
  <2> HIDE DEF S
  <2> QED BY <1>1, <2>1, FS_Subset DEF S
<1>5. \E f : f = [m \in DOMAIN models |-> Node(f, m)]
  <2> DEFINE g == [m \in DOMAIN models |-> IF m = Root THEN Node(least, Root) ELSE Own(m)]
  <2>1. \A m \in Leaves : g[m] = least[m] /\ g[m] = Own(m)
    BY <1>1
  <2>2. below(g, Root) = below(least, Root)
    <3> HIDE DEF g, least, Own
    <3> QED BY <1>3, <2>1
  <2>3. Node(g, Root) = Node(least, Root)
    <3>1. CASE below(least, Root) # {}
      <4>1. Min(below(least, Root)) \in Leaves
        <5>2. Min(below(least, Root)) \in below(least, Root)
          <6> HIDE DEF below, least
          <6> QED BY <1>4, <3>1, MaxMin
        <5> QED BY <1>3, <5>2
      <4> HIDE DEF g, least, Own, below
      <4> QED BY <1>1, <2>1, <2>2, <3>1, <4>1
    <3>2. CASE below(least, Root) = {}
      <4> HIDE DEF g, least, Own, below
      <4> QED BY <2>2, <3>2
    <3> QED BY <3>1, <3>2
  <2>4. \A m \in DOMAIN models : g[m] = Node(g, m)
    <3>1. g[Root] = Node(least, Root)
      BY <1>1
    <3> HIDE DEF g, least, Node, Own
    <3> QED BY <1>1, <1>2, <2>1, <2>3, <3>1
  <2>5. g = [m \in DOMAIN models |-> g[m]]
    OBVIOUS
  <2> HIDE DEF g, Node
  <2>6. g = [m \in DOMAIN models |-> Node(g, m)]
    BY <2>4, <2>5
  <2> QED BY <2>6
<1>6. node = [m \in DOMAIN models |-> Node(node, m)]
  <2> HIDE DEF Node
  <2> QED BY <1>5
<1>7. FindMatchingNode(e, Root) = node[Root]
  BY DEF FindMatchingNode
<1> HIDE DEF node
<1>8. \A m \in Leaves : node[m] = Own(m)
  <2> HIDE DEF Node, Own
  <2> QED BY <1>1, <1>2, <1>6
<1>9. node[Root] = Node(node, Root)
  <2> HIDE DEF Node
  <2> QED BY <1>1, <1>6
<1>10. CASE below(node, Root) # {}
  <2>1. Min(below(node, Root)) \in Leaves /\ node[Min(below(node, Root))] # NoModel
    <3>2. Min(below(node, Root)) \in below(node, Root)
      <4> HIDE DEF below
      <4> QED BY <1>10, <1>4, MaxMin
    <3> QED BY <1>3, <3>2
  <2> DEFINE m == Min(below(node, Root))
  <2>2. node[Root] = node[m]
    <3> HIDE DEF below
    <3> QED BY <1>1, <1>9, <1>10, <2>1
  <2> HIDE DEF m, below
  <2>3. node[m] = m /\ ParamsOf(e) \subseteq AllParameters(m)
    BY <1>8, <2>1 DEF m
  <2> QED BY <1>7, <2>1, <2>2, <2>3, ParametersOfTree DEF m
<1>11. CASE below(node, Root) = {}
  <2>1. node[Root] = Root
    <3> HIDE DEF below
    <3> QED BY <1>9, <1>11
  <2> QED BY <1>1, <1>7, <2>1
<1> QED BY <1>10, <1>11

-----------------------------------------------------------------------------
(* TranslateToGCD *)

(* Submodels of the file's parameters which, if any, have all of them.     *)
LEMMA SubmodelsGiven ==
  ASSUME Sized, NEW subs, subs = SubmodelsOf(data)
  PROVE  /\ subs \in Seq(SubmodelData)
         /\ \A i \in DOMAIN subs : /\ ToSet(subs[i].parameters) \subseteq Indices(data)
                                   /\ IsInjective(subs[i].parameters)
         /\ subs # <<>> =>
              \A p \in Indices(data) : \E i \in DOMAIN subs : p \in ToSet(subs[i].parameters)
<1> DEFINE given == data.submodels
           all == [n \in DOMAIN data.parameters |-> n - 1]
           left == Without(all, InSubmodels(data))
           more == [n \in DOMAIN left |-> [parameters |-> <<left[n]>>, order |-> 1]]
<1>1. /\ given \in Seq(SubmodelData)
      /\ \A i \in DOMAIN given : /\ ToSet(given[i].parameters) \subseteq Indices(data)
                                 /\ IsInjective(given[i].parameters)
  BY DEF Sized, DataOk, SubmodelsOk, Indices
<1>2. subs = IF given = <<>> THEN <<>> ELSE given \o more
  BY DEF SubmodelsOf
<1>3. CASE given = <<>>
  BY <1>1, <1>2, <1>3
<1>4. CASE given # <<>>
  <2>1. all \in Seq(Int) /\ ToSet(all) = Indices(data)
    <3>1. all \in Seq(Int)
      BY IndexFacts
    <3>2. \A p \in Indices(data) : p + 1 \in DOMAIN all /\ all[p + 1] = p
      BY IndexFacts
    <3>3. \A i \in DOMAIN all : all[i] \in Indices(data)
      BY IndexFacts
    <3> HIDE DEF all
    <3> QED BY <3>1, <3>2, <3>3 DEF ToSet
  <2>2. left \in Seq(Int) /\ ToSet(left) = Indices(data) \ InSubmodels(data)
    <3> HIDE DEF all
    <3> QED BY <2>1, WithoutMembers
  <2> HIDE DEF left, given
  <2>3. /\ more \in Seq(SubmodelData)
        /\ \A i \in DOMAIN more : /\ ToSet(more[i].parameters) \subseteq Indices(data)
                                  /\ IsInjective(more[i].parameters)
    <3>1. \A i \in DOMAIN left : left[i] \in Int /\ left[i] \in Indices(data)
      BY <2>2 DEF ToSet
    <3>2. DOMAIN more = 1 .. Len(left) /\ Len(left) \in Nat /\ DOMAIN left = 1 .. Len(left)
      BY <2>2
    <3>3. ASSUME NEW i \in DOMAIN more
          PROVE  /\ more[i] \in SubmodelData /\ IsInjective(more[i].parameters)
                 /\ ToSet(more[i].parameters) \subseteq Indices(data)
      <4>1. more[i] = [parameters |-> <<left[i]>>, order |-> 1]
        OBVIOUS
      <4>2. left[i] \in Int /\ left[i] \in Indices(data)
        BY <3>1, <3>2
      <4> DEFINE one == <<left[i]>>
      <4>3. one \in Seq(Int) /\ ToSet(one) = {left[i]} /\ IsInjective(one)
        BY <4>2 DEF ToSet, IsInjective
      <4>4. more[i] = [parameters |-> one, order |-> 1]
        BY <4>1
      <4> HIDE DEF more, one
      <4>5. [parameters |-> one, order |-> 1] \in SubmodelData
        BY <4>3 DEF SubmodelData
      <4>6. more[i].parameters = one
        BY <4>4
      <4> QED BY <4>2, <4>3, <4>4, <4>5, <4>6
    <3>4. \A i \in 1 .. Len(left) : more[i] \in SubmodelData
      BY <3>2, <3>3
    <3>5. more = [i \in 1 .. Len(left) |-> more[i]]
      BY <3>2
    <3> HIDE DEF more
    <3>6. more \in Seq(SubmodelData)
      BY <3>2, <3>4, <3>5
    <3> QED BY <3>3, <3>6
  <2>4. \A i \in DOMAIN left : ToSet(more[i].parameters) = {left[i]} /\ i \in DOMAIN more
    BY DEF ToSet
  <2> HIDE DEF more
  <2>5. subs = given \o more /\ Len(given) \in Nat /\ Len(more) \in Nat
    BY <1>1, <1>2, <1>4, <2>3
  <2>6. subs \in Seq(SubmodelData) /\ Len(subs) = Len(given) + Len(more)
    BY <1>1, <2>3, <2>5
  <2>7. /\ \A i \in DOMAIN given : i \in DOMAIN subs /\ subs[i] = given[i]
        /\ \A i \in DOMAIN more : Len(given) + i \in DOMAIN subs /\ subs[Len(given) + i] = more[i]
    BY <1>1, <2>3, <2>5
  <2>8. \A i \in DOMAIN subs : \/ i \in DOMAIN given /\ subs[i] = given[i]
                               \/ i - Len(given) \in DOMAIN more /\ subs[i] = more[i - Len(given)]
    BY <1>1, <2>3, <2>5
  <2>9. ASSUME NEW p \in Indices(data)
        PROVE  \E i \in DOMAIN subs : p \in ToSet(subs[i].parameters)
    <3>1. CASE p \in InSubmodels(data)
      <4>1. PICK i \in DOMAIN given : p \in ToSet(given[i].parameters)
        BY <3>1 DEF InSubmodels, given
      <4> QED BY <2>7, <4>1
    <3>2. CASE p \notin InSubmodels(data)
      <4>1. PICK i \in DOMAIN left : left[i] = p
        BY <2>2, <3>2 DEF ToSet
      <4>2. i \in DOMAIN more /\ p \in ToSet(more[i].parameters)
        BY <2>4, <4>1
      <4> QED BY <2>7, <4>2
    <3> QED BY <3>1, <3>2
  <2>10. \A i \in DOMAIN subs : /\ ToSet(subs[i].parameters) \subseteq Indices(data)
                                /\ IsInjective(subs[i].parameters)
    BY <1>1, <2>3, <2>8
  <2> QED BY <2>6, <2>9, <2>10
<1> QED BY <1>3, <1>4

LEMMA OrdersAreNumbers ==
  ASSUME Sized, options.order \in Int
  PROVE  /\ FixedOrder(data) \in Int
         /\ \A s \in SubmodelData : SubmodelOrder(s, data) \in Int
<1>1. OrderLimit(data) \in Int
  <2>1. Len(SubmodelsOf(data)) \in Nat
    BY SubmodelsGiven
  <2>2. InputParamCount(data) \in Nat
    <3> DEFINE inputs == { i \in DOMAIN data.parameters : ~ data.parameters[i].isResult }
    <3>1. inputs \subseteq DOMAIN data.parameters /\ IsFiniteSet(DOMAIN data.parameters)
      BY IndexFacts, MembersFinite
    <3>2. IsFiniteSet(inputs)
      BY <3>1, FS_Subset
    <3> HIDE DEF inputs
    <3>3. Cardinality(inputs) \in Nat
      BY <3>2, FS_CardinalityType
    <3> QED BY <3>3 DEF InputParamCount, inputs
  <2> QED BY <2>1, <2>2 DEF OrderLimit
<1>2. FixedOrder(data) \in Int
  BY <1>1 DEF FixedOrder
<1>3. ASSUME NEW s \in SubmodelData
      PROVE  SubmodelOrder(s, data) \in Int
  <2> DEFINE S == {Len(s.parameters), FixedOrder(data)}
  <2>1. Len(s.parameters) \in Int /\ s.order \in Int
    BY DEF SubmodelData
  <2>2. S \in SUBSET Int /\ IsFiniteSet(S) /\ S # {}
    <3>1. IsFiniteSet({FixedOrder(data)})
      BY FS_Singleton
    <3>2. IsFiniteSet({FixedOrder(data)} \cup {Len(s.parameters)})
      BY <3>1, FS_AddElement
    <3>3. {FixedOrder(data)} \cup {Len(s.parameters)} = S
      OBVIOUS
    <3> QED BY <1>2, <2>1, <3>2, <3>3
  <2> HIDE DEF S
  <2>3. Min(S) \in Int
    BY <2>2, MaxMin
  <2> QED BY <2>1, <2>3 DEF SubmodelOrder, S
<1> QED BY <1>2, <1>3

LEMMA ParametersSet ==
  ASSUME NEW o, IsModel(o), NEW p, NEW edited, edited = [o EXCEPT !.parameters = p]
  PROVE  edited = [order |-> o.order, parameters |-> p, submodels |-> o.submodels,
                   exclusions |-> o.exclusions, rowSeeds |-> o.rowSeeds, results |-> o.results]
BY DEF IsModel

LEMMA SubmodelsSet ==
  ASSUME NEW o, IsModel(o), NEW p, NEW s, NEW edited,
         edited = [o EXCEPT !.parameters = p, !.submodels = s]
  PROVE  edited = [order |-> o.order, parameters |-> p, submodels |-> s,
                   exclusions |-> o.exclusions, rowSeeds |-> o.rowSeeds, results |-> o.results]
BY DEF IsModel

LEMMA NewModelMade ==
  ASSUME NEW o, NEW p, NEW s
  PROVE  /\ [NewModel(o) EXCEPT !.parameters = p, !.submodels = s] =
              [order |-> o, parameters |-> p, submodels |-> s,
               exclusions |-> {}, rowSeeds |-> <<>>, results |-> <<>>]
         /\ [NewModel(o) EXCEPT !.parameters = p] =
              [order |-> o, parameters |-> p, submodels |-> <<>>,
               exclusions |-> {}, rowSeeds |-> <<>>, results |-> <<>>]
<1> DEFINE new == NewModel(o)
<1>1. new = [order |-> o, parameters |-> <<>>, submodels |-> <<>>,
             exclusions |-> {}, rowSeeds |-> <<>>, results |-> <<>>]
  BY DEF NewModel
<1>2. /\ IsModel(new) /\ new.order = o /\ new.submodels = <<>> /\ new.exclusions = {}
      /\ new.rowSeeds = <<>> /\ new.results = <<>>
  BY <1>1 DEF IsModel
<1> HIDE DEF new
<1>3. [new EXCEPT !.parameters = p, !.submodels = s] =
        [order |-> new.order, parameters |-> p, submodels |-> s, exclusions |-> new.exclusions,
         rowSeeds |-> new.rowSeeds, results |-> new.results]
  BY <1>2, SubmodelsSet
<1>4. [new EXCEPT !.parameters = p] =
        [order |-> new.order, parameters |-> p, submodels |-> new.submodels,
         exclusions |-> new.exclusions, rowSeeds |-> new.rowSeeds, results |-> new.results]
  BY <1>2, ParametersSet
<1> QED BY <1>2, <1>3, <1>4 DEF new

LEMMA ModelsTranslated ==
  ASSUME Sized, options.order \in Int, NEW tm, tm = TranslatedModels(data),
         NEW subs, subs = SubmodelsOf(data)
  PROVE  /\ DOMAIN tm = 0 .. Len(subs)
         /\ \A m \in DOMAIN tm : /\ IsModel(tm[m]) /\ tm[m].order \in Int
                                 /\ tm[m].exclusions = {} /\ tm[m].results = <<>>
                                 /\ tm[m].rowSeeds = <<>>
         /\ tm[Root].submodels = [n \in DOMAIN subs |-> n]
         /\ tm[Root].parameters =
              IF subs = <<>> THEN [n \in DOMAIN data.parameters |-> n - 1] ELSE <<>>
         /\ \A m \in DOMAIN subs : /\ tm[m].submodels = <<>>
                                   /\ tm[m].parameters = subs[m].parameters
<1>1. /\ subs \in Seq(SubmodelData) /\ Len(subs) \in Nat /\ DOMAIN subs = 1 .. Len(subs)
      /\ \A m \in DOMAIN subs : subs[m] \in SubmodelData
  BY SubmodelsGiven
<1> DEFINE all == IF subs = <<>> THEN [n \in DOMAIN data.parameters |-> n - 1] ELSE <<>>
           children == [n \in DOMAIN subs |-> n]
           root == [NewModel(FixedOrder(data)) EXCEPT !.parameters = all, !.submodels = children]
           leaf(m) == [NewModel(SubmodelOrder(subs[m], data)) EXCEPT !.parameters = subs[m].parameters]
<1>2. /\ DOMAIN tm = 0 .. Len(subs)
      /\ \A m \in DOMAIN tm : tm[m] = IF m = Root THEN root ELSE leaf(m)
  BY DEF TranslatedModels
<1> HIDE DEF root, leaf, all, children
<1>3. FixedOrder(data) \in Int /\ \A m \in DOMAIN subs : SubmodelOrder(subs[m], data) \in Int
  BY <1>1, OrdersAreNumbers
<1>4. Root \in DOMAIN tm /\ \A m \in DOMAIN tm : m = Root \/ m \in DOMAIN subs
  BY <1>1, <1>2 DEF Root
<1>5. \A m \in DOMAIN subs : m \in DOMAIN tm /\ m # Root
  BY <1>1, <1>2 DEF Root
<1>6. tm[Root] = [order |-> FixedOrder(data), parameters |-> all, submodels |-> children,
                  exclusions |-> {}, rowSeeds |-> <<>>, results |-> <<>>]
  BY <1>2, <1>4, NewModelMade DEF root
<1>7. ASSUME NEW m \in DOMAIN subs
      PROVE  tm[m] = [order |-> SubmodelOrder(subs[m], data), parameters |-> subs[m].parameters,
                      submodels |-> <<>>, exclusions |-> {}, rowSeeds |-> <<>>, results |-> <<>>]
  <2>1. tm[m] = leaf(m)
    BY <1>2, <1>5
  <2> QED BY <2>1, NewModelMade DEF leaf
<1>8. ASSUME NEW m \in DOMAIN tm
      PROVE  /\ IsModel(tm[m]) /\ tm[m].order \in Int
             /\ tm[m].exclusions = {} /\ tm[m].results = <<>> /\ tm[m].rowSeeds = <<>>
  <2>1. CASE m = Root
    <3>1. tm[m] = [order |-> FixedOrder(data), parameters |-> all, submodels |-> children,
                   exclusions |-> {}, rowSeeds |-> <<>>, results |-> <<>>]
      BY <1>6, <2>1
    <3> QED BY <1>3, <3>1 DEF IsModel
  <2>2. CASE m \in DOMAIN subs
    <3>1. tm[m] = [order |-> SubmodelOrder(subs[m], data), parameters |-> subs[m].parameters,
                   submodels |-> <<>>, exclusions |-> {}, rowSeeds |-> <<>>, results |-> <<>>]
      BY <1>7, <2>2
    <3> QED BY <1>3, <2>2, <3>1 DEF IsModel
  <2> QED BY <1>4, <2>1, <2>2
<1>9. ASSUME NEW m \in DOMAIN subs
      PROVE  tm[m].submodels = <<>> /\ tm[m].parameters = subs[m].parameters
  <2>1. tm[m] = [order |-> SubmodelOrder(subs[m], data), parameters |-> subs[m].parameters,
                 submodels |-> <<>>, exclusions |-> {}, rowSeeds |-> <<>>, results |-> <<>>]
    BY <1>7
  <2> QED BY <2>1
<1>10. tm[Root].submodels = children /\ tm[Root].parameters = all
  BY <1>6
<1> QED BY <1>2, <1>8, <1>9, <1>10 DEF all, children

(* What is obeyed where is settled before a run. *)
LEMMA TranslationStays ==
  ASSUME data' = data, options' = options
  PROVE  /\ TranslatedModels(data)' = TranslatedModels(data)
         /\ \A m : GeneratedWith(m, data)' = GeneratedWith(m, data)
         /\ \A e, m : RespectedIn(e, m, data)' = RespectedIn(e, m, data)
         /\ \A e : RespectedEverywhere(e, data)' = RespectedEverywhere(e, data)
         /\ \A m : PairsRespected(m, data)' = PairsRespected(m, data)
<1>1. TranslatedModels(data)' = TranslatedModels(data)
  BY DEF TranslatedModels, FixedOrder, OrderLimit, SubmodelOrder, SubmodelsOf, InSubmodels, InputParamCount
<1>2. \A p, m : OrderIn(p, m, data)' = OrderIn(p, m, data)
  BY <1>1 DEF OrderIn
<1>3. \A m : GeneratedWith(m, data)' = GeneratedWith(m, data)
  BY <1>1, <1>2 DEF GeneratedWith
<1>4. \A e, m : RespectedIn(e, m, data)' = RespectedIn(e, m, data)
  BY <1>3 DEF RespectedIn, Respected, OneOrder, LowOrders, AtMostPair
<1> QED BY <1>1, <1>3, <1>4 DEF RespectedEverywhere, PairsRespected

LEMMA NumbersFromZero ==
  ASSUME Sized
  PROVE  ToSet([n \in DOMAIN data.parameters |-> n - 1]) = Indices(data)
<1> DEFINE all == [n \in DOMAIN data.parameters |-> n - 1]
<1>1. \A p \in Indices(data) : p + 1 \in DOMAIN all /\ all[p + 1] = p
  BY IndexFacts
<1>2. \A i \in DOMAIN all : all[i] \in Indices(data)
  BY IndexFacts
<1> HIDE DEF all
<1>3. ToSet(all) = Indices(data)
  BY <1>1, <1>2 DEF ToSet
<1> QED BY <1>3 DEF all

LEMMA EmptyOrNot ==
  ASSUME NEW A, NEW s \in Seq(A)
  PROVE  s = <<>> <=> Len(s) = 0
OBVIOUS

LEMMA TranslationIsFresh ==
  ASSUME Sized, options.order \in Int, TranslateToGCD, pc' = "translated", data' = data, options' = options
  PROVE  FreshTree'
<1> DEFINE subs == SubmodelsOf(data)
<1>1. /\ parameters' = [p \in Indices(data) |->
            [sequence |-> p, order |-> UndefinedOrder,
             isResult |-> data.parameters[p + 1].isResult,
             valueCount |-> Len(data.parameters[p + 1].values)]]
      /\ models' = TranslatedModels(data)
      /\ task' = [root |-> Root, exclusions |-> Given,
                  rowSeeds |-> [n \in DOMAIN data.rowSeeds |-> Translated(data.rowSeeds[n], data)]]
  BY DEF TranslateToGCD, ExitWith, Given
<1>2. /\ subs \in Seq(SubmodelData) /\ Len(subs) \in Nat /\ DOMAIN subs = 1 .. Len(subs)
      /\ \A i \in DOMAIN subs : /\ subs[i].parameters \in Seq(Int)
                                /\ ToSet(subs[i].parameters) \subseteq Indices(data)
                                /\ IsInjective(subs[i].parameters)
      /\ subs # <<>> =>
           \A p \in Indices(data) : \E i \in DOMAIN subs : p \in ToSet(subs[i].parameters)
  <2> HIDE DEF subs
  <2>1. subs \in Seq(SubmodelData) /\ Len(subs) \in Nat /\ DOMAIN subs = 1 .. Len(subs)
    BY SubmodelsGiven DEF subs
  <2>2. \A x \in SubmodelData : x.parameters \in Seq(Int)
    BY DEF SubmodelData
  <2>3. \A i \in DOMAIN subs : subs[i].parameters \in Seq(Int)
    BY <2>1, <2>2
  <2>4. /\ \A i \in DOMAIN subs : /\ ToSet(subs[i].parameters) \subseteq Indices(data)
                                  /\ IsInjective(subs[i].parameters)
        /\ subs # <<>> =>
             \A p \in Indices(data) : \E i \in DOMAIN subs : p \in ToSet(subs[i].parameters)
    BY SubmodelsGiven DEF subs
  <2> QED BY <2>1, <2>3, <2>4
<1> HIDE DEF subs
<1>3. /\ DOMAIN models' = 0 .. Len(subs)
      /\ \A m \in DOMAIN models' : /\ IsModel(models'[m]) /\ models'[m].order \in Int
                                   /\ models'[m].exclusions = {} /\ models'[m].results = <<>>
                                   /\ models'[m].rowSeeds = <<>>
      /\ models'[Root].submodels = [n \in DOMAIN subs |-> n]
      /\ models'[Root].parameters =
           IF subs = <<>> THEN [n \in DOMAIN data.parameters |-> n - 1] ELSE <<>>
      /\ \A m \in DOMAIN subs : /\ models'[m].submodels = <<>>
                                /\ models'[m].parameters = subs[m].parameters
  BY <1>1, ModelsTranslated DEF subs
<1>4. Leaves' = DOMAIN subs /\ (subs = <<>> <=> DOMAIN subs = {}) /\ Indices(data)' = Indices(data)
  BY <1>2, <1>3 DEF Leaves, Indices
<1>5. DOMAIN models' = {Root} \cup DOMAIN subs
  BY <1>2, <1>3 DEF Root
<1>6. Len(models'[Root].submodels) = Len(subs)
  BY <1>2, <1>3
<1>7. \A p \in Indices(data) : Indexed(p)'
  BY <1>1, OrderAssumption DEF Indexed
<1>8. IsTask(task') /\ task'.root = Root /\ task'.exclusions = Given
  BY <1>1 DEF IsTask
<1>9. Given' = Given
  BY DEF Given, NegativePairs, NegativeTerms, PairsOf, ConstraintExclusions, Chosen, Meant
<1>10. \A m \in DOMAIN subs : Columns(m)' = ToSet(subs[m].parameters)
  BY <1>3 DEF Columns
<1>11. (Leaves # {} => Indices(data) \subseteq UNION { Columns(m) : m \in Leaves })'
  BY <1>2, <1>4, <1>10
<1>12. (\A m \in Leaves : /\ models[m].submodels = <<>>
                          /\ models[m].parameters \in Seq(Int) /\ IsInjective(models[m].parameters)
                          /\ Columns(m) \subseteq Indices(data))'
  BY <1>2, <1>3, <1>4, <1>10
<1>13. (/\ models[Root].submodels = [n \in 1 .. Len(models[Root].submodels) |-> n]
        /\ Len(models[Root].submodels) \in Nat)'
  BY <1>2, <1>3, <1>6
<1>14. Wired'
  BY <1>3, <1>4, <1>5, <1>7, <1>8, <1>11, <1>12, <1>13 DEF Wired
<1>15. TranslatedModels(data)' = models'
  BY <1>1, TranslationStays
<1>16. ToSet(models'[Root].parameters) = IF Leaves' = {} THEN Indices(data) ELSE {}
  <2>1. ASSUME subs = <<>>
        PROVE  ToSet([n \in DOMAIN data.parameters |-> n - 1]) = Indices(data)
    BY NumbersFromZero
  <2>2. ToSet(<<>>) = {}
    BY DEF ToSet
  <2> QED BY <1>3, <1>4, <2>1, <2>2
<1>17. /\ task'.rowSeeds = <<>> <=> data'.rowSeeds = <<>>
       /\ \E A : task'.rowSeeds \in Seq(A)
  <2> DEFINE seeds == [n \in DOMAIN data.rowSeeds |-> Translated(data.rowSeeds[n], data)]
  <2>1. data.rowSeeds \in SeedRows
    BY DEF Sized, DataOk
  <2>2. DOMAIN seeds = 1 .. Len(data.rowSeeds) /\ Len(data.rowSeeds) \in Nat
    BY <2>1 DEF SeedRows
  <2>3. seeds \in Seq({ seeds[n] : n \in DOMAIN seeds })
    <3> DEFINE k == Len(data.rowSeeds)
               A == { seeds[n] : n \in DOMAIN seeds }
    <3>1. seeds = [n \in 1 .. k |-> seeds[n]]
      BY <2>2
    <3>2. \A n \in 1 .. k : seeds[n] \in A
      BY <2>2
    <3>3. k \in Nat
      BY <2>2
    <3> HIDE DEF seeds, k, A
    <3> QED BY <3>1, <3>2, <3>3 DEF A
  <2>4. seeds = <<>> <=> data.rowSeeds = <<>>
    <3> HIDE DEF seeds
    <3>1. Len(seeds) = Len(data.rowSeeds) /\ (seeds = <<>> <=> Len(seeds) = 0)
      BY <2>2, <2>3, EmptyOrNot
    <3>2. data.rowSeeds = <<>> <=> Len(data.rowSeeds) = 0
      BY <2>1, EmptyOrNot DEF SeedRows
    <3> QED BY <3>1, <3>2
  <2>5. task'.rowSeeds = seeds
    BY <1>1
  <2> QED BY <2>3, <2>4, <2>5
<1>18. Shaped'
  BY <1>4, <1>15, <1>16, <1>17 DEF Shaped, Columns
<1> QED BY <1>3, <1>4, <1>8, <1>9, <1>14, <1>17, <1>18 DEF FreshTree

-----------------------------------------------------------------------------
(* Prepare *)

LEMMA RootHasAll ==
  ASSUME Sized, Wired,
         models[Root].parameters = IF Leaves = {} THEN [n \in DOMAIN data.parameters |-> n - 1] ELSE <<>>
  PROVE  AllParameters(Root) = Indices(data)
<1>1. AllParameters(Root) = Columns(Root) \cup UNION { Columns(m) : m \in Leaves }
  BY ParametersOfTree
<1>2. CASE Leaves = {}
  BY <1>1, <1>2, NumbersFromZero DEF Columns
<1>3. CASE Leaves # {}
  <2>1. Columns(Root) = {}
    BY <1>3 DEF Columns, ToSet
  <2>2. UNION { Columns(m) : m \in Leaves } = Indices(data)
    BY <1>3 DEF Wired
  <2> QED BY <1>1, <2>1, <2>2
<1> QED BY <1>2, <1>3

(* The terms of a row are about the parameters it is a row of.             *)
LEMMA RowParams ==
  ASSUME NEW params, NEW known, NEW r \in RowsOf(params, known), NEW e \in SUBSET r
  PROVE  ParamsOf(e) \subseteq params
<1>1. PICK f : Gives(r, f, params, known)
  BY RowsGive
<1>2. r = { <<p, f[p]>> : p \in params }
  BY <1>1 DEF Gives
<1>3. ASSUME NEW t \in e
      PROVE  t[1] \in params
  BY <1>2
<1> QED BY <1>3 DEF ParamsOf

LEMMA ModelPrepared ==
  ASSUME NEW o, IsModel(o), NEW a, NEW b, NEW edited,
         edited = [o EXCEPT !.exclusions = o.exclusions \cup a, !.rowSeeds = o.rowSeeds \o b]
  PROVE  edited = [order |-> o.order, parameters |-> o.parameters, submodels |-> o.submodels,
                   exclusions |-> o.exclusions \cup a, rowSeeds |-> o.rowSeeds \o b,
                   results |-> o.results]
BY DEF IsModel

LEMMA TaskDerived ==
  ASSUME IsTask(task), NEW derived, task' = [task EXCEPT !.exclusions = derived]
  PROVE  IsTask(task') /\ task'.root = task.root /\ task'.exclusions = derived
         /\ task'.rowSeeds = task.rowSeeds
<1>1. task' = [root |-> task.root, exclusions |-> derived, rowSeeds |-> task.rowSeeds]
  BY DEF IsTask
<1> QED BY <1>1 DEF IsTask

LEMMA Reordered1 ==
  ASSUME NEW a, NEW b, NEW c, NEW d, NEW e, NEW q,
         q = [sequence |-> a, order |-> b, isResult |-> c, valueCount |-> d]
  PROVE  [q EXCEPT !.order = e] = [sequence |-> a, order |-> e, isResult |-> c, valueCount |-> d]
OBVIOUS

(* The tree has the same shape, and its parameters have the same rows.     *)
SameTree ==
  /\ Leaves' = Leaves /\ Indices(data)' = Indices(data) /\ WholeRows' = WholeRows
  /\ \A m \in Leaves : Columns(m)' = Columns(m)
  /\ \A P \in SUBSET Indices(data) : RowsOf(P, parameters)' = RowsOf(P, parameters)
  /\ Shaped => Shaped'

LEMMA ShapedStays ==
  ASSUME Sized, Wired, Shaped, data' = data, options' = options, task'.rowSeeds = task.rowSeeds,
         DOMAIN models' = DOMAIN models, Leaves' = Leaves, Indices(data)' = Indices(data),
         \A m \in Leaves : Columns(m)' = Columns(m),
         \A m \in DOMAIN models : /\ models'[m].order = models[m].order
                                  /\ models'[m].submodels = models[m].submodels
  PROVE  Shaped'
<1>1. TranslatedModels(data)' = TranslatedModels(data)
  BY TranslationStays
<1> QED BY <1>1 DEF Shaped

LEMMA WiredStays ==
  ASSUME Sized, Wired, data' = data, options' = options,
         IsTask(task'), task'.root = task.root, task'.rowSeeds = task.rowSeeds,
         DOMAIN models' = DOMAIN models,
         \A m \in DOMAIN models : /\ IsModel(models'[m]) /\ models'[m].order = models[m].order
                                  /\ models'[m].submodels = models[m].submodels,
         \A m \in Leaves : /\ models'[m].parameters \in Seq(Int)
                           /\ IsInjective(models'[m].parameters)
                           /\ ToSet(models'[m].parameters) = ToSet(models[m].parameters),
         \A p \in Indices(data) :
           Indexed(p) => p \in DOMAIN parameters' /\ parameters'[p].order \in Int
                         /\ parameters'[p] = [parameters[p] EXCEPT !.order = parameters'[p].order]
  PROVE  Wired' /\ SameTree
<1>1. Root \in DOMAIN models /\ Leaves \subseteq DOMAIN models
  BY WiredFacts
<1>2. Leaves' = Leaves /\ Indices(data)' = Indices(data)
  BY <1>1 DEF Leaves, Indices
<1>3. \A m \in Leaves : Columns(m)' = Columns(m)
  BY DEF Columns
<1>4. ASSUME NEW p \in Indices(data)
      PROVE  Indexed(p)' /\ parameters'[p].valueCount = parameters[p].valueCount
  <2>1. Indexed(p)
    BY DEF Wired
  <2>2. parameters[p] = [sequence |-> p, order |-> parameters[p].order,
                         isResult |-> data.parameters[p + 1].isResult,
                         valueCount |-> Len(data.parameters[p + 1].values)]
    BY <2>1 DEF Indexed
  <2>3. parameters'[p] = [parameters[p] EXCEPT !.order = parameters'[p].order]
    BY <2>1
  <2> DEFINE o == parameters'[p].order
             q == parameters[p]
             b == data.parameters[p + 1].isResult
             n == Len(data.parameters[p + 1].values)
  <2> HIDE DEF o, q, b, n
  <2>4. q = [sequence |-> p, order |-> q.order, isResult |-> b, valueCount |-> n]
    BY <2>2 DEF q, b, n
  <2>5. [q EXCEPT !.order = o] = [sequence |-> p, order |-> o, isResult |-> b, valueCount |-> n]
    BY <2>4, Reordered1
  <2>6. parameters'[p] = [sequence |-> p, order |-> o, isResult |-> b, valueCount |-> n]
    BY <2>3, <2>5 DEF o, q
  <2>7. Indexed(p)'
    BY <2>1, <2>6 DEF Indexed, o, b, n
  <2> QED BY <2>2, <2>6, <2>7 DEF n
<1>5. /\ \A P \in SUBSET Indices(data) : RowsOf(P, parameters)' = RowsOf(P, parameters)
      /\ WholeRows' = WholeRows
  <2>1. ASSUME NEW P \in SUBSET Indices(data)
        PROVE  RowsOf(P, parameters)' = RowsOf(P, parameters)
    <3>1. ValueCounts(P, parameters)' = ValueCounts(P, parameters)
      BY <1>4 DEF ValueCounts
    <3> QED BY <3>1 DEF RowsOf
  <2>2. RowsOf(Indices(data), parameters') = RowsOf(Indices(data), parameters)
    BY <2>1
  <2> QED BY <1>2, <2>1, <2>2 DEF WholeRows
<1>6. /\ models'[Root].submodels = models[Root].submodels
      /\ \A m \in Leaves : models'[m].submodels = <<>>
      /\ \A m \in DOMAIN models : models'[m].order \in Int
  BY <1>1 DEF Wired
<1>7. UNION { Columns(m) : m \in Leaves }' = UNION { Columns(m) : m \in Leaves }
  BY <1>2, <1>3
<1>8. \A m \in Leaves : Columns(m) \subseteq Indices(data)
  BY DEF Wired
<1>9. Wired'
  <2>1. (/\ models[Root].submodels = [n \in 1 .. Len(models[Root].submodels) |-> n]
         /\ Len(models[Root].submodels) \in Nat)'
    BY <1>6 DEF Wired
  <2>2. (DOMAIN models = {Root} \cup Leaves)'
    BY <1>2 DEF Wired
  <2>3. (\A m \in DOMAIN models : IsModel(models[m]) /\ models[m].order \in Int)'
    BY <1>6
  <2>4. (\A m \in Leaves : /\ models[m].submodels = <<>>
                           /\ models[m].parameters \in Seq(Int) /\ IsInjective(models[m].parameters)
                           /\ Columns(m) \subseteq Indices(data))'
    BY <1>2, <1>3, <1>6, <1>8
  <2>5. (Leaves # {} => Indices(data) \subseteq UNION { Columns(m) : m \in Leaves })'
    BY <1>2, <1>7 DEF Wired
  <2>6. (\A p \in Indices(data) : Indexed(p))'
    BY <1>2, <1>4
  <2>7. (IsTask(task) /\ task.root = Root)'
    BY DEF Wired
  <2> QED BY <2>1, <2>2, <2>3, <2>4, <2>5, <2>6, <2>7 DEF Wired
<1>10. Shaped => Shaped'
  BY <1>2, <1>3, ShapedStays
<1> QED BY <1>2, <1>3, <1>5, <1>9, <1>10 DEF SameTree

LEMMA GivenStays ==
  ASSUME data' = data
  PROVE  Given' = Given
BY DEF Given, NegativePairs, NegativeTerms, PairsOf, ConstraintExclusions, Chosen, Meant

LEMMA LessRespected ==
  ASSUME NEW e, NEW b, AtMostPair(e) => AtMostPair(b)
  PROVE  /\ \A m : RespectedIn(e, m, data) => RespectedIn(b, m, data)
         /\ RespectedEverywhere(e, data) => RespectedEverywhere(b, data)
BY DEF RespectedEverywhere, RespectedIn, Respected

LEMMA PartsRespected ==
  ASSUME NEW e, NEW b \in SUBSET e
  PROVE  /\ AtMostPair(e) => AtMostPair(b)
         /\ \A m : RespectedIn(e, m, data) => RespectedIn(b, m, data)
         /\ \A m : RespectedIn(e, m, data) => PairsRespected(m, data)
         /\ RespectedEverywhere(e, data) => RespectedEverywhere(b, data)
<1>1. (AtMostPair(e) => AtMostPair(b)) /\ AtMostPair({})
  BY DEF AtMostPair
<1> QED BY <1>1, LessRespected DEF PairsRespected

LEMMA PrepareKeeps ==
  ASSUME Sized, FreshTree, Prepare, pc' = "walk", data' = data, options' = options, bound = {}
  PROVE  Walking'
<1> DEFINE derived == ClosureOver(AllParameters(Root), parameters, task.exclusions)
           homed(m) == { e \in derived : FindMatchingNode(e, Root) = m }
<1>1. Wired /\ task.exclusions = Given /\ task.root = Root /\ IsTask(task)
  BY DEF FreshTree, Wired
<1>2. PrepareForGeneration /\ calls' = <<[model |-> Root, left |-> models[Root].submodels]>>
      /\ parameters' = parameters
  <2>1. ~ ({} \in derived)
    BY DEF Prepare, ExitWith
  <2> QED BY <2>1 DEF Prepare
<1>3. task' = [task EXCEPT !.exclusions = derived]
  BY <1>1, <1>2 DEF PrepareForGeneration
<1>4. IsTask(task') /\ task'.root = Root /\ task'.exclusions = derived
      /\ task'.rowSeeds = task.rowSeeds
  <2> HIDE DEF derived
  <2> QED BY <1>1, <1>3, TaskDerived
<1>5. /\ DOMAIN models' = DOMAIN models
      /\ \A m \in DOMAIN models :
           models'[m] = [models[m] EXCEPT !.exclusions = models[m].exclusions \cup homed(m),
                                          !.rowSeeds = models[m].rowSeeds \o task.rowSeeds]
  BY <1>1, <1>2, Subtrees DEF PrepareForGeneration
<1> HIDE DEF homed
<1>6. \A m \in DOMAIN models :
        models'[m] = [order |-> models[m].order, parameters |-> models[m].parameters,
                      submodels |-> models[m].submodels, exclusions |-> homed(m),
                      rowSeeds |-> models[m].rowSeeds \o task.rowSeeds, results |-> <<>>]
  <2> TAKE m \in DOMAIN models
  <2>1. IsModel(models[m]) /\ models[m].exclusions = {} /\ models[m].results = <<>>
    BY <1>1 DEF Wired, FreshTree
  <2>2. models'[m] = [order |-> models[m].order, parameters |-> models[m].parameters,
                      submodels |-> models[m].submodels, exclusions |-> models[m].exclusions \cup homed(m),
                      rowSeeds |-> models[m].rowSeeds \o task.rowSeeds, results |-> models[m].results]
    <3> DEFINE o == models[m]
               a == homed(m)
               b == task.rowSeeds
               edited == models'[m]
    <3>1. IsModel(o) /\ edited = [o EXCEPT !.exclusions = o.exclusions \cup a,
                                          !.rowSeeds = o.rowSeeds \o b]
      BY <1>5, <2>1
    <3> HIDE DEF o, a, b, edited
    <3>2. edited = [order |-> o.order, parameters |-> o.parameters, submodels |-> o.submodels,
                    exclusions |-> o.exclusions \cup a, rowSeeds |-> o.rowSeeds \o b,
                    results |-> o.results]
      BY <3>1, ModelPrepared
    <3> QED BY <3>2 DEF o, a, b, edited
  <2>3. models[m].exclusions \cup homed(m) = homed(m)
    BY <2>1
  <2> QED BY <2>1, <2>2, <2>3
<1>7. /\ Wired' /\ Shaped' /\ Leaves' = Leaves /\ Indices(data)' = Indices(data)
      /\ \A m \in Leaves : Columns(m)' = Columns(m)
      /\ WholeRows' = WholeRows
  <2>1. \A m \in Leaves : models[m].parameters \in Seq(Int) /\ IsInjective(models[m].parameters)
    BY <1>1 DEF Wired
  <2>2. \A m \in DOMAIN models : /\ IsModel(models'[m]) /\ models'[m].order = models[m].order
                                 /\ models'[m].submodels = models[m].submodels
                                 /\ models'[m].parameters = models[m].parameters
    <3> TAKE m \in DOMAIN models
    <3>1. models'[m] = [order |-> models[m].order, parameters |-> models[m].parameters,
                        submodels |-> models[m].submodels, exclusions |-> homed(m),
                        rowSeeds |-> models[m].rowSeeds \o task.rowSeeds, results |-> <<>>]
      BY <1>6
    <3> QED BY <3>1 DEF IsModel
  <2>3. Leaves \subseteq DOMAIN models
    BY <1>1, WiredFacts
  <2>4. ASSUME NEW p \in Indices(data), Indexed(p)
        PROVE  p \in DOMAIN parameters' /\ parameters'[p].order \in Int
               /\ parameters'[p] = [parameters[p] EXCEPT !.order = parameters'[p].order]
    <3> DEFINE q == parameters[p]
               b == data.parameters[p + 1].isResult
               n == Len(data.parameters[p + 1].values)
    <3>1. q = [sequence |-> p, order |-> q.order, isResult |-> b, valueCount |-> n]
      BY <2>4 DEF Indexed
    <3> HIDE DEF q, b, n
    <3>2. q = [q EXCEPT !.order = q.order]
      BY <3>1, Zenon
    <3> QED BY <1>2, <2>4, <3>2 DEF Indexed, q
  <2> HIDE DEF derived
  <2>5. Wired' /\ SameTree
    BY <1>1, <1>4, <1>5, <2>1, <2>2, <2>3, <2>4, WiredStays
  <2> QED BY <2>5 DEF SameTree, FreshTree
<1>8. AllParameters(Root) = Indices(data) /\ IsFiniteSet(Indices(data))
  BY <1>1, RootHasAll, IndexFacts DEF FreshTree
<1>9. GivenCovered'
  <2>1. ASSUME NEW whole \in WholeRows, NEW e \in Given, e \subseteq whole, RespectedEverywhere(e, data)
        PROVE  \E b \in derived : b \subseteq whole /\ RespectedEverywhere(b, data)
    <3>1. whole \in RowsOf(Indices(data), parameters)
      BY <2>1 DEF WholeRows
    <3>2. ParamsOf(e) \subseteq Indices(data)
      BY <2>1, <3>1, RowParams
    <3>3. PICK b \in ClosureOver(Indices(data), parameters, Given) : b \subseteq e
      BY <1>8, <2>1, <3>1, <3>2, ClosureForbids
    <3>4. RespectedEverywhere(b, data)
      BY <2>1, <3>3, PartsRespected
    <3> QED BY <1>1, <1>8, <2>1, <3>3, <3>4
  <2>2. Given' = Given
    BY GivenStays
  <2>3. \A e : RespectedEverywhere(e, data)' = RespectedEverywhere(e, data)
    BY TranslationStays
  <2> HIDE DEF derived
  <2> QED BY <1>4, <1>7, <2>1, <2>2, <2>3 DEF GivenCovered, Free, Clear
<1>10. CallsRight'
  <2> DEFINE frame == [model |-> Root, left |-> models[Root].submodels]
  <2>1. frame \in [model : {Root} \cup Leaves, left : Seq(Leaves)]
    BY <1>1, WiredFacts
  <2>2. calls' = <<frame>> /\ frame.model = Root
    BY <1>2
  <2> HIDE DEF frame
  <2>3. Len(calls') = 1 /\ calls'[1] = frame /\ calls' \in Seq([model : {Root} \cup Leaves, left : Seq(Leaves)])
    BY <2>1, <2>2
  <2> QED BY <1>7, <2>2, <2>3 DEF CallsRight
<1>11. \A m \in {Root} \cup Leaves : /\ models'[m].results = <<>>
                                     /\ models'[m].exclusions = homed(m)
                                     /\ models'[m].parameters = models[m].parameters
                                     /\ models'[m].rowSeeds = models[m].rowSeeds \o task.rowSeeds
  <2> TAKE m \in {Root} \cup Leaves
  <2>1. m \in DOMAIN models
    BY <1>1, WiredFacts
  <2>2. models'[m] = [order |-> models[m].order, parameters |-> models[m].parameters,
                      submodels |-> models[m].submodels, exclusions |-> homed(m),
                      rowSeeds |-> models[m].rowSeeds \o task.rowSeeds, results |-> <<>>]
    BY <1>6, <2>1
  <2> DEFINE seeds == models[m].rowSeeds \o task.rowSeeds
  <2>3. models'[m] = [order |-> models[m].order, parameters |-> models[m].parameters,
                      submodels |-> models[m].submodels, exclusions |-> homed(m),
                      rowSeeds |-> seeds, results |-> <<>>]
    BY <2>2
  <2> HIDE DEF seeds
  <2>4. /\ models'[m].results = <<>> /\ models'[m].exclusions = homed(m)
        /\ models'[m].parameters = models[m].parameters /\ models'[m].rowSeeds = seeds
    BY <2>3
  <2> QED BY <2>4 DEF seeds
<1>12. (\A m \in Leaves : LeafRight(m))'
  <2> SUFFICES ASSUME NEW m \in Leaves PROVE LeafRight(m)'
    BY <1>7
  <2> DEFINE none == models'[m].results
  <2>1. none = <<>>
    BY <1>11
  <2>2. PseudoValues(m)' = 0 .. Len(none) - 1
    BY DEF PseudoValues, PseudoValueCount
  <2>3. PseudoValues(m)' = {} /\ none \in Seq(ToSet(none))
    <3> HIDE DEF none
    <3> QED BY <2>1, <2>2
  <2> QED BY <2>3 DEF LeafRight
<1>13. Housed'
  <2> SUFFICES ASSUME NEW e \in derived
               PROVE  \/ e \in models'[Root].exclusions /\ ParamsOf(e) \subseteq Indices(data)
                      \/ \E m \in Leaves : e \in models'[m].exclusions /\ ParamsOf(e) \subseteq Columns(m)
    <3> HIDE DEF derived
    <3> QED BY <1>4, <1>7 DEF Housed
  <2>1. ParamsOf(e) \subseteq AllParameters(Root)
    BY ClosureParams
  <2> HIDE DEF derived
  <2>2. /\ FindMatchingNode(e, Root) \in {Root} \cup Leaves
        /\ FindMatchingNode(e, Root) \in Leaves => ParamsOf(e) \subseteq Columns(FindMatchingNode(e, Root))
    BY <1>1, <2>1, HomeFound
  <2>4. e \in homed(FindMatchingNode(e, Root))
    BY DEF homed
  <2> QED BY <1>8, <1>11, <2>1, <2>2, <2>4
<1>14. RootFresh'
  <2>1. models'[Root].results = <<>> /\ models'[Root].parameters = models[Root].parameters
    BY <1>11
  <2>2. models[Root].parameters = IF Leaves = {} THEN [n \in DOMAIN data.parameters |-> n - 1] ELSE <<>>
    BY DEF FreshTree
  <2> QED BY <1>7, <1>13, <2>1, <2>2 DEF RootFresh
<1>15. (\A m \in DOMAIN models : SeedsKnown(m))'
  <2>1. PICK A : task.rowSeeds \in Seq(A)
    BY DEF FreshTree
  <2>2. <<>> \o task.rowSeeds = task.rowSeeds
    BY <2>1
  <2>3. \A m \in DOMAIN models : models[m].rowSeeds = <<>>
    BY DEF FreshTree
  <2>4. DOMAIN models = {Root} \cup Leaves
    BY <1>1 DEF Wired
  <2>5. \A m \in DOMAIN models : models'[m].rowSeeds = task.rowSeeds
    BY <1>11, <2>2, <2>3, <2>4
  <2> HIDE DEF derived
  <2> QED BY <1>4, <1>5, <2>1, <2>5 DEF SeedsKnown
<1>16. bound' = {}
  BY DEF Prepare, ExitWith
<1> HIDE DEF derived
<1> QED BY <1>7, <1>9, <1>10, <1>12, <1>14, <1>15, <1>16 DEF Walking, CallsRight

-----------------------------------------------------------------------------
(* The walk *)

LEMMA DomainOfLength ==
  ASSUME NEW A, NEW s \in Seq(A), NEW n, Len(s) = n
  PROVE  DOMAIN s = 1 .. n
OBVIOUS

LEMMA FirstReplaced ==
  ASSUME NEW A, NEW s \in Seq(A), Len(s) = 1, NEW a \in A, NEW t, t = [s EXCEPT ![1] = a]
  PROVE  t \in Seq(A) /\ Len(t) = 1 /\ t[1] = a
<1>1. DOMAIN s = 1 .. 1
  BY DomainOfLength
<1>2. t \in [1 .. 1 -> A] /\ t[1] = a
  BY <1>1
<1> QED BY <1>2

LEMMA FirstLeft ==
  ASSUME NEW A, NEW s \in Seq(A), Len(s) = 2
  PROVE  /\ SubSeq(s, 1, 1) \in Seq(A) /\ Len(SubSeq(s, 1, 1)) = 1
         /\ SubSeq(s, 1, 1)[1] = s[1]
<1>1. SubSeq(s, 1, 1) = [i \in 1 .. 1 |-> s[i]] /\ s[1] \in A
  OBVIOUS
<1> DEFINE t == [i \in 1 .. 1 |-> s[i]]
<1>2. t \in [1 .. 1 -> A] /\ t[1] = s[1]
  BY <1>1
<1> HIDE DEF t
<1>3. t \in Seq(A) /\ Len(t) = 1
  BY <1>2
<1> QED BY <1>1, <1>2, <1>3 DEF t

LEMMA AppendedLast ==
  ASSUME NEW A, NEW s \in Seq(A), NEW a \in A
  PROVE  Append(s, a)[Len(s) + 1] = a
OBVIOUS

LEMMA SecondAdded ==
  ASSUME NEW A, NEW s \in Seq(A), Len(s) = 1, NEW a \in A
  PROVE  /\ Append(s, a) \in Seq(A) /\ Len(Append(s, a)) = 2
         /\ Append(s, a)[1] = s[1] /\ Append(s, a)[2] = a
<1>1. Append(s, a) \in Seq(A)
  OBVIOUS
<1>2. Len(Append(s, a)) = Len(s) + 1
  OBVIOUS
<1>3. \A i \in DOMAIN s : Append(s, a)[i] = s[i]
  OBVIOUS
<1>4. Append(s, a)[Len(s) + 1] = a
  BY AppendedLast
<1>5. 1 \in DOMAIN s
  OBVIOUS
<1> DEFINE t == Append(s, a)
<1>6. t \in Seq(A) /\ Len(t) = 2 /\ t[1] = s[1] /\ t[2] = a
  <2>1. t \in Seq(A) /\ Len(t) = Len(s) + 1 /\ t[1] = s[1] /\ t[Len(s) + 1] = a
    BY <1>1, <1>2, <1>3, <1>4, <1>5
  <2> HIDE DEF t
  <2>2. Len(s) + 1 = 2
    OBVIOUS
  <2> QED BY <2>1, <2>2
<1> QED BY <1>6

LEMMA Frames ==
  ASSUME CallsRight, Wired, Sized
  PROVE  /\ Len(calls) \in {1, 2} /\ DOMAIN calls = 1 .. Len(calls)
         /\ Top.model \in {Root} \cup Leaves /\ Top.left \in Seq(Leaves)
         /\ Top = [model |-> Top.model, left |-> Top.left]
         /\ (Len(calls) = 1 <=> Top.model = Root) /\ (Len(calls) = 2 <=> Top.model \in Leaves)
         /\ Top.model \in Leaves => Top.left = <<>>
         /\ calls[1] \in [model : {Root} \cup Leaves, left : Seq(Leaves)]
         /\ calls[1].model = Root
<1> DEFINE R == [model : {Root} \cup Leaves, left : Seq(Leaves)]
<1>1. /\ calls \in Seq(R) /\ Len(calls) \in {1, 2} /\ calls[1].model = Root
      /\ Len(calls) = 2 => Top.model \in Leaves /\ Top.left = <<>>
  BY DEF CallsRight
<1>2. \A c \in R : /\ c.model \in {Root} \cup Leaves /\ c.left \in Seq(Leaves)
                   /\ c = [model |-> c.model, left |-> c.left]
  OBVIOUS
<1> HIDE DEF R
<1>3. DOMAIN calls = 1 .. Len(calls) /\ Top \in R /\ calls[1] \in R
  BY <1>1 DEF Top
<1>4. Len(calls) = 1 => Top.model = Root
  BY <1>1 DEF Top
<1>5. Root \notin Leaves
  BY WiredFacts
<1> QED BY <1>1, <1>2, <1>3, <1>4, <1>5 DEF R

(* What holds of the rest of the tree while one model changes.             *)
LEMMA RestStays ==
  ASSUME Sized, Walking, data' = data, options' = options, task' = task, SameTree,
         \A m \in DOMAIN models : m # Top.model => models'[m] = models[m]
  PROVE  /\ GivenCovered' /\ Shaped'
         /\ \A m \in DOMAIN models : m # Top.model => SeedsKnown(m)'
         /\ \A m \in Leaves : m # Top.model => LeafRight(m)'
         /\ \A r : Free(r)' <=> Free(r)
         /\ (/\ Top.model \in Leaves /\ RootFresh
             /\ models'[Top.model].exclusions = models[Top.model].exclusions) => RootFresh'
<1>1. Wired /\ GivenCovered /\ \A m \in Leaves : LeafRight(m)
  BY DEF Walking
<1>2. (\A r : Free(r)' <=> Free(r)) /\ (\A r : Clear(r)' <=> Clear(r))
  BY TranslationStays, GivenStays DEF Free, Clear
<1>3. GivenCovered'
  BY <1>1, <1>2 DEF GivenCovered, SameTree
<1>6. Shaped' /\ \A m \in DOMAIN models : m # Top.model => SeedsKnown(m)'
  BY DEF Walking, SameTree, SeedsKnown
<1>4. ASSUME NEW m \in Leaves, m # Top.model
      PROVE  LeafRight(m)'
  <2>1. models'[m] = models[m]
    BY <1>1, <1>4, WiredFacts
  <2>2. PseudoValues(m)' = PseudoValues(m) /\ \A v : RowTerms(m, v)' = RowTerms(m, v)
    BY <2>1 DEF PseudoValues, PseudoValueCount, RowTerms
  <2>3. \A r : Valid(m, r)' <=> Valid(m, r)
    BY <2>1, TranslationStays DEF Valid
  <2>4. RowsOf(Columns(m), parameters)' = RowsOf(Columns(m), parameters)
    <3>1. Columns(m) \in SUBSET Indices(data) /\ Columns(m)' = Columns(m)
      BY <1>1 DEF Wired, SameTree
    <3>2. RowsOf(Columns(m), parameters') = RowsOf(Columns(m), parameters)
      BY <3>1 DEF SameTree
    <3>3. RowsOf(Columns(m), parameters)' = RowsOf(Columns(m)', parameters')
      OBVIOUS
    <3> QED BY <3>1, <3>2, <3>3
  <2> QED BY <1>1, <2>1, <2>2, <2>3, <2>4 DEF LeafRight
<1>5. ASSUME Top.model \in Leaves, RootFresh,
             models'[Top.model].exclusions = models[Top.model].exclusions
      PROVE  RootFresh'
  <2>1. Root \in DOMAIN models /\ Root # Top.model /\ Leaves \subseteq DOMAIN models
    BY <1>1, <1>5, WiredFacts
  <2>2. models'[Root] = models[Root]
    BY <2>1
  <2>3. \A m \in Leaves : models'[m].exclusions = models[m].exclusions
    BY <1>5, <2>1
  <2>4. Housed'
    <3> SUFFICES ASSUME NEW e \in task.exclusions
                 PROVE  \/ e \in models'[Root].exclusions /\ ParamsOf(e) \subseteq Indices(data)
                        \/ \E m \in Leaves : /\ e \in models'[m].exclusions
                                             /\ ParamsOf(e) \subseteq Columns(m)
      BY DEF Housed, SameTree
    <3> QED BY <1>5, <2>2, <2>3 DEF RootFresh, Housed
  <2> QED BY <1>5, <2>2, <2>4 DEF RootFresh, SameTree
<1> QED BY <1>2, <1>3, <1>4, <1>5, <1>6

LEMMA DescendKeeps ==
  ASSUME Sized, Walking, Descend, data' = data, options' = options
  PROVE  Walking'
<1>1. /\ Wired /\ CallsRight /\ pc = "walk" /\ pc' = "walk" /\ Top.left # <<>> /\ RootFresh
      /\ UNCHANGED <<parameters, models, task, bound>> /\ \A m \in Leaves : LeafRight(m)
      /\ Shaped /\ bound = {} /\ \A m \in DOMAIN models : SeedsKnown(m)
  BY DEF Walking, Descend
<1>2. PICK c, rest : c = Head(Top.left) /\ rest = Tail(Top.left)
  OBVIOUS
<1>3. Len(calls) = 1 /\ Top = calls[1] /\ Top.model = Root /\ Top.left \in Seq(Leaves)
      /\ Top = [model |-> Root, left |-> Top.left] /\ DOMAIN calls = 1 .. 1
  BY <1>1, Frames DEF Top
<1>4. c \in Leaves /\ rest \in Seq(Leaves)
  BY <1>1, <1>2, <1>3
<1> DEFINE inner == [model |-> c, left |-> <<>>]
           outer == [calls EXCEPT ![1].left = Tail(@)]
           R == [model : {Root} \cup Leaves, left : Seq(Leaves)]
<1>5. outer \in Seq(R) /\ Len(outer) = 1 /\ outer[1] = [model |-> Root, left |-> rest]
  <2> DEFINE f == Top
             g == [model |-> Root, left |-> rest]
  <2>1. calls \in Seq(R) /\ f = [model |-> Root, left |-> f.left] /\ rest = Tail(f.left)
    BY <1>1, <1>2, <1>3 DEF CallsRight
  <2>2. outer = [calls EXCEPT ![1] = [f EXCEPT !.left = Tail(f.left)]]
    BY <1>3
  <2>3. g \in R
    BY <1>4
  <2> HIDE DEF f, outer, R
  <2>4. [f EXCEPT !.left = Tail(f.left)] = g
    <3>1. \A x, y, z : [[model |-> x, left |-> y] EXCEPT !.left = z] = [model |-> x, left |-> z]
      OBVIOUS
    <3>2. PICK y : f = [model |-> Root, left |-> y]
      BY <2>1
    <3>3. y = f.left /\ rest = Tail(y)
      BY <2>1, <3>2
    <3> QED BY <3>1, <3>2, <3>3
  <2>5. outer = [calls EXCEPT ![1] = g]
    BY <2>2, <2>4
  <2> HIDE DEF g
  <2>6. calls \in Seq(R) /\ Len(calls) = 1 /\ 1 \in DOMAIN calls
    BY <1>3, <2>1
  <2> QED BY <2>3, <2>5, <2>6, FirstReplaced DEF g
<1>6. calls' = Append(outer, inner)
  <2>1. models[c].submodels = <<>>
    BY <1>1, <1>4 DEF Wired
  <2>2. calls' = Append(Before(Top.model), [model |-> Head(Top.left), left |-> models[Head(Top.left)].submodels])
    BY DEF Descend
  <2>3. Before(Top.model) = outer
    BY <1>3 DEF Before
  <2> QED BY <1>2, <2>1, <2>2, <2>3
<1>7. inner \in R
  BY <1>4
<1> HIDE DEF R, inner, outer
<1>8. calls' \in Seq(R) /\ Len(calls') = 2 /\ calls'[1].model = Root /\ calls'[2] = inner
  <2>1. calls' \in Seq(R) /\ Len(calls') = 2 /\ calls'[1] = outer[1] /\ calls'[2] = inner
    BY <1>5, <1>6, <1>7, SecondAdded
  <2> QED BY <1>5, <2>1
<1>9. SameTree
  <2>1. Shaped'
    <3>1. Leaves' = Leaves /\ Indices(data)' = Indices(data) /\ \A m \in Leaves : Columns(m)' = Columns(m)
      BY <1>1 DEF Leaves, Indices, Columns
    <3> QED BY <1>1, <3>1, ShapedStays
  <2> QED BY <1>1, <2>1 DEF SameTree, Leaves, Indices, WholeRows, Columns
<1>10. CallsRight'
  <2>1. R' = R
    BY <1>9 DEF R, SameTree
  <2>2. Top' = inner
    BY <1>8 DEF Top
  <2>3. inner.model = c /\ inner.left = <<>>
    BY DEF inner
  <2> QED BY <1>4, <1>8, <1>9, <2>1, <2>2, <2>3 DEF CallsRight, R, SameTree
<1>11. Wired'
  <2>1. (\A p : Indexed(p)' <=> Indexed(p)) /\ (\A m : Columns(m)' = Columns(m))
    BY <1>1 DEF Indexed, Columns
  <2>2. Leaves' = Leaves /\ Indices(data)' = Indices(data)
    BY <1>9 DEF SameTree
  <2> QED BY <1>1, <2>1, <2>2 DEF Wired
<1>12. GivenCovered' /\ \A r : Free(r)' <=> Free(r)
  BY <1>1, <1>9, RestStays
<1>13. (\A m \in Leaves : LeafRight(m))'
  <2>1. \A m : \A r : Valid(m, r)' <=> Valid(m, r)
    BY <1>1, TranslationStays DEF Valid
  <2>2. \A m : LeafRight(m)' <=> LeafRight(m)
    <3>1. /\ \A m : PseudoValues(m)' = PseudoValues(m) /\ \A v : RowTerms(m, v)' = RowTerms(m, v)
          /\ \A m : RowsOf(Columns(m), parameters)' = RowsOf(Columns(m), parameters)
      BY <1>1 DEF PseudoValues, PseudoValueCount, RowTerms, Columns, RowsOf
    <3> QED BY <1>1, <2>1, <3>1 DEF LeafRight
  <2> QED BY <1>1, <1>9, <2>2 DEF SameTree
<1>14. RootFresh'
  <2>1. Housed'
    BY <1>1, <1>9 DEF RootFresh, Housed, SameTree, Columns
  <2> QED BY <1>1, <1>9, <2>1 DEF RootFresh, SameTree
<1>15. Shaped' /\ (\A m \in DOMAIN models : SeedsKnown(m))' /\ bound' = {}
  BY <1>1, <1>9 DEF SameTree, SeedsKnown
<1> QED BY <1>1, <1>8, <1>10, <1>11, <1>12, <1>13, <1>14, <1>15 DEF Walking

(* A leaf has been generated.                                              *)
LEMMA LeafReturns ==
  ASSUME Sized, Walking, data' = data, options' = options, task' = task, Wired', SameTree,
         Top.model \in Leaves, pc # "walk", Return, bound' = {},
         \A m \in {Top.model} : SeedsKnown(m)',
         \A m \in DOMAIN models : m # Top.model => models'[m] = models[m],
         models'[Top.model].exclusions = models[Top.model].exclusions,
         \A m \in {Top.model} : LeafRight(m)'
  PROVE  pc' = "walk" /\ Walking'
<1>1. Wired /\ CallsRight /\ \A m \in Leaves : LeafRight(m)
  BY DEF Walking
<1>2. Len(calls) = 2 /\ calls \in Seq([model : {Root} \cup Leaves, left : Seq(Leaves)])
      /\ calls[1].model = Root /\ calls[1] \in [model : {Root} \cup Leaves, left : Seq(Leaves)]
  BY <1>1, Frames DEF CallsRight
<1>3. pc' = "walk" /\ calls' = SubSeq(calls, 1, 1)
  BY <1>2 DEF Return
<1>4. /\ calls' \in Seq([model : {Root} \cup Leaves, left : Seq(Leaves)])
      /\ Len(calls') = 1 /\ calls'[1] = calls[1]
  <2> DEFINE A == [model : {Root} \cup Leaves, left : Seq(Leaves)]
  <2>1. calls \in Seq(A) /\ Len(calls) = 2
    BY <1>2
  <2> HIDE DEF A
  <2>2. /\ SubSeq(calls, 1, 1) \in Seq(A) /\ Len(SubSeq(calls, 1, 1)) = 1
        /\ SubSeq(calls, 1, 1)[1] = calls[1]
    BY <2>1, FirstLeft
  <2> QED BY <1>3, <2>2 DEF A
<1> DEFINE R == [model : {Root} \cup Leaves, left : Seq(Leaves)]
<1>5. CallsRight'
  <2>1. calls' \in Seq(R) /\ Len(calls') = 1 /\ calls'[1].model = Root
    BY <1>2, <1>4
  <2>2. R' = R
    BY DEF SameTree
  <2> HIDE DEF R
  <2>3. calls' \in Seq(R')
    BY <2>1, <2>2
  <2> QED BY <2>1, <2>3 DEF CallsRight, R
<1>6. RootFresh
  BY <1>2 DEF Walking
<1>7. /\ GivenCovered' /\ Shaped' /\ RootFresh' /\ \A m \in Leaves : m # Top.model => LeafRight(m)'
      /\ \A m \in DOMAIN models : m # Top.model => SeedsKnown(m)'
  BY <1>6, RestStays
<1>8. (\A m \in Leaves : LeafRight(m))'
  <2>1. \A m \in Leaves : LeafRight(m)'
    BY <1>7
  <2> QED BY <2>1 DEF SameTree
<1>9. pc' # "rows" /\ Len(calls') # 2
  BY <1>3, <1>4
<1>10. (\A m \in DOMAIN models : SeedsKnown(m))'
  <2>1. \A m \in DOMAIN models : SeedsKnown(m)'
    BY <1>7
  <2>2. DOMAIN models' = DOMAIN models
    BY <1>1 DEF Wired, SameTree
  <2> QED BY <2>1, <2>2
<1> QED BY <1>3, <1>5, <1>7, <1>8, <1>9, <1>10 DEF Walking

-----------------------------------------------------------------------------
(* A valid row of the root stands for a row of all the parameters          *)

LEMMA RowMade ==
  ASSUME NEW params, NEW known, NEW f, NEW r, Gives(r, f, params, known)
  PROVE  r \in RowsOf(params, known)
<1> DEFINE counts == ValueCounts(params, known)
           g == [p \in params |-> f[p]]
<1>1. DOMAIN counts = params /\ \A p \in params : counts[p] = known[p].valueCount
  BY DEF ValueCounts
<1>2. \A p \in params : g[p] \in 0 .. counts[p] - 1
  BY <1>1 DEF Gives
<1>3. r = { <<p, g[p]>> : p \in params }
  BY DEF Gives
<1>4. g = [p \in params |-> g[p]]
  OBVIOUS
<1> HIDE DEF counts, g
<1>5. \A p \in params : g[p] \in Engine(counts)!Values(p)
  BY <1>2 DEF Engine!Values
<1>6. g \in [params -> UNION { Engine(counts)!Values(p) : p \in params }]
  BY <1>4, <1>5
<1>7. r \in Engine(counts)!Rows
  BY <1>1, <1>3, <1>5, <1>6 DEF Engine!Rows, Engine!Cells
<1> QED BY <1>7 DEF RowsOf, counts

(* The rows are the same when the parameters have as many values.          *)
LEMMA RowsAlike ==
  ASSUME NEW params, NEW known, NEW other,
         \A p \in params : known[p].valueCount = other[p].valueCount
  PROVE  RowsOf(params, known) = RowsOf(params, other)
<1>1. ValueCounts(params, known) = ValueCounts(params, other)
  BY DEF ValueCounts
<1> QED BY <1>1 DEF RowsOf

(* Terms of a row: one for each parameter.                                 *)
LEMMA RowTermsOnce ==
  ASSUME NEW params, NEW known, NEW r \in RowsOf(params, known)
  PROVE  /\ \A t \in r : t[1] \in params /\ t = <<t[1], t[2]>> /\ t[2] \in 0 .. known[t[1]].valueCount - 1
         /\ \A p \in params : \E t \in r : t[1] = p
         /\ \A s, t \in r : s[1] = t[1] => s = t
<1>1. PICK f : Gives(r, f, params, known)
  BY RowsGive
<1>2. r = { <<p, f[p]>> : p \in params } /\ \A p \in params : f[p] \in 0 .. known[p].valueCount - 1
  BY <1>1 DEF Gives
<1>3. \A t \in r : t[1] \in params /\ t = <<t[1], f[t[1]]>> /\ t[2] = f[t[1]]
  BY <1>2
<1>4. \A p \in params : <<p, f[p]>> \in r /\ <<p, f[p]>>[1] = p
  BY <1>2
<1>5. \A s, t \in r : s[1] = t[1] => s = t
  BY <1>3
<1>6. \A t \in r : t = <<t[1], t[2]>> /\ t[2] \in 0 .. known[t[1]].valueCount - 1
  BY <1>2, <1>3
<1> QED BY <1>3, <1>4, <1>5, <1>6

(* r picks row at[m] of each leaf m; together they are a row of all the    *)
(* parameters.                                                             *)
Together(at) == UNION { RowTerms(m, at[m]) : m \in Leaves }

PicksOf(r, at) ==
  /\ \A m \in Leaves : at[m] \in PseudoValues(m) /\ <<PseudoOf(m), at[m]>> \in r
  /\ \A m \in Leaves : RowTerms(m, at[m]) \in RowsOf(Columns(m), parameters)
  /\ \A s, t \in Together(at) : s[1] = t[1] => s = t

LEMMA PicksMade ==
  ASSUME Sized, Wired, Leaves # {}, \A m \in Leaves : LeafRight(m),
         NEW known, \A m \in Leaves : known[PseudoOf(m)].valueCount = PseudoValueCount(m),
         NEW r \in RowsOf(RootParams, known),
         ~ \E b \in Conflicts(models[Root].submodels) : b \subseteq r
  PROVE  \E at : PicksOf(r, at)
<1>1. PICK f : Gives(r, f, RootParams, known)
  BY RowsGive
<1> DEFINE at == [m \in Leaves |-> f[PseudoOf(m)]]
<1>2. RootParams = { PseudoOf(m) : m \in Leaves }
  BY DEF RootParams
<1>3. ASSUME NEW m \in Leaves
      PROVE  at[m] \in PseudoValues(m) /\ <<PseudoOf(m), at[m]>> \in r
  <2>1. PseudoOf(m) \in RootParams
    BY <1>2
  <2>2. <<PseudoOf(m), f[PseudoOf(m)]>> \in r /\ f[PseudoOf(m)] \in 0 .. PseudoValueCount(m) - 1
    BY <1>1, <2>1 DEF Gives
  <2> QED BY <2>2 DEF PseudoValues
<1> HIDE DEF at
<1>4. \A m \in Leaves : RowTerms(m, at[m]) \in RowsOf(Columns(m), parameters)
  BY <1>3 DEF LeafRight
<1>5. ASSUME NEW m \in Leaves, NEW n \in Leaves,
             NEW s \in RowTerms(m, at[m]), NEW t \in RowTerms(n, at[n]), s[1] = t[1]
      PROVE  s = t
  <2>1. CASE m = n
    BY <1>4, <1>5, <2>1, RowTermsOnce
  <2>2. CASE m # n
    <3> SUFFICES ASSUME s # t PROVE FALSE
      OBVIOUS
    <3>1. s = <<s[1], s[2]>> /\ t = <<t[1], t[2]>>
      BY <1>4, RowTermsOnce
    <3>2. s[2] # t[2]
      BY <1>5, <3>1
    <3>3. Apart(m, at[m], n, at[n])
      BY <1>5, <3>2 DEF Apart
    <3> DEFINE pair == {<<PseudoOf(m), at[m]>>, <<PseudoOf(n), at[n]>>}
    <3>4. m \in ToSet(models[Root].submodels) /\ n \in ToSet(models[Root].submodels)
      BY WiredFacts
    <3>5. pair \in Conflicts(models[Root].submodels)
      <4>1. at[m] \in PseudoValues(m)
        BY <1>3
      <4>2. at[n] \in { x \in PseudoValues(n) : m # n /\ Apart(m, at[m], n, x) }
        BY <1>3, <2>2, <3>3
      <4> DEFINE one(a, v, b) == { {<<PseudoOf(a), v>>, <<PseudoOf(b), w>>} :
                                     w \in { x \in PseudoValues(b) : a # b /\ Apart(a, v, b, x) } }
                 two(a, b) == UNION { one(a, v, b) : v \in PseudoValues(a) }
      <4>3. pair \in one(m, at[m], n)
        BY <4>2
      <4>4. Conflicts(models[Root].submodels) =
              UNION { two(a, b) : a \in ToSet(models[Root].submodels), b \in ToSet(models[Root].submodels) }
        BY DEF Conflicts
      <4> HIDE DEF one, pair
      <4>5. pair \in two(m, n)
        BY <4>1, <4>3
      <4> HIDE DEF two
      <4> QED BY <3>4, <4>4, <4>5
    <3>6. pair \subseteq r
      BY <1>3
    <3> QED BY <3>5, <3>6
  <2> QED BY <2>1, <2>2
<1>6. \A s, t \in Together(at) : s[1] = t[1] => s = t
  BY <1>5 DEF Together
<1>7. PicksOf(r, at)
  BY <1>3, <1>4, <1>6 DEF PicksOf
<1> QED BY <1>7

LEMMA TogetherIsRow ==
  ASSUME Sized, Wired, Leaves # {}, NEW r, NEW at, PicksOf(r, at)
  PROVE  Together(at) \in WholeRows
<1> DEFINE whole == Together(at)
           g == [p \in Indices(data) |-> CHOOSE v : <<p, v>> \in whole]
<1>1. ASSUME NEW t \in whole
      PROVE  t[1] \in Indices(data) /\ t = <<t[1], t[2]>> /\ t[2] \in 0 .. parameters[t[1]].valueCount - 1
  <2>1. PICK m \in Leaves : t \in RowTerms(m, at[m])
    BY DEF Together
  <2>2. RowTerms(m, at[m]) \in RowsOf(Columns(m), parameters)
    BY DEF PicksOf
  <2>3. t[1] \in Columns(m) /\ t = <<t[1], t[2]>> /\ t[2] \in 0 .. parameters[t[1]].valueCount - 1
    BY <2>1, <2>2, RowTermsOnce
  <2> QED BY <2>3 DEF Wired
<1>2. ASSUME NEW p \in Indices(data)
      PROVE  \E v : <<p, v>> \in whole
  <2>1. PICK m \in Leaves : p \in Columns(m)
    BY DEF Wired
  <2>2. RowTerms(m, at[m]) \in RowsOf(Columns(m), parameters)
    BY DEF PicksOf
  <2>3. PICK t \in RowTerms(m, at[m]) : t[1] = p
    BY <2>1, <2>2, RowTermsOnce
  <2>4. t \in whole
    BY <2>3 DEF Together
  <2>5. t = <<p, t[2]>>
    BY <1>1, <2>3, <2>4
  <2>6. <<p, t[2]>> \in whole
    BY <2>4, <2>5
  <2> HIDE DEF whole
  <2> QED BY <2>6
<1>3. \A s, t \in whole : s[1] = t[1] => s = t
  BY DEF PicksOf
<1> HIDE DEF whole
<1>4. \A p \in Indices(data) : <<p, g[p]>> \in whole
  BY <1>2
<1> HIDE DEF g
<1>5. ASSUME NEW t \in whole
      PROVE  t = <<t[1], g[t[1]]>>
  <2>1. <<t[1], g[t[1]]>> \in whole
    BY <1>1, <1>4
  <2>2. <<t[1], g[t[1]]>>[1] = t[1]
    OBVIOUS
  <2> QED BY <1>3, <2>1, <2>2
<1>6. whole = { <<p, g[p]>> : p \in Indices(data) }
  BY <1>1, <1>4, <1>5
<1>7. ASSUME NEW p \in Indices(data)
      PROVE  g[p] \in 0 .. parameters[p].valueCount - 1
  <2> DEFINE t == <<p, g[p]>>
  <2>1. t \in whole /\ t[1] = p /\ t[2] = g[p]
    BY <1>4
  <2> HIDE DEF t
  <2> QED BY <1>1, <2>1
<1>8. Gives(whole, g, Indices(data), parameters)
  BY <1>6, <1>7 DEF Gives
<1>9. whole \in RowsOf(Indices(data), parameters)
  BY <1>8, RowMade
<1> QED BY <1>9 DEF WholeRows, whole

(* An exclusion of the root in the whole row is, rewritten, in the row.    *)
LEMMA RewritingKeeps ==
  ASSUME Sized, Wired, Leaves # {}, NEW r, NEW at, PicksOf(r, at),
         NEW E, NEW e \in E, e \subseteq Together(at)
  PROVE  \E b \in MappedExclusions(E, models[Root].submodels) :
           b \subseteq r /\ (AtMostPair(e) => AtMostPair(b))
<1> DEFINE subs == models[Root].submodels
           n == Len(subs)
<1>1. /\ subs \in Seq(Int) /\ n \in Nat /\ \A k \in 1 .. n : subs[k] = k /\ k \in Leaves
      /\ \A m \in Leaves : m \in 1 .. n
  <2>1. subs \in Seq(Int) /\ Leaves = DOMAIN subs /\ \A i \in DOMAIN subs : subs[i] = i
    BY WiredFacts DEF Leaves
  <2> HIDE DEF subs
  <2> QED BY <2>1
<1> HIDE DEF subs
<1>2. PICK acc : /\ acc[0] = E
                 /\ \A k \in 1 .. n : acc[k] = UNION { Rewritten(b, subs[k]) : b \in acc[k - 1] }
                 /\ MappedExclusions(E, subs) = acc[n]
  BY <1>1, MappedSteps
<1> HIDE DEF n
<1> DEFINE Picked == { <<PseudoOf(m), at[m]>> : m \in Leaves }
           Left(t, k) == t \in e /\ \A j \in 1 .. k : t[1] \notin Columns(j)
           Short(b) == AtMostPair(e) => AtMostPair(b)
           G == { k \in 0 .. n : \E b \in acc[k] :
                    Short(b) /\ \A t \in b : t \in Picked \/ Left(t, k) }
<1>3. 0 \in G
  <2>1. 0 \in 0 .. n /\ \A t \in e : Left(t, 0)
    BY <1>1
  <2> HIDE DEF Left, Picked
  <2> QED BY <1>2, <2>1
<1>4. ASSUME NEW t \in Together(at), NEW m \in Leaves, t[1] \in Columns(m)
      PROVE  t \in RowTerms(m, at[m])
  <2>1. RowTerms(m, at[m]) \in RowsOf(Columns(m), parameters)
    BY DEF PicksOf
  <2>2. PICK s \in RowTerms(m, at[m]) : s[1] = t[1]
    BY <1>4, <2>1, RowTermsOnce
  <2>3. s \in Together(at)
    BY <2>2 DEF Together
  <2>4. s = t
    BY <2>2, <2>3 DEF PicksOf
  <2> QED BY <2>2, <2>4
<1>5. ASSUME NEW t \in Picked, NEW m \in Leaves
      PROVE  t \in r /\ t[1] \notin Columns(m)
  <2>1. PICK c \in Leaves : t = <<PseudoOf(c), at[c]>>
    BY <1>5
  <2>2. t[1] = PseudoOf(c) /\ t \in r
    BY <2>1 DEF PicksOf
  <2>3. IsPseudo(PseudoOf(c))
    BY WiredFacts
  <2>4. Columns(m) \subseteq Indices(data) /\ \A p \in Indices(data) : ~ IsPseudo(p)
    BY IndexFacts DEF Wired
  <2> QED BY <2>2, <2>3, <2>4
<1>6. ASSUME NEW k \in 1 .. n, k - 1 \in G
      PROVE  k \in G
  <2>1. PICK b \in acc[k - 1] : Short(b) /\ \A t \in b : t \in Picked \/ Left(t, k - 1)
    BY <1>6
  <2>2. k \in Leaves /\ subs[k] = k /\ k \in 0 .. n /\ 1 .. k = 1 .. (k - 1) \cup {k}
    BY <1>1
  <2>3. at[k] \in PseudoValues(k) /\ <<PseudoOf(k), at[k]>> \in Picked
    BY <2>2 DEF PicksOf
  <2>4. Related(b, k) = { t \in b : t[1] \in Columns(k) }
    BY DEF Related, Columns
  <2>5. Related(b, k) \subseteq RowTerms(k, at[k])
    <3> SUFFICES ASSUME NEW t \in b, t[1] \in Columns(k) PROVE t \in RowTerms(k, at[k])
      BY <2>4
    <3>1. t \in e
      BY <1>5, <2>1, <2>2
    <3> QED BY <1>4, <2>2, <3>1
  <2>6. \A t \in b : t[1] \notin Columns(k) => t \in Picked \/ Left(t, k)
    <3> SUFFICES ASSUME NEW t \in b, t[1] \notin Columns(k), t \notin Picked PROVE Left(t, k)
      OBVIOUS
    <3>1. Left(t, k - 1)
      BY <2>1
    <3> QED BY <2>2, <3>1
  <2> HIDE DEF Left, Picked
  <2>7. acc[k] = UNION { Rewritten(d, k) : d \in acc[k - 1] }
    BY <1>2, <2>2
  <2>8. CASE Related(b, k) = {}
    <3>1. b \in Rewritten(b, k)
      BY <2>8 DEF Rewritten
    <3>2. b \in acc[k]
      BY <2>1, <2>7, <3>1
    <3>3. \A t \in b : t[1] \notin Columns(k)
      BY <2>4, <2>8
    <3> QED BY <2>1, <2>2, <2>6, <3>2, <3>3
  <2>9. CASE Related(b, k) # {}
    <3> DEFINE d == (b \ Related(b, k)) \cup {<<PseudoOf(k), at[k]>>}
    <3>1. d \in Rewritten(b, k)
      BY <2>3, <2>5, <2>9 DEF Rewritten
    <3>2. \A t \in d : t \in Picked \/ Left(t, k)
      BY <2>3, <2>4, <2>6
    <3>4. Short(d)
      <4>1. Related(b, k) \subseteq b
        BY <2>4
      <4> QED BY <2>1, <2>9, <4>1, RewritingShortens
    <3> HIDE DEF d
    <3>3. d \in acc[k]
      BY <2>1, <2>7, <3>1
    <3> QED BY <2>2, <3>2, <3>3, <3>4
  <2> QED BY <2>8, <2>9
<1>7. n \in G
  <2>1. n \in 0 .. n
    BY <1>1
  <2> HIDE DEF G
  <2> QED BY <1>1, <1>3, <1>6, <2>1, UpTo
<1>8. PICK b \in acc[n] : Short(b) /\ \A t \in b : t \in Picked \/ Left(t, n)
  BY <1>7
<1>9. ASSUME NEW t \in b
      PROVE  t \in r
  <2>1. PICK m \in Leaves : TRUE
    OBVIOUS
  <2> SUFFICES ASSUME Left(t, n), t \notin Picked PROVE FALSE
    BY <1>5, <1>8, <2>1
  <2>2. Together(at) \in WholeRows
    BY TogetherIsRow
  <2>3. t[1] \in Indices(data)
    BY <2>2, RowTermsOnce DEF WholeRows
  <2>4. PICK c \in Leaves : t[1] \in Columns(c)
    BY <2>3 DEF Wired
  <2> QED BY <1>1, <2>4
<1>10. MappedExclusions(E, subs) = acc[n]
  BY <1>2
<1> QED BY <1>8, <1>9, <1>10 DEF subs

LEMMA NothingMapped ==
  ASSUME NEW E
  PROVE  MappedExclusions(E, <<>>) = E /\ Conflicts(<<>>) = {} /\ ~ ExclusionsMapped(E, <<>>)
<1> DEFINE none == <<>>
<1>1. none \in Seq(Int) /\ Len(none) = 0
  OBVIOUS
<1>2. MappedExclusions(E, none) = E
  <2> HIDE DEF none
  <2>1. PICK acc : /\ acc[0] = E
                   /\ \A k \in 1 .. Len(none) :
                        acc[k] = UNION { Rewritten(e, none[k]) : e \in acc[k - 1] }
                   /\ MappedExclusions(E, none) = acc[Len(none)]
    BY <1>1, MappedSteps
  <2> QED BY <1>1, <2>1
<1>3. Conflicts(<<>>) = {}
  BY DEF Conflicts, ToSet
<1>4. ~ ExclusionsMapped(E, <<>>)
  BY DEF ExclusionsMapped
<1> QED BY <1>2, <1>3, <1>4

LEMMA ConflictsArePairs ==
  ASSUME NEW subs, NEW b \in Conflicts(subs), PairsRespected(Root, data)
  PROVE  RespectedIn(b, Root, data)
<1>1. AtMostPair(b)
  BY DEF Conflicts, AtMostPair
<1> QED BY <1>1, LessRespected DEF PairsRespected

LEMMA RowStands ==
  ASSUME Sized, Wired, Shaped, Housed, PairsRespected(Root, data), \A m \in Leaves : LeafRight(m),
         NEW known, \A m \in Leaves : known[PseudoOf(m)].valueCount = PseudoValueCount(m),
         \A p \in Indices(data) : known[p].valueCount = parameters[p].valueCount,
         NEW r \in RowsOf(RootParams, known),
         \A b \in Mapped(Root) : RespectedIn(b, Root, data) => ~ (b \subseteq r)
  PROVE  \E whole \in WholeRows : StandsFor(r, whole) /\ Free(whole)
<1>0. /\ \A e : RespectedEverywhere(e, data) => RespectedIn(e, Root, data)
      /\ \A e : RespectedEverywhere(e, data) => \A m \in Leaves : RespectedIn(e, m, data)
  BY WiredFacts DEF RespectedEverywhere, Shaped
<1>1. CASE Leaves = {}
  <2>1. r \in WholeRows
    <3>1. RowsOf(Indices(data), known) = RowsOf(Indices(data), parameters)
      BY RowsAlike
    <3> QED BY <1>1, <3>1 DEF RootParams, WholeRows
  <2>2. models[Root].submodels = <<>>
    BY <1>1, WiredFacts DEF Leaves
  <2>3. Mapped(Root) = models[Root].exclusions
    BY <2>2, NothingMapped DEF Mapped
  <2>4. \A e \in task.exclusions : e \in models[Root].exclusions
    BY <1>1 DEF Housed
  <2>5. Free(r)
    BY <1>0, <2>3, <2>4 DEF Free
  <2> QED BY <1>1, <2>1, <2>5 DEF StandsFor
<1>2. CASE Leaves # {}
  <2>1. ~ \E b \in Conflicts(models[Root].submodels) : b \subseteq r
    BY ConflictsArePairs DEF Mapped
  <2>2. PICK at : PicksOf(r, at)
    BY <1>2, <2>1, PicksMade
  <2> DEFINE whole == Together(at)
  <2>3. whole \in WholeRows
    BY <1>2, <2>2, TogetherIsRow
  <2>4. StandsFor(r, whole)
    <3>1. ASSUME NEW m \in Leaves
          PROVE  \E v \in PseudoValues(m) : <<PseudoOf(m), v>> \in r /\ RowTerms(m, v) \subseteq whole
      <4>1. RowTerms(m, at[m]) \subseteq whole
        BY DEF Together
      <4> QED BY <2>2, <4>1 DEF PicksOf
    <3> HIDE DEF whole
    <3> QED BY <1>2, <3>1 DEF StandsFor
  <2>5. ASSUME NEW e \in task.exclusions, RespectedEverywhere(e, data), e \subseteq whole
        PROVE  FALSE
    <3>1. CASE e \in models[Root].exclusions
      <4>1. PICK b \in MappedExclusions(models[Root].exclusions, models[Root].submodels) :
              b \subseteq r /\ (AtMostPair(e) => AtMostPair(b))
        BY <1>2, <2>2, <2>5, <3>1, RewritingKeeps
      <4>2. RespectedIn(b, Root, data)
        BY <1>0, <2>5, <4>1, LessRespected
      <4> QED BY <4>1, <4>2 DEF Mapped
    <3>2. CASE \E m \in Leaves : e \in models[m].exclusions /\ ParamsOf(e) \subseteq Columns(m)
      <4>1. PICK m \in Leaves : e \in models[m].exclusions /\ ParamsOf(e) \subseteq Columns(m)
        BY <3>2
      <4>2. RowTerms(m, at[m]) \in RowsOf(Columns(m), parameters) /\ at[m] \in PseudoValues(m)
        BY <2>2 DEF PicksOf
      <4>3. e \subseteq RowTerms(m, at[m])
        <5> SUFFICES ASSUME NEW t \in e PROVE t \in RowTerms(m, at[m])
          OBVIOUS
        <5>1. t[1] \in Columns(m) /\ t \in whole
          BY <2>5, <4>1 DEF ParamsOf
        <5>2. PICK s \in RowTerms(m, at[m]) : s[1] = t[1]
          BY <4>2, <5>1, RowTermsOnce
        <5>3. s \in Together(at)
          BY <5>2 DEF Together
        <5>4. s = t
          BY <2>2, <5>1, <5>2, <5>3 DEF PicksOf
        <5> QED BY <5>2, <5>4
      <4>4. Valid(m, RowTerms(m, at[m]))
        BY <4>2 DEF LeafRight
      <4> QED BY <1>0, <2>5, <4>1, <4>3, <4>4 DEF Valid
    <3> QED BY <3>1, <3>2 DEF Housed
  <2> HIDE DEF whole
  <2>6. Free(whole)
    BY <2>5 DEF Free
  <2> QED BY <2>3, <2>4, <2>6
<1> QED BY <1>1, <1>2

-----------------------------------------------------------------------------
(* Generate *)

KnownOf(m, before) ==
  [p \in DOMAIN before \cup PseudosOf(m) |->
     IF p \in PseudosOf(m)
       THEN [sequence |-> p, order |-> models[m].order, isResult |-> FALSE,
             valueCount |-> PseudoValueCount(p - PseudoBase)]
       ELSE before[p]]

ListOf(m) ==
  models[m].parameters \o [i \in DOMAIN models[m].submodels |-> PseudoOf(models[m].submodels[i])]

LEMMA GeneratedModel ==
  ASSUME NEW m \in DOMAIN models, IsModel(models[m]), NEW before, Generated(m, before)
  PROVE  /\ parameters' = KnownOf(m, before)
         /\ DOMAIN models' = DOMAIN models
         /\ \A n \in DOMAIN models : n # m => models'[n] = models[n]
         /\ IsModel(models'[m]) /\ models'[m].order = models[m].order
         /\ models'[m].submodels = models[m].submodels /\ models'[m].results = <<>>
         /\ models'[m].rowSeeds = MappedSeeds(models[m].rowSeeds, models[m].submodels)
         /\ models'[m].parameters = ByOrder(ListOf(m), KnownOf(m, before))
         /\ \/ models'[m].exclusions = Mapped(m)
            \/ /\ models'[m].exclusions = Derived(m, Mapped(m), KnownOf(m, before))
               /\ \/ ExclusionsMapped(models[m].exclusions, models[m].submodels)
                  \/ Conflicts(models[m].submodels) # {}
<1> DEFINE derive == \/ ExclusionsMapped(models[m].exclusions, models[m].submodels)
                     \/ Conflicts(models[m].submodels) # {}
           E == IF derive THEN Derived(m, Mapped(m), KnownOf(m, before)) ELSE Mapped(m)
           sorted == ByOrder(ListOf(m), KnownOf(m, before))
           seeds == MappedSeeds(models[m].rowSeeds, models[m].submodels)
<1>1. /\ parameters' = KnownOf(m, before)
      /\ models' = [models EXCEPT ![m].parameters = sorted, ![m].exclusions = E,
                                  ![m].rowSeeds = seeds, ![m].results = <<>>]
  BY DEF Generated, KnownOf, ListOf, Mapped, Derives, PseudosOf
<1>2. E = Mapped(m) \/ (derive /\ E = Derived(m, Mapped(m), KnownOf(m, before)))
  OBVIOUS
<1> HIDE DEF E, sorted, seeds
<1>3. /\ models'[m] = [order |-> models[m].order, parameters |-> sorted,
                       submodels |-> models[m].submodels, exclusions |-> E,
                       rowSeeds |-> seeds, results |-> <<>>]
      /\ \A n \in DOMAIN models : n # m => models'[n] = models[n]
      /\ DOMAIN models' = DOMAIN models
  <2>1. models' = Edited(models, m, sorted, E, seeds, <<>>)
    BY <1>1 DEF Edited
  <2> QED BY <2>1, ModelEdited
<1>4. /\ IsModel(models'[m]) /\ models'[m].order = models[m].order
      /\ models'[m].submodels = models[m].submodels /\ models'[m].results = <<>>
      /\ models'[m].parameters = sorted /\ models'[m].exclusions = E
      /\ models'[m].rowSeeds = seeds
  BY <1>3 DEF IsModel
<1> QED BY <1>1, <1>2, <1>3, <1>4 DEF sorted, seeds

LEMMA FixedParameters ==
  ASSUME Sized, Wired, Shaped, NEW m \in DOMAIN models, NEW fixed, fixed = FixParamOrder(m)
  PROVE  /\ DOMAIN fixed = DOMAIN parameters
         /\ \A p \in Indices(data) : p \in Columns(m) => fixed[p].order = OrderIn(p, m, data)
         /\ \A p \in Indices(data) :
              /\ p \in DOMAIN fixed /\ fixed[p].order \in Int
              /\ fixed[p] = [parameters[p] EXCEPT !.order = fixed[p].order]
<1>1. DOMAIN fixed = DOMAIN parameters
  BY DEF FixParamOrder
<1>2. ASSUME NEW p \in Indices(data)
      PROVE  /\ p \in DOMAIN fixed /\ fixed[p].order \in Int
             /\ fixed[p] = [parameters[p] EXCEPT !.order = fixed[p].order]
             /\ p \in Columns(m) => fixed[p].order = OrderIn(p, m, data)
  <2>1. Indexed(p) /\ models[m].order \in Int /\ ~ IsPseudo(p) /\ p + 1 \in DOMAIN data.parameters
    BY IndexFacts DEF Wired
  <2> DEFINE q == parameters[p]
             b == data.parameters[p + 1].isResult
             n == Len(data.parameters[p + 1].values)
             o == IF parameters[p].isResult THEN 1
                  ELSE IF p \notin ToSet(models[m].parameters) THEN UndefinedOrder
                  ELSE IF m = Root /\ data.parameters[p + 1].order # UndefinedOrder
                    THEN data.parameters[p + 1].order ELSE models[m].order
  <2>2. q = [sequence |-> p, order |-> q.order, isResult |-> b, valueCount |-> n]
    BY <2>1 DEF Indexed
  <2>3. fixed[p] = [q EXCEPT !.order = o] /\ p \in DOMAIN fixed
    BY <1>1, <2>1 DEF FixParamOrder, Indexed
  <2>4. o \in Int
    <3>1. data.parameters[p + 1].order \in Int
      <4>1. data.parameters[p + 1] \in ParameterData
        BY <2>1, IndexFacts
      <4> QED BY <4>1 DEF ParameterData
    <3> HIDE DEF q, b, n
    <3> QED BY <2>1, <3>1, OrderAssumption
  <2>7. p \in Columns(m) => o = OrderIn(p, m, data)
    <3>1. TranslatedModels(data)[m].order = models[m].order
      BY DEF Shaped
    <3>2. q.isResult = b
      BY <2>2
    <3> QED BY <2>1, <3>1, <3>2 DEF OrderIn, Columns
  <2> HIDE DEF q, b, n, o
  <2>5. [q EXCEPT !.order = o] = [sequence |-> p, order |-> o, isResult |-> b, valueCount |-> n]
    BY <2>2, Reordered1
  <2>6. fixed[p].order = o
    BY <2>3, <2>5
  <2> QED BY <2>3, <2>4, <2>6, <2>7 DEF q
<1> QED BY <1>1, <1>2

LEMMA ListFacts ==
  ASSUME Sized, Wired, NEW m \in DOMAIN models,
         models[m].parameters \in Seq(Int), IsInjective(models[m].parameters),
         Columns(m) \subseteq Indices(data)
  PROVE  /\ ListOf(m) \in Seq(Int) /\ IsInjective(ListOf(m))
         /\ ToSet(ListOf(m)) = Columns(m) \cup PseudosOf(m)
         /\ \A p \in PseudosOf(m) : IsPseudo(p) /\ p \in Int
         /\ \A p \in Indices(data) : p \notin PseudosOf(m)
<1> DEFINE subs == models[m].submodels
           list == [i \in DOMAIN subs |-> PseudoOf(subs[i])]
<1>1. /\ subs \in Seq(Leaves) /\ \A i \in DOMAIN subs : subs[i] = i
  <2>1. CASE m = Root
    BY <2>1, WiredFacts
  <2>2. CASE m \in Leaves
    <3>1. subs = <<>>
      BY <2>2 DEF Wired
    <3> QED BY <3>1
  <2> QED BY <2>1, <2>2 DEF Wired
<1> HIDE DEF subs
<1>2. ASSUME NEW i \in DOMAIN subs
      PROVE  /\ IsPseudo(PseudoOf(subs[i])) /\ PseudoOf(subs[i]) \in Int
             /\ PseudoOf(subs[i]) = PseudoBase + i /\ i \in Int
  BY <1>1, WiredFacts DEF PseudoOf
<1>3. DOMAIN subs = 1 .. Len(subs) /\ Len(subs) \in Nat
  BY <1>1
<1>4. list \in Seq(Int) /\ DOMAIN list = DOMAIN subs
  BY <1>2, <1>3
<1>5. ToSet(list) = PseudosOf(m)
  BY DEF ToSet, PseudosOf, subs
<1>6. IsInjective(list)
  <2>1. \A i \in DOMAIN list : list[i] = PseudoBase + i /\ i \in Int
    BY <1>2
  <2> HIDE DEF list
  <2> QED BY <2>1, TreeAssumption DEF IsInjective
<1>7. \A p \in PseudosOf(m) : IsPseudo(p) /\ p \in Int
  BY <1>2 DEF PseudosOf, ToSet, subs
<1>8. \A p \in Indices(data) : p \notin PseudosOf(m)
  BY <1>7, IndexFacts
<1> HIDE DEF list
<1>9. ListOf(m) = models[m].parameters \o list
  BY DEF ListOf, list, subs
<1>10. ToSet(models[m].parameters) \cap ToSet(list) = {}
  BY <1>5, <1>8 DEF Columns
<1> QED BY <1>4, <1>5, <1>6, <1>7, <1>8, <1>9, <1>10, ConcatSets, ConcatOnce DEF Columns

(* What Generate leaves of the tree, for the root and for a leaf.          *)
LEMMA GenerateKeepsTree ==
  ASSUME Sized, Wired, Shaped, data' = data, options' = options, task' = task, NEW m \in DOMAIN models,
         SeedsKnown(m), \A c \in ToSet(models[m].submodels) : Len(models[c].results) \in Nat,
         models[m].parameters \in Seq(Int), IsInjective(models[m].parameters),
         Columns(m) \subseteq Indices(data),
         Generated(m, FixParamOrder(m))
  PROVE  /\ Wired' /\ SameTree
         /\ models'[m].parameters \in Seq(Int) /\ IsInjective(models'[m].parameters)
         /\ ToSet(models'[m].parameters) = Columns(m) \cup PseudosOf(m)
         /\ \A p \in Indices(data) : parameters'[p].valueCount = parameters[p].valueCount
         /\ \A c \in ToSet(models[m].submodels) :
              parameters'[PseudoOf(c)].valueCount = PseudoValueCount(c)
         /\ \A p \in ToSet(models'[m].parameters) : parameters'[p].order = OrderIn(p, m, data)
         /\ SeedsKnown(m)'
<1> DEFINE fixed == FixParamOrder(m)
           known == KnownOf(m, fixed)
<1>1. IsModel(models[m]) /\ models[m].order \in Int
  BY DEF Wired
<1> HIDE DEF fixed
<1>2. /\ parameters' = known
      /\ DOMAIN models' = DOMAIN models
      /\ \A n \in DOMAIN models : n # m => models'[n] = models[n]
      /\ IsModel(models'[m]) /\ models'[m].order = models[m].order
      /\ models'[m].submodels = models[m].submodels
      /\ models'[m].parameters = ByOrder(ListOf(m), known)
      /\ models'[m].rowSeeds = MappedSeeds(models[m].rowSeeds, models[m].submodels)
  BY <1>1, GeneratedModel DEF fixed
<1>3. /\ DOMAIN fixed = DOMAIN parameters
      /\ \A p \in Indices(data) :
           /\ p \in DOMAIN fixed /\ fixed[p].order \in Int
           /\ fixed[p] = [parameters[p] EXCEPT !.order = fixed[p].order]
           /\ p \in Columns(m) => fixed[p].order = OrderIn(p, m, data)
  BY FixedParameters DEF fixed
<1>4. /\ ListOf(m) \in Seq(Int) /\ IsInjective(ListOf(m))
      /\ ToSet(ListOf(m)) = Columns(m) \cup PseudosOf(m)
      /\ \A p \in PseudosOf(m) : IsPseudo(p)
      /\ \A p \in Indices(data) : p \notin PseudosOf(m)
  BY ListFacts
<1>5. \A p \in Indices(data) : p \in DOMAIN known /\ known[p] = fixed[p]
  BY <1>3, <1>4 DEF KnownOf
<1>6. \A p \in PseudosOf(m) : known[p] = [sequence |-> p, order |-> models[m].order, isResult |-> FALSE,
                                       valueCount |-> PseudoValueCount(p - PseudoBase)]
  BY DEF KnownOf
<1> HIDE DEF known
<1>7. \A p \in ToSet(ListOf(m)) : known[p].order \in Int
  <2>1. \A p \in PseudosOf(m) : known[p].order \in Int
    <3> TAKE p \in PseudosOf(m)
    <3>1. known[p] = [sequence |-> p, order |-> models[m].order, isResult |-> FALSE,
                      valueCount |-> PseudoValueCount(p - PseudoBase)]
      BY <1>6
    <3> QED BY <1>1, <3>1
  <2>2. \A p \in Columns(m) : known[p].order \in Int
    BY <1>3, <1>5
  <2> QED BY <1>4, <2>1, <2>2
<1>8. /\ models'[m].parameters \in Seq(Int) /\ IsInjective(models'[m].parameters)
      /\ ToSet(models'[m].parameters) = Columns(m) \cup PseudosOf(m)
  <2> DEFINE list == ListOf(m)
  <2>1. /\ ByOrder(list, known) \in Seq(Int) /\ ToSet(ByOrder(list, known)) = ToSet(list)
        /\ IsInjective(ByOrder(list, known))
    BY <1>4, <1>7, SortedByOrder
  <2> HIDE DEF list
  <2>2. models'[m].parameters = ByOrder(list, known) /\ ToSet(list) = Columns(m) \cup PseudosOf(m)
    BY <1>2, <1>4 DEF list
  <2> QED BY <2>1, <2>2
<1>9. Wired' /\ SameTree
  <2>1. \A n \in DOMAIN models : /\ IsModel(models'[n]) /\ models'[n].order = models[n].order
                                 /\ models'[n].submodels = models[n].submodels
    BY <1>2 DEF Wired
  <2>2. ASSUME NEW n \in Leaves
        PROVE  /\ models'[n].parameters \in Seq(Int) /\ IsInjective(models'[n].parameters)
               /\ ToSet(models'[n].parameters) = ToSet(models[n].parameters)
    <3>1. n \in DOMAIN models
      BY WiredFacts
    <3>2. CASE n # m
      BY <1>2, <3>1, <3>2 DEF Wired
    <3>3. CASE n = m
      <4>1. PseudosOf(m) = {}
        BY <3>3 DEF Wired, PseudosOf, ToSet
      <4> QED BY <1>8, <3>3, <4>1 DEF Columns
    <3> QED BY <3>2, <3>3
  <2>3. \A p \in Indices(data) : p \in DOMAIN parameters' /\ parameters'[p].order \in Int
               /\ parameters'[p] = [parameters[p] EXCEPT !.order = parameters'[p].order]
    BY <1>2, <1>3, <1>5
  <2>4. IsTask(task') /\ task'.root = task.root
    BY DEF Wired
  <2> QED BY <1>2, <2>1, <2>2, <2>3, <2>4, WiredStays
<1>10. ASSUME NEW p \in Indices(data)
       PROVE  parameters'[p].valueCount = parameters[p].valueCount
  <2>1. Indexed(p) /\ Indexed(p)'
    BY <1>9 DEF Wired, SameTree
  <2> QED BY <2>1 DEF Indexed
<1>11. ASSUME NEW c \in ToSet(models[m].submodels)
       PROVE  parameters'[PseudoOf(c)].valueCount = PseudoValueCount(c)
  <2>1. PseudoOf(c) \in PseudosOf(m)
    BY DEF PseudosOf
  <2>2. c \in Leaves
    <3>1. CASE m = Root
      BY <3>1, WiredFacts
    <3>2. CASE m \in Leaves
      BY <3>2 DEF Wired, ToSet
    <3> QED BY <3>1, <3>2 DEF Wired
  <2>3. PseudoOf(c) - PseudoBase = c
    BY <2>2, WiredFacts
  <2>4. known[PseudoOf(c)] = [sequence |-> PseudoOf(c), order |-> models[m].order, isResult |-> FALSE,
                              valueCount |-> PseudoValueCount(PseudoOf(c) - PseudoBase)]
    BY <1>6, <2>1
  <2> QED BY <1>2, <2>3, <2>4
<1>12. ASSUME NEW p \in Columns(m) \cup PseudosOf(m)
       PROVE  parameters'[p].order = OrderIn(p, m, data)
  <2>1. CASE p \in Columns(m)
    BY <1>2, <1>3, <1>5, <2>1
  <2>2. CASE p \in PseudosOf(m)
    <3>1. known[p] = [sequence |-> p, order |-> models[m].order, isResult |-> FALSE,
                      valueCount |-> PseudoValueCount(p - PseudoBase)]
      BY <1>6, <2>2
    <3>2. known[p].order = models[m].order
      BY <3>1
    <3>3. OrderIn(p, m, data) = TranslatedModels(data)[m].order
      BY <1>4, <2>2 DEF OrderIn
    <3> QED BY <1>2, <3>2, <3>3 DEF Shaped
  <2> QED BY <2>1, <2>2
<1>13. SeedsKnown(m)'
  <2>1. PICK A : models[m].rowSeeds \in Seq(A) /\ (task.rowSeeds = <<>> => models[m].rowSeeds = <<>>)
    BY DEF SeedsKnown
  <2>2. models[m].submodels \in Seq(Int)
    <3>1. CASE m = Root
      BY <3>1, WiredFacts
    <3>2. CASE m \in Leaves
      <4>1. models[m].submodels = <<>>
        BY <3>2 DEF Wired
      <4> QED BY <4>1
    <3> QED BY <3>1, <3>2 DEF Wired
  <2> DEFINE mapped == MappedSeeds(models[m].rowSeeds, models[m].submodels)
  <2>3. mapped \in Seq(ToSet(mapped)) /\ (models[m].rowSeeds = <<>> => mapped = <<>>)
    BY <2>1, <2>2, SeedsMapped
  <2> HIDE DEF mapped
  <2>4. models'[m].rowSeeds = mapped
    BY <1>2 DEF mapped
  <2> QED BY <2>1, <2>3, <2>4 DEF SeedsKnown
<1> QED BY <1>8, <1>9, <1>10, <1>11, <1>12, <1>13

(* The root, before it is generated, has all parameters or only leaves.    *)
LEMMA RootList ==
  ASSUME Sized, Wired,
         models[Root].parameters = IF Leaves = {} THEN [n \in DOMAIN data.parameters |-> n - 1] ELSE <<>>
  PROVE  /\ models[Root].parameters \in Seq(Int) /\ IsInjective(models[Root].parameters)
         /\ Columns(Root) \subseteq Indices(data)
         /\ Columns(Root) \cup PseudosOf(Root) = RootParams
<1>1. PseudosOf(Root) = { PseudoOf(m) : m \in Leaves }
  BY WiredFacts DEF PseudosOf
<1>2. CASE Leaves = {}
  <2> DEFINE all == [n \in DOMAIN data.parameters |-> n - 1]
  <2>1. AllParameters(Root) = Columns(Root) \cup UNION { Columns(m) : m \in Leaves }
    BY ParametersOfTree
  <2>2. Columns(Root) = Indices(data)
    BY <1>2, <2>1, RootHasAll
  <2>3. all \in Seq(Int) /\ IsInjective(all)
    <3>1. all \in Seq(Int)
      <4>1. DOMAIN data.parameters = 1 .. Len(data.parameters) /\ Len(data.parameters) \in Nat
        BY IndexFacts
      <4>2. \A k \in Nat : [i \in 1 .. k |-> i - 1] \in Seq(Int)
        OBVIOUS
      <4>3. all = [i \in 1 .. Len(data.parameters) |-> i - 1]
        BY <4>1
      <4> HIDE DEF all
      <4> QED BY <4>1, <4>2, <4>3
    <3>2. \A i \in DOMAIN all : all[i] = i - 1 /\ i \in Int
      BY IndexFacts
    <3> HIDE DEF all
    <3> QED BY <3>1, <3>2 DEF IsInjective
  <2> HIDE DEF all
  <2>4. models[Root].parameters = all
    BY <1>2 DEF all
  <2> QED BY <1>1, <1>2, <2>2, <2>3, <2>4 DEF RootParams
<1>3. CASE Leaves # {}
  <2>1. models[Root].parameters = <<>> /\ Columns(Root) = {}
    BY <1>3 DEF Columns, ToSet
  <2> QED BY <1>1, <1>3, <2>1 DEF RootParams, IsInjective
<1> QED BY <1>2, <1>3

LEMMA OrdersStay ==
  ASSUME data' = data, options' = options
  PROVE  \A p, m : OrderIn(p, m, data)' = OrderIn(p, m, data)
BY TranslationStays DEF OrderIn, IsPseudo

(* The model in gcd has its orders and its seeds.                          *)
LEMMA ModelEnters ==
  ASSUME Sized, Walking, data' = data, options' = options, task' = task, calls' = calls, Wired', SameTree,
         \A m \in DOMAIN models : m # Top.model => models'[m] = models[m],
         \A m \in {Top.model} : SeedsKnown(m)',
         \A p \in ToSet(models'[Top.model].parameters) : parameters'[p].order = OrderIn(p, Top.model, data)
  PROVE  (\A m \in DOMAIN models : SeedsKnown(m))' /\ InOrders' /\ Shaped'
<1>1. Shaped' /\ \A m \in DOMAIN models : m # Top.model => SeedsKnown(m)'
  BY RestStays
<1>2. DOMAIN models' = DOMAIN models
  BY DEF Wired, SameTree, Walking
<1>3. \A m \in DOMAIN models : SeedsKnown(m)'
  BY <1>1
<1>4. InOrders'
  <2>1. MyParams' = ToSet(models'[Top.model].parameters) /\ Top' = Top
    BY DEF MyParams, Self, Top
  <2> QED BY <2>1, OrdersStay DEF InOrders
<1> QED BY <1>1, <1>2, <1>3, <1>4

LEMMA LeafGenerated ==
  ASSUME Sized, Walking, data' = data, options' = options, task' = task, Top.model \in Leaves, Wired', SameTree,
         calls' = calls, pc' = "gcd", bound' = {},
         \A m \in {Top.model} : SeedsKnown(m)',
         \A p \in ToSet(models'[Top.model].parameters) : parameters'[p].order = OrderIn(p, Top.model, data),
         \A m \in DOMAIN models : m # Top.model => models'[m] = models[m],
         models'[Top.model].exclusions = models[Top.model].exclusions,
         models'[Top.model].results = <<>>
  PROVE  Walking'
<1>1. Wired /\ CallsRight
  BY DEF Walking
<1>2. Len(calls) = 2 /\ RootFresh
  BY <1>1, Frames DEF Walking
<1>3. CallsRight'
  <2> DEFINE R == [model : {Root} \cup Leaves, left : Seq(Leaves)]
  <2>1. Top' = Top
    BY DEF Top
  <2>2. R' = R
    BY DEF SameTree
  <2>3. calls \in Seq(R) /\ calls[1].model = Root /\ Top.left = <<>>
    BY <1>1, <1>2 DEF CallsRight
  <2> HIDE DEF R
  <2>4. calls' \in Seq(R') /\ Len(calls') = 2 /\ calls'[1].model = Root
    BY <1>2, <2>2, <2>3
  <2> QED BY <2>1, <2>3, <2>4 DEF CallsRight, R, SameTree
<1>4. GivenCovered' /\ RootFresh' /\ \A m \in Leaves : m # Top.model => LeafRight(m)'
  BY <1>2, RestStays
<1>5. \A m \in {Top.model} : LeafRight(m)'
  <2> TAKE m \in {Top.model}
  <2>1. models'[m].results = <<>>
    OBVIOUS
  <2>2. PseudoValues(m)' = {}
    BY <2>1 DEF PseudoValues, PseudoValueCount
  <2> QED BY <2>1, <2>2 DEF LeafRight, ToSet
<1>6. (\A m \in Leaves : LeafRight(m))'
  <2>1. \A m \in Leaves : LeafRight(m)'
    BY <1>4, <1>5
  <2> QED BY <2>1 DEF SameTree
<1>7. Len(calls') = 2 /\ pc' # "walk" /\ pc' # "rows"
  BY <1>2
<1>8. (\A m \in DOMAIN models : SeedsKnown(m))' /\ InOrders' /\ Shaped'
  BY ModelEnters
<1> QED BY <1>3, <1>4, <1>6, <1>7, <1>8 DEF Walking

(* A row stands for the same whole rows as long as the leaves' rows stay.  *)
LEMMA StandsForStays ==
  ASSUME Leaves' = Leaves,
         \A m \in Leaves : /\ PseudoValues(m)' = PseudoValues(m)
                           /\ \A v : RowTerms(m, v)' = RowTerms(m, v)
  PROVE  \A r, whole : StandsFor(r, whole)' <=> StandsFor(r, whole)
<1> TAKE r, whole
<1>1. \A m : PseudoOf(m)' = PseudoOf(m)
  BY DEF PseudoOf
<1>2. CASE Leaves = {}
  BY <1>2 DEF StandsFor
<1>3. CASE Leaves # {}
  <2> DEFINE Stands(m) == \E v \in PseudoValues(m) :
                            <<PseudoOf(m), v>> \in r /\ RowTerms(m, v) \subseteq whole
  <2>1. \A m \in Leaves : Stands(m)' <=> Stands(m)
    BY <1>1
  <2>2. StandsFor(r, whole) <=> \A m \in Leaves : Stands(m)
    BY <1>3 DEF StandsFor
  <2>3. StandsFor(r, whole)' <=> \A m \in Leaves : Stands(m)'
    BY <1>3 DEF StandsFor
  <2> HIDE DEF Stands
  <2> QED BY <2>1, <2>2, <2>3
<1> QED BY <1>2, <1>3

(* Before the root, its pseudo-parameters stand for rows of its leaves.    *)
LEMMA RootGenerated ==
  ASSUME Sized, Walking, data' = data, options' = options, task' = task, Top.model = Root, RootFresh,
         Wired', SameTree, calls' = calls, pc' = "gcd", bound' = {},
         \A m \in {Top.model} : SeedsKnown(m)',
         \A p \in ToSet(models'[Root].parameters) : parameters'[p].order = OrderIn(p, Root, data),
         \A m \in DOMAIN models : m # Root => models'[m] = models[m],
         models'[Root].parameters \in Seq(Int), IsInjective(models'[Root].parameters),
         ToSet(models'[Root].parameters) = RootParams,
         models'[Root].results = <<>>,
         \/ models'[Root].exclusions = Mapped(Root)
         \/ models'[Root].exclusions = Derived(Root, Mapped(Root), parameters'),
         \A p \in Indices(data) : parameters'[p].valueCount = parameters[p].valueCount,
         \A m \in Leaves : parameters'[PseudoOf(m)].valueCount = PseudoValueCount(m)
  PROVE  Walking'
<1>1. Wired /\ CallsRight /\ \A m \in Leaves : LeafRight(m)
  BY DEF Walking
<1>2. Len(calls) = 1 /\ Leaves \subseteq DOMAIN models /\ Root \notin Leaves /\ IsFiniteSet(Leaves)
  BY <1>1, Frames, WiredFacts
<1>3. CallsRight'
  <2> DEFINE R == [model : {Root} \cup Leaves, left : Seq(Leaves)]
  <2>1. R' = R
    BY DEF SameTree
  <2>2. calls \in Seq(R) /\ calls[1].model = Root
    BY <1>1, <1>2 DEF CallsRight
  <2> HIDE DEF R
  <2>3. calls' \in Seq(R') /\ Len(calls') = 1 /\ calls'[1].model = Root
    BY <1>2, <2>1, <2>2
  <2> QED BY <2>3 DEF CallsRight, R
<1>4. GivenCovered' /\ (\A m \in Leaves : m # Top.model => LeafRight(m)') /\ \A r : Free(r)' <=> Free(r)
  BY RestStays
<1>5. (\A m \in Leaves : LeafRight(m))'
  <2>1. \A m \in Leaves : LeafRight(m)'
    BY <1>2, <1>4
  <2> QED BY <2>1 DEF SameTree
<1>6. RootParams' = RootParams
  BY DEF RootParams, SameTree, PseudoOf
<1>7. IsFiniteSet(RootParams)
  BY MembersFinite
<1>8. \A m \in Leaves : models'[m] = models[m]
  BY <1>2
<1>9. \A r, whole : StandsFor(r, whole)' <=> StandsFor(r, whole)
  <2>1. \A m \in Leaves : /\ PseudoValues(m)' = PseudoValues(m)
                          /\ \A v : RowTerms(m, v)' = RowTerms(m, v)
    BY <1>8 DEF PseudoValues, PseudoValueCount, RowTerms
  <2> QED BY <2>1, StandsForStays DEF SameTree
<1>10. ASSUME NEW r \in RowsOf(RootParams, parameters'), PairsRespected(Root, data),
              \A e \in models'[Root].exclusions : RespectedIn(e, Root, data) => ~ (e \subseteq r)
       PROVE  \E whole \in WholeRows : StandsFor(r, whole) /\ Free(whole)
  <2>1. ASSUME NEW b \in Mapped(Root), RespectedIn(b, Root, data)
        PROVE  ~ (b \subseteq r)
    <3>1. CASE models'[Root].exclusions = Mapped(Root)
      BY <1>10, <2>1, <3>1
    <3>2. CASE models'[Root].exclusions = Derived(Root, Mapped(Root), parameters')
      <4> SUFFICES ASSUME b \subseteq r
                   PROVE  FALSE
        OBVIOUS
      <4>0. b \subseteq r
        OBVIOUS
      <4>1. PICK e \in Derived(Root, Mapped(Root), parameters') : e \subseteq b
        <5>1. ASSUME NEW known, r \in RowsOf(RootParams, known), NEW E, b \in E
              PROVE  \E e \in Derived(Root, E, known) : e \subseteq b
          BY ONLY <1>7, <4>0, <5>1, DerivedForbids
        <5> QED BY <5>1
      <4>2. RespectedIn(e, Root, data)
        BY <2>1, <4>1, PartsRespected
      <4> QED BY <1>10, <3>2, <4>1, <4>2
    <3> QED BY <3>1, <3>2
  <2>2. Housed
    BY DEF RootFresh
  <2>3. Shaped
    BY DEF Walking
  <2> QED BY <1>1, <1>10, <2>1, <2>2, <2>3, RowStands
<1>11. RootInWork'
  <2>1. RowsOf(RootParams, parameters)' = RowsOf(RootParams, parameters')
    BY <1>6
  <2>2. ASSUME NEW r \in RowsOf(RootParams, parameters'), Valid(Root, r)', PairsRespected(Root, data)'
        PROVE  \E whole \in WholeRows' : StandsFor(r, whole)' /\ Free(whole)'
    <3>1. /\ \A e \in models'[Root].exclusions : RespectedIn(e, Root, data) => ~ (e \subseteq r)
          /\ PairsRespected(Root, data)
      BY <2>2, TranslationStays DEF Valid
    <3>2. PICK whole \in WholeRows : StandsFor(r, whole) /\ Free(whole)
      BY <2>2, <3>1, <1>10
    <3> QED BY <1>4, <1>9, <3>2 DEF SameTree
  <2>3. Columns(Root)' = RootParams'
    BY <1>6 DEF Columns
  <2> QED BY <2>1, <2>2, <2>3 DEF RootInWork
<1>12. Len(calls') = 1 /\ pc' # "walk" /\ pc' # "rows"
  BY <1>2
<1>13. (\A m \in DOMAIN models : SeedsKnown(m))' /\ InOrders' /\ Shaped'
  BY ModelEnters
<1> QED BY <1>3, <1>4, <1>5, <1>11, <1>12, <1>13 DEF Walking

LEMMA GenerateKeeps ==
  ASSUME Sized, Walking, Generate(FixParamOrder(Top.model)), pc' = "gcd", data' = data, options' = options
  PROVE  Walking'
<1> DEFINE m == Top.model
           known == KnownOf(m, FixParamOrder(m))
<1>1. /\ Wired /\ CallsRight /\ pc = "walk" /\ RootFresh /\ Generated(m, FixParamOrder(m))
      /\ task' = task /\ calls' = calls /\ bound' = {} /\ Shaped
  BY DEF Walking, Generate
<1>2. m \in {Root} \cup Leaves /\ m \in DOMAIN models /\ IsModel(models[m])
  BY <1>1, Frames DEF Wired
<1>3. /\ parameters' = known
      /\ \A n \in DOMAIN models : n # m => models'[n] = models[n]
      /\ models'[m].results = <<>>
      /\ \/ models'[m].exclusions = Mapped(m)
         \/ /\ models'[m].exclusions = Derived(m, Mapped(m), known)
            /\ \/ ExclusionsMapped(models[m].exclusions, models[m].submodels)
               \/ Conflicts(models[m].submodels) # {}
  BY <1>1, <1>2, GeneratedModel
<1>4. /\ models[m].parameters \in Seq(Int) /\ IsInjective(models[m].parameters)
      /\ Columns(m) \subseteq Indices(data)
  <2>1. CASE m \in Leaves
    BY <1>1, <2>1 DEF Wired
  <2>2. CASE m = Root
    BY <1>1, <2>2, RootList DEF RootFresh
  <2> QED BY <1>2, <2>1, <2>2
<1> HIDE DEF known
<1>5. /\ Wired' /\ SameTree
      /\ models'[m].parameters \in Seq(Int) /\ IsInjective(models'[m].parameters)
      /\ ToSet(models'[m].parameters) = Columns(m) \cup PseudosOf(m)
      /\ \A p \in Indices(data) : parameters'[p].valueCount = parameters[p].valueCount
      /\ \A c \in ToSet(models[m].submodels) :
           parameters'[PseudoOf(c)].valueCount = PseudoValueCount(c)
      /\ \A p \in ToSet(models'[m].parameters) : parameters'[p].order = OrderIn(p, m, data)
      /\ \A n \in {m} : SeedsKnown(n)'
  <2>1. SeedsKnown(m)
    BY <1>2 DEF Walking
  <2>2. ASSUME NEW c \in ToSet(models[m].submodels)
        PROVE  Len(models[c].results) \in Nat
    <3>1. c \in Leaves
      <4>1. CASE m = Root
        BY <1>1, <4>1, WiredFacts
      <4>2. CASE m \in Leaves
        BY <1>1, <4>2 DEF Wired, ToSet
      <4> QED BY <1>2, <4>1, <4>2
    <3>2. models[c].results \in Seq(ToSet(models[c].results))
      BY <3>1 DEF Walking, LeafRight
    <3> QED BY <3>2
  <2> HIDE DEF m
  <2> QED BY <1>1, <1>2, <1>4, <2>1, <2>2, GenerateKeepsTree
<1>6. CASE m \in Leaves
  <2>1. models[m].submodels = <<>>
    BY <1>1, <1>6 DEF Wired
  <2>2. models'[m].exclusions = models[m].exclusions
    <3>1. Mapped(m) = MappedExclusions(models[m].exclusions, <<>>) \cup Conflicts(<<>>)
      BY <2>1 DEF Mapped
    <3>2. /\ Mapped(m) = models[m].exclusions
          /\ ~ ExclusionsMapped(models[m].exclusions, models[m].submodels)
          /\ Conflicts(models[m].submodels) = {}
      BY <2>1, <3>1, NothingMapped
    <3> HIDE DEF m
    <3> QED BY <1>3, <3>2
  <2> HIDE DEF m
  <2>3. Top.model = m
    BY DEF m
  <2> QED BY <1>1, <1>3, <1>5, <1>6, <2>2, <2>3, LeafGenerated
<1>7. CASE m = Root
  <2>1. Columns(Root) \cup PseudosOf(Root) = RootParams
    BY <1>1, RootList DEF RootFresh
  <2>2. ToSet(models[Root].submodels) = Leaves
    BY <1>1, WiredFacts
  <2> HIDE DEF m
  <2>3. Top.model = Root
    BY <1>7 DEF m
  <2> QED BY <1>1, <1>3, <1>5, <1>7, <2>1, <2>2, <2>3, RootGenerated
<1> QED BY <1>2, <1>6, <1>7

(* Rows come and go while the tree stays as it is but for seeds.           *)
LEMMA TreeUnmoved ==
  ASSUME Sized, Walking, data' = data, options' = options, UNCHANGED <<parameters, task, calls>>,
         pc = "walk" <=> pc' = "walk",
         IF pc' = "rows" THEN RowInWork' ELSE bound' = {},
         \A m \in DOMAIN models : SeedsKnown(m)',
         DOMAIN models' = DOMAIN models,
         \A m \in DOMAIN models :
           /\ IsModel(models'[m])
           /\ models'[m].order = models[m].order /\ models'[m].parameters = models[m].parameters
           /\ models'[m].submodels = models[m].submodels
           /\ models'[m].exclusions = models[m].exclusions /\ models'[m].results = models[m].results,
         pc' = "rows" =>
           /\ IsFiniteSet(run'.rows)
           /\ \A r \in run'.rows : r \in RowsOf(MyParams, parameters) /\ Valid(Top.model, r)
  PROVE  Walking'
<1>1. Wired /\ CallsRight /\ GivenCovered /\ \A m \in Leaves : LeafRight(m)
  BY DEF Walking
<1>2. /\ Len(calls) \in {1, 2} /\ Top.model \in {Root} \cup Leaves
      /\ Root \in DOMAIN models /\ Leaves \subseteq DOMAIN models
  BY <1>1, Frames, WiredFacts
<1>3. Wired' /\ SameTree
  <2>1. ASSUME NEW m \in Leaves
        PROVE  /\ models'[m].parameters \in Seq(Int) /\ IsInjective(models'[m].parameters)
               /\ ToSet(models'[m].parameters) = ToSet(models[m].parameters)
    BY <1>1, <1>2 DEF Wired
  <2>2. ASSUME NEW p \in Indices(data), Indexed(p)
        PROVE  p \in DOMAIN parameters' /\ parameters'[p].order \in Int
               /\ parameters'[p] = [parameters[p] EXCEPT !.order = parameters'[p].order]
    <3>1. [parameters[p] EXCEPT !.order = parameters[p].order] = parameters[p]
      <4> DEFINE q == parameters[p]
      <4>1. q = [sequence |-> p, order |-> q.order, isResult |-> data.parameters[p + 1].isResult,
                 valueCount |-> Len(data.parameters[p + 1].values)]
        BY <2>2 DEF Indexed
      <4> HIDE DEF q
      <4>2. [q EXCEPT !.order = q.order] = q
        BY <4>1
      <4> QED BY <4>2 DEF q
    <3> QED BY <2>2, <3>1 DEF Indexed
  <2>3. IsTask(task') /\ task'.root = task.root
    BY <1>1 DEF Wired
  <2> QED BY <1>1, <2>1, <2>2, <2>3, WiredStays
<1>4. \A r : (Free(r)' <=> Free(r)) /\ (Clear(r)' <=> Clear(r))
  BY TranslationStays, GivenStays DEF Free, Clear
<1>5. GivenCovered'
  BY <1>1, <1>3, <1>4 DEF GivenCovered, SameTree
<1>6. CallsRight'
  <2> DEFINE R == [model : {Root} \cup Leaves, left : Seq(Leaves)]
  <2>1. R' = R /\ Top' = Top
    BY <1>3 DEF SameTree, Top
  <2>2. calls \in Seq(R) /\ calls[1].model = Root
    BY <1>1 DEF CallsRight
  <2> HIDE DEF R
  <2>3. calls' \in Seq(R')
    BY <2>1, <2>2
  <2>4. Len(calls') = 2 => Top'.model \in Leaves' /\ Top'.left = <<>>
    BY <1>1, <1>3, <2>1 DEF CallsRight, SameTree
  <2> QED BY <1>2, <2>2, <2>3, <2>4 DEF CallsRight, R
<1>7. \A m \in DOMAIN models : /\ Columns(m)' = Columns(m) /\ PseudoValues(m)' = PseudoValues(m)
                               /\ (\A v : RowTerms(m, v)' = RowTerms(m, v))
                               /\ \A r : Valid(m, r)' <=> Valid(m, r)
  BY TranslationStays DEF Columns, PseudoValues, PseudoValueCount, RowTerms, Valid
<1>8. (\A m \in Leaves : LeafRight(m))'
  <2>1. ASSUME NEW m \in Leaves
        PROVE  LeafRight(m)'
    <3>1. RowsOf(Columns(m), parameters)' = RowsOf(Columns(m), parameters)
      BY <1>2, <1>7 DEF RowsOf, ValueCounts
    <3> QED BY <1>1, <1>2, <1>7, <3>1 DEF LeafRight
  <2> QED BY <1>3, <2>1 DEF SameTree
<1>9. RootFresh => RootFresh'
  <2>1. Housed => Housed'
    BY <1>2, <1>3, <1>7 DEF Housed, SameTree
  <2> QED BY <1>2, <1>3, <2>1 DEF RootFresh, SameTree
<1>10. RootInWork => RootInWork'
  <2>1. RootParams' = RootParams
    BY <1>3 DEF RootParams, SameTree, PseudoOf
  <2>2. RowsOf(RootParams, parameters)' = RowsOf(RootParams, parameters)
    BY <2>1 DEF RowsOf, ValueCounts
  <2>3. Leaves' = Leaves /\ \A m \in Leaves : /\ PseudoValues(m)' = PseudoValues(m)
                                              /\ \A v : RowTerms(m, v)' = RowTerms(m, v)
    BY <1>2, <1>3, <1>7 DEF SameTree
  <2>4. Columns(Root)' = Columns(Root) /\ (\A r : Valid(Root, r)' <=> Valid(Root, r))
        /\ WholeRows' = WholeRows
    BY <1>2, <1>3, <1>7 DEF SameTree
  <2>5. \A r, whole : StandsFor(r, whole)' <=> StandsFor(r, whole)
    BY <2>3, StandsForStays
  <2>6. PairsRespected(Root, data)' <=> PairsRespected(Root, data)
    BY TranslationStays
  <2> QED BY <1>2, <1>4, <2>1, <2>2, <2>4, <2>5, <2>6 DEF RootInWork
<1>11. MyParams' = MyParams /\ RowsOf(MyParams, parameters)' = RowsOf(MyParams, parameters)
       /\ \A r : Valid(Top.model, r)' <=> Valid(Top.model, r)
  <2>1. Top' = Top
    BY DEF Top
  <2>2. MyParams' = MyParams
    BY <1>2, <2>1 DEF MyParams, Self
  <2> QED BY <1>2, <1>7, <2>1, <2>2 DEF RowsOf, ValueCounts
<1>12. pc' = "rows" =>
         /\ IsFiniteSet(run'.rows)
         /\ \A r \in run'.rows : r \in RowsOf(MyParams, parameters)' /\ Valid(Top.model, r)'
  BY <1>11
<1>13. pc' = "walk" \/ Len(calls') = 2 => RootFresh'
  BY <1>9 DEF Walking
<1>14. pc' # "walk" /\ Len(calls') = 1 => RootInWork'
  BY <1>10 DEF Walking
<1>15. pc' # "walk" => InOrders'
  <2>1. MyParams' = MyParams /\ Top' = Top
    BY <1>11 DEF Top
  <2> QED BY <2>1, OrdersStay DEF InOrders, Walking
<1>16. Shaped'
  BY <1>3 DEF Walking, SameTree
<1>17. (\A m \in DOMAIN models : SeedsKnown(m))'
  OBVIOUS
<1> QED BY <1>3, <1>5, <1>6, <1>8, <1>12, <1>13, <1>14, <1>15, <1>16, <1>17 DEF Walking

(* What gcd keeps to is what is respected.                                 *)
LEMMA MindsIsRespected ==
  ASSUME Sized, Wired, Shaped, CallsRight, InOrders, NEW e,
         MyParams = IF Top.model = Root THEN RootParams ELSE Columns(Top.model)
  PROVE  Minds(e) <=> RespectedIn(e, Top.model, data)
<1> DEFINE m == Top.model
           with == GeneratedWith(m, data)
<1>1. m \in {Root} \cup Leaves /\ Root \notin Leaves
  BY Frames, WiredFacts
<1>2. DOMAIN with = MyParams
  <2>1. DOMAIN with = ToSet(TranslatedModels(data)[m].parameters)
                        \cup { PseudoOf(n) : n \in ToSet(TranslatedModels(data)[m].submodels) }
    BY DEF GeneratedWith
  <2>2. TranslatedModels(data)[m].submodels = models[m].submodels
    BY <1>1 DEF Shaped, Wired
  <2>3. CASE m = Root
    <3>1. ToSet(models[Root].submodels) = Leaves
      BY WiredFacts
    <3>2. ToSet(TranslatedModels(data)[Root].parameters) = IF Leaves = {} THEN Indices(data) ELSE {}
      BY DEF Shaped
    <3> HIDE DEF with
    <3>3. DOMAIN with = (IF Leaves = {} THEN Indices(data) ELSE {}) \cup { PseudoOf(n) : n \in Leaves }
      BY <2>1, <2>2, <2>3, <3>1, <3>2
    <3> QED BY <2>3, <3>3 DEF RootParams
  <2>4. CASE m \in Leaves
    <3>1. models[m].submodels = <<>> /\ ToSet(TranslatedModels(data)[m].parameters) = Columns(m)
      BY <2>4 DEF Wired, Shaped
    <3> HIDE DEF with
    <3> QED BY <1>1, <2>1, <2>2, <2>4, <3>1 DEF ToSet
  <2> QED BY <1>1, <2>3, <2>4
<1>3. \A p \in MyParams : with[p].order = parameters[p].order
  <2> TAKE p \in MyParams
  <2>1. with[p] = [order |-> OrderIn(p, m, data)]
    BY <1>2 DEF GeneratedWith
  <2> QED BY <2>1 DEF InOrders
<1> HIDE DEF with
<1>4. OneOrder(MyParams, parameters, task.rowSeeds) <=> OneOrder(MyParams, with, data.rowSeeds)
  BY <1>3 DEF OneOrder, Shaped
<1>5. LowOrders(MyParams, parameters) <=> LowOrders(MyParams, with)
  BY <1>3 DEF LowOrders
<1> QED BY <1>2, <1>4, <1>5 DEF Minds, RespectedIn, Respected, with

LEMMA GcdParams ==
  ASSUME Sized, Walking, pc # "walk"
  PROVE  /\ MyParams = IF Top.model = Root THEN RootParams ELSE Columns(Top.model)
         /\ IsFiniteSet(MyParams)
         /\ \A e : Minds(e) <=> RespectedIn(e, Top.model, data)
<1>1. Wired /\ CallsRight /\ Shaped /\ InOrders
  BY DEF Walking
<1>2. MyParams = IF Top.model = Root THEN RootParams ELSE Columns(Top.model)
  <2>1. CASE Top.model = Root
    BY <1>1, <2>1, Frames DEF Walking, RootInWork, MyParams, Self, Columns
  <2>2. CASE Top.model # Root
    BY <2>2 DEF MyParams, Self, Columns
  <2> QED BY <2>1, <2>2
<1>3. IsFiniteSet(MyParams)
  <2>1. Self.parameters \in Seq(Int)
    <3>1. CASE Top.model = Root
      BY <1>1, <3>1, Frames DEF Walking, RootInWork, Self
    <3>2. CASE Top.model \in Leaves
      BY <1>1, <3>2 DEF Wired, Self
    <3> QED BY <1>1, <3>1, <3>2, Frames
  <2> QED BY <2>1, MembersFinite DEF MyParams
<1> QED BY <1>1, <1>2, <1>3, MindsIsRespected

LEMMA SeedsEdited ==
  ASSUME NEW objects, NEW m \in DOMAIN objects, IsModel(objects[m]), NEW fixed,
         NEW edited, edited = [objects EXCEPT ![m].rowSeeds = fixed]
  PROVE  /\ edited[m] = [order |-> objects[m].order, parameters |-> objects[m].parameters,
                         submodels |-> objects[m].submodels, exclusions |-> objects[m].exclusions,
                         rowSeeds |-> fixed, results |-> objects[m].results]
         /\ \A n \in DOMAIN objects : n # m => edited[n] = objects[n]
         /\ DOMAIN edited = DOMAIN objects
BY DEF IsModel

LEMMA GcdBeginsKeeps ==
  ASSUME Sized, Walking, GcdBegins, pc' = "rows", data' = data, options' = options
  PROVE  Walking'
<1> DEFINE m == Top.model
<1>1. Wired /\ CallsRight /\ pc = "gcd" /\ UNCHANGED <<parameters, task, calls>>
  BY DEF Walking, GcdBegins
<1>2. PICK fixed, open : /\ models' = [models EXCEPT ![m].rowSeeds = fixed]
                         /\ run' = [open |-> open, rows |-> {}, seeds |-> fixed]
  <2>1. \E counts \in MyCounts : \E fixed \in Engine(counts)!FixedSeeds(Self.rowSeeds, Self.exclusions) :
          /\ models' = [models EXCEPT ![Top.model].rowSeeds = fixed]
          /\ run' = [open |-> { k \in AllEntries(counts) : ~ Violates(k) }, rows |-> {}, seeds |-> fixed]
    BY <1>1 DEF GcdBegins
  <2> QED BY <1>1, <2>1
<1>3. m \in DOMAIN models /\ \A n \in DOMAIN models : IsModel(models[n])
  BY <1>1, Frames DEF Wired
<1> HIDE DEF m
<1>4. /\ models'[m] = [order |-> models[m].order, parameters |-> models[m].parameters,
                       submodels |-> models[m].submodels, exclusions |-> models[m].exclusions,
                       rowSeeds |-> fixed, results |-> models[m].results]
      /\ \A n \in DOMAIN models : n # m => models'[n] = models[n]
      /\ DOMAIN models' = DOMAIN models
  BY <1>2, <1>3, SeedsEdited
<1>5. ASSUME NEW n \in DOMAIN models
      PROVE  /\ IsModel(models'[n])
             /\ models'[n].order = models[n].order /\ models'[n].parameters = models[n].parameters
             /\ models'[n].submodels = models[n].submodels
             /\ models'[n].exclusions = models[n].exclusions /\ models'[n].results = models[n].results
  <2>1. CASE n = m
    BY <1>4, <2>1 DEF IsModel
  <2>2. CASE n # m
    BY <1>3, <1>4, <2>2
  <2> QED BY <2>1, <2>2
<1>6. IsFiniteSet(run'.rows) /\ \A r : r \notin run'.rows
  BY <1>2, FS_EmptySet
<1>7. Self.rowSeeds \in Seq(ToSet(Self.rowSeeds)) /\ (task.rowSeeds = <<>> => Self.rowSeeds = <<>>)
  <2>1. SeedsKnown(m) /\ Self = models[m]
    BY <1>3 DEF Walking, Self, m
  <2>2. PICK A : models[m].rowSeeds \in Seq(A) /\ (task.rowSeeds = <<>> => models[m].rowSeeds = <<>>)
    BY <2>1 DEF SeedsKnown
  <2> QED BY <2>1, <2>2, OwnMembers
<1>9. RowInWork'
  <2>1. Top' = Top /\ Self' = models'[m] /\ Self = models[m]
    BY <1>1 DEF Top, Self, m
  <2>2. MyParams' = MyParams /\ Self'.exclusions = Self.exclusions
    BY <1>3, <1>5, <2>1 DEF MyParams
  <2>3. IsFiniteSet(MyParams) /\ bound = {}
    BY <1>1, GcdParams DEF Walking
  <2> QED BY <1>7, <2>2, <2>3, GenerationBegins
<1>8. ASSUME NEW n \in DOMAIN models
      PROVE  SeedsKnown(n)'
  <2>1. SeedsKnown(n)
    BY DEF Walking
  <2>2. fixed \in Seq(Usable') /\ (task.rowSeeds = <<>> => fixed = <<>>)
    BY <1>1, <1>2, <1>9 DEF RowInWork
  <2>3. CASE n = m
    <3>1. models'[n].rowSeeds = fixed
      BY <1>4, <2>3
    <3> QED BY <1>1, <2>2, <3>1 DEF SeedsKnown
  <2>4. CASE n # m
    BY <1>1, <1>4, <2>1, <2>4 DEF SeedsKnown
  <2> QED BY <2>3, <2>4
<1> QED BY <1>1, <1>4, <1>5, <1>6, <1>8, <1>9, TreeUnmoved

LEMMA RowStepKeeps ==
  ASSUME Sized, Walking, BindSeed \/ BindCombination \/ PickValue, pc' = "rows",
         data' = data, options' = options
  PROVE  Walking'
<1>1. UNCHANGED <<parameters, models, task, calls, run>> /\ pc = "rows"
  BY DEF BindSeed, BindCombination, PickValue, RowUnfinished, RowBegins
<1>2. RowInWork'
  BY <1>1, BindSeedKeeps, BindingKeeps DEF Walking
<1>3. \A n \in DOMAIN models : IsModel(models'[n]) /\ SeedsKnown(n)'
  BY <1>1 DEF Walking, Wired, SeedsKnown
<1>4. /\ IsFiniteSet(run'.rows)
      /\ \A r \in run'.rows : r \in RowsOf(MyParams, parameters) /\ Valid(Top.model, r)
  BY <1>1 DEF Walking
<1> QED BY <1>1, <1>2, <1>3, <1>4, TreeUnmoved

LEMMA AddRowKeeps ==
  ASSUME Sized, Walking, AddRow, data' = data, options' = options
  PROVE  Walking'
<1>1. /\ pc = "rows" /\ pc' = "rows"
      /\ UNCHANGED <<parameters, models, task, calls>>
      /\ IsFiniteSet(run.rows)
      /\ \A r \in run.rows : r \in RowsOf(MyParams, parameters) /\ Valid(Top.model, r)
      /\ run'.rows = run.rows \cup {bound}
  BY DEF Walking, AddRow
<1>2. bound \in RowsOf(MyParams, parameters) /\ Valid(Top.model, bound) /\ RowInWork'
  <2>1. /\ bound \in RowsOf(MyParams, parameters) /\ RowInWork'
        /\ \A e \in Self.exclusions : Minds(e) => ~ (e \subseteq bound)
    BY <1>1, RowFinished DEF Walking
  <2>2. \A e : Minds(e) <=> RespectedIn(e, Top.model, data)
    BY <1>1, GcdParams
  <2> QED BY <2>1, <2>2 DEF Valid, Self
<1>3. IsFiniteSet(run'.rows) /\ \A s \in run'.rows : s \in RowsOf(MyParams, parameters) /\ Valid(Top.model, s)
  BY <1>1, <1>2, FS_AddElement
<1>4. \A n \in DOMAIN models : IsModel(models'[n]) /\ SeedsKnown(n)'
  BY <1>1 DEF Walking, Wired, SeedsKnown
<1> QED BY <1>1, <1>2, <1>3, <1>4, TreeUnmoved

LEMMA ValueInRow ==
  ASSUME NEW params, NEW known, NEW r \in RowsOf(params, known), NEW p \in params
  PROVE  <<p, ValueOf(r, p)>> \in r
<1>1. \A t \in r : t = <<t[1], t[2]>>
  BY RowTermsOnce
<1>2. \E t \in r : t[1] = p
  BY RowTermsOnce
<1>3. (CHOOSE t \in r : t[1] = p) \in r /\ (CHOOSE t \in r : t[1] = p)[1] = p
  BY <1>2
<1> QED BY <1>1, <1>3 DEF ValueOf

(* A leaf keeps its columns, sorted; the root has all of the file's.       *)
LEMMA LeafColumns ==
  ASSUME Sized, Wired, NEW m \in Leaves, Top.model = m,
         NEW columns, columns = BySequence(Resolved(Self.parameters), parameters)
  PROVE  /\ columns \in Seq(Int) /\ IsInjective(columns)
         /\ ToSet(columns) = Columns(m) /\ MyParams = Columns(m)
<1>1. /\ Self.parameters \in Seq(Int) /\ IsInjective(Self.parameters)
      /\ ToSet(Self.parameters) = Columns(m) /\ Columns(m) \subseteq Indices(data)
  BY DEF Self, Columns, Wired
<1>2. \A p \in ToSet(Self.parameters) : ~ IsPseudo(p)
  BY <1>1, IndexFacts
<1> DEFINE params == Self.parameters
<1>3. /\ Resolved(params) \in Seq(Int) /\ IsInjective(Resolved(params))
      /\ ToSet(Resolved(params)) = ToSet(params)
  <2>1. /\ Resolved(params) \in Seq(Int)
        /\ ToSet(Resolved(params)) =
              { p \in ToSet(params) : ~ IsPseudo(p) }
                \cup UNION { ToSet(ModelOf(p).parameters) : p \in { q \in ToSet(params) : IsPseudo(q) } }
        /\ (/\ IsInjective(params)
            /\ \A p \in ToSet(params) : IsPseudo(p) => IsInjective(ModelOf(p).parameters))
              => IsInjective(Resolved(params))
    BY <1>1, <1>2, ResolvedMembers
  <2>2. { p \in ToSet(params) : ~ IsPseudo(p) } = ToSet(params) /\ { q \in ToSet(params) : IsPseudo(q) } = {}
    BY <1>2
  <2>3. IsInjective(Resolved(params))
    BY <1>1, <1>2, <2>1
  <2> HIDE DEF params
  <2> QED BY <2>1, <2>2, <2>3
<1>4. \A p \in ToSet(Resolved(params)) : parameters[p].sequence \in Int
  <2> TAKE p \in ToSet(Resolved(params))
  <2>1. p \in Indices(data) /\ Indexed(p) /\ p \in Nat
    BY <1>1, <1>3, IndexFacts DEF Wired
  <2>2. parameters[p].sequence = p
    BY <2>1 DEF Indexed
  <2> QED BY <2>1, <2>2
<1> QED BY <1>1, <1>3, <1>4, SortedBySequence DEF MyParams

LEMMA RootColumns ==
  ASSUME Sized, Wired, RootInWork, Top.model = Root,
         NEW columns, columns = BySequence(Resolved(Self.parameters), parameters)
  PROVE  columns = [n \in DOMAIN data.parameters |-> n - 1] /\ MyParams = RootParams
<1> DEFINE params == Self.parameters
           pseudos == { q \in ToSet(params) : IsPseudo(q) }
<1>1. params \in Seq(Int) /\ IsInjective(params) /\ ToSet(params) = RootParams
  BY DEF RootInWork, Self, Columns
<1>2. \A m \in Leaves : /\ IsPseudo(PseudoOf(m)) /\ ModelOf(PseudoOf(m)) = models[m]
                        /\ models[m].parameters \in Seq(Int) /\ IsInjective(models[m].parameters)
                        /\ ToSet(models[m].parameters) \subseteq Indices(data)
  BY WiredFacts DEF ModelOf, Wired, Columns
<1>3. \A p \in Indices(data) : ~ IsPseudo(p) /\ p \in Int
  BY IndexFacts
<1>4. ASSUME NEW p \in ToSet(params), IsPseudo(p)
      PROVE  \E m \in Leaves : p = PseudoOf(m) /\ ModelOf(p) = models[m]
  BY <1>1, <1>2, <1>3, <1>4 DEF RootParams
<1>5. \A p \in ToSet(params) : IsPseudo(p) =>
        /\ ModelOf(p).parameters \in Seq(Int) /\ IsInjective(ModelOf(p).parameters)
        /\ \A q \in ToSet(ModelOf(p).parameters) : ~ IsPseudo(q)
  BY <1>2, <1>3, <1>4
<1>6. { p \in ToSet(params) : ~ IsPseudo(p) }
        \cup UNION { ToSet(ModelOf(p).parameters) : p \in pseudos } = Indices(data)
  <2>1. CASE Leaves = {}
    <3>1. ToSet(params) = Indices(data) /\ pseudos = {}
      BY <1>1, <1>3, <2>1 DEF RootParams
    <3>2. { p \in ToSet(params) : ~ IsPseudo(p) } = ToSet(params)
      BY <1>3, <3>1
    <3> HIDE DEF pseudos
    <3> QED BY <3>1, <3>2
  <2>2. CASE Leaves # {}
    <3>1. { p \in ToSet(params) : ~ IsPseudo(p) } = {}
      BY <1>1, <1>2, <2>2 DEF RootParams
    <3>2. \A p \in pseudos : \E m \in Leaves : ToSet(ModelOf(p).parameters) = Columns(m)
      BY <1>4 DEF Columns
    <3>3. \A m \in Leaves : PseudoOf(m) \in pseudos /\ ToSet(ModelOf(PseudoOf(m)).parameters) = Columns(m)
      BY <1>1, <1>2, <2>2 DEF RootParams, Columns
    <3>4. UNION { Columns(m) : m \in Leaves } = Indices(data)
      BY <2>2 DEF Wired
    <3> HIDE DEF pseudos
    <3>5. UNION { ToSet(ModelOf(p).parameters) : p \in pseudos } = UNION { Columns(m) : m \in Leaves }
      BY <3>2, <3>3
    <3> QED BY <3>1, <3>4, <3>5
  <2> QED BY <2>1, <2>2
<1>7. /\ Resolved(params) \in Seq(Int) /\ IsInjective(Resolved(params))
      /\ ToSet(Resolved(params)) = Indices(data)
  <2>1. /\ Resolved(params) \in Seq(Int)
        /\ ToSet(Resolved(params)) =
              { p \in ToSet(params) : ~ IsPseudo(p) }
                \cup UNION { ToSet(ModelOf(p).parameters) : p \in pseudos }
        /\ (/\ IsInjective(params)
            /\ \A p \in ToSet(params) : IsPseudo(p) => IsInjective(ModelOf(p).parameters))
              => IsInjective(Resolved(params))
    BY <1>1, <1>5, ResolvedMembers
  <2> QED BY <1>1, <1>5, <1>6, <2>1
<1>8. \A p \in Indices(data) : parameters[p].sequence = p
  <2> TAKE p \in Indices(data)
  <2>1. Indexed(p)
    BY DEF Wired
  <2> QED BY <2>1 DEF Indexed
<1>9. Len(data.parameters) \in Nat /\ DOMAIN data.parameters = 1 .. Len(data.parameters)
  BY IndexFacts
<1>10. columns = [k \in 1 .. Len(data.parameters) |-> k - 1]
  BY <1>7, <1>8, <1>9, Numbered DEF Indices
<1> QED BY <1>1, <1>9, <1>10 DEF MyParams

(* What the root says of a column is in the row it stands for.             *)
LEMMA ColumnStands ==
  ASSUME Sized, Wired, RootInWork, Top.model = Root, \A m \in Leaves : LeafRight(m),
         NEW r \in RowsOf(RootParams, parameters), NEW whole, StandsFor(r, whole),
         NEW q \in Indices(data)
  PROVE  <<q, ColumnValue(q, r)>> \in whole
<1>1. /\ Self.parameters \in Seq(Int) /\ ToSet(Self.parameters) = RootParams /\ MyParams = RootParams
  BY DEF RootInWork, Self, Columns, MyParams
<1>2. CASE Leaves = {}
  <2>1. q \in MyParams /\ whole = r
    BY <1>1, <1>2 DEF RootParams, StandsFor
  <2>2. ColumnValue(q, r) = ValueOf(r, q)
    BY <2>1 DEF ColumnValue
  <2> QED BY <1>1, <2>1, <2>2, ValueInRow
<1>3. CASE Leaves # {}
  <2> DEFINE from == { i \in DOMAIN Self.parameters :
                         /\ IsPseudo(Self.parameters[i])
                         /\ q \in ToSet(ModelOf(Self.parameters[i]).parameters) }
             last == CHOOSE i \in from : \A j \in from : j <= i
             p == Self.parameters[last]
  <2>1. PICK m \in Leaves : q \in Columns(m)
    BY <1>3 DEF Wired
  <2>2. from # {}
    <3>1. PseudoOf(m) \in RootParams
      BY <1>3 DEF RootParams
    <3>2. PICK i \in DOMAIN Self.parameters : Self.parameters[i] = PseudoOf(m)
      BY <1>1, <3>1 DEF ToSet
    <3>3. IsPseudo(PseudoOf(m)) /\ ModelOf(PseudoOf(m)) = models[m]
      BY WiredFacts DEF ModelOf
    <3> QED BY <2>1, <3>2, <3>3 DEF Columns
  <2>3. from \in SUBSET Int /\ IsFiniteSet(from)
    <3>1. DOMAIN Self.parameters = 1 .. Len(Self.parameters) /\ Len(Self.parameters) \in Nat
      BY <1>1
    <3>2. from \in SUBSET (1 .. Len(Self.parameters))
      BY <3>1
    <3> HIDE DEF from
    <3>3. IsFiniteSet(1 .. Len(Self.parameters))
      BY <3>1, FS_Interval
    <3>4. IsFiniteSet(from)
      BY <3>2, <3>3, FS_Subset
    <3> QED BY <3>2, <3>4
  <2>4. last \in from
    <3> HIDE DEF from
    <3>1. \E i \in from : \A j \in from : j <= i
      BY <2>2, <2>3, LastOf
    <3> QED BY <3>1
  <2>5. p \in RootParams /\ q \in ToSet(ModelOf(p).parameters)
    <3> HIDE DEF last
    <3>1. last \in DOMAIN Self.parameters /\ q \in ToSet(ModelOf(Self.parameters[last]).parameters)
      BY <2>4
    <3> QED BY <1>1, <3>1 DEF ToSet
  <2> HIDE DEF p
  <2>6. PICK n \in Leaves : p = PseudoOf(n)
    BY <1>3, <2>5 DEF RootParams
  <2>7. p - PseudoBase = n /\ ModelOf(p) = models[n] /\ q \in Columns(n)
    BY <2>5, <2>6, WiredFacts DEF ModelOf, Columns
  <2>8. PICK v \in PseudoValues(n) : <<p, v>> \in r /\ RowTerms(n, v) \subseteq whole
    BY <1>3, <2>6 DEF StandsFor
  <2>9. ValueOf(r, p) = v
    <3>1. <<p, ValueOf(r, p)>> \in r
      BY <2>5, ValueInRow
    <3>2. <<p, ValueOf(r, p)>> = <<p, v>>
      BY <2>8, <3>1, RowTermsOnce
    <3> QED BY <3>2
  <2>10. RowTerms(n, v) \in RowsOf(Columns(n), parameters)
    BY <2>8 DEF LeafRight
  <2>11. <<q, ValueOf(RowTerms(n, v), q)>> \in whole
    BY <2>7, <2>8, <2>10, ValueInRow
  <2>12. q \notin MyParams
    <3>1. ~ IsPseudo(q)
      BY IndexFacts
    <3>2. \A m1 \in Leaves : IsPseudo(PseudoOf(m1))
      BY WiredFacts
    <3> QED BY <1>1, <1>3, <3>1, <3>2 DEF RootParams
  <2>13. ColumnValue(q, r) = ValueOf(RowTerms(p - PseudoBase, ValueOf(r, p)), q)
    BY <2>12 DEF ColumnValue, p
  <2> QED BY <2>7, <2>9, <2>11, <2>13
<1> QED BY <1>2, <1>3

(* The results are the rows' columns, but for what is marked undefined.    *)
ResultOf(row, r, columns) ==
  /\ DOMAIN row = DOMAIN columns
  /\ \A i \in DOMAIN columns :
       \/ row[i] = ColumnValue(columns[i], r)
       \/ parameters[columns[i]].isResult /\ row[i] = UndefinedValue

LEMMA FinalRows ==
  ASSUME NEW rows, IsFiniteSet(rows), NEW columns,
         NEW results, results = ResultsOf(columns, rows),
         NEW final, final = results \/ \E E : final = Marked(columns, results, E)
  PROVE  /\ final \in Seq(ToSet(final))
         /\ \A row \in ToSet(final) : \E r \in rows : ResultOf(row, r, columns)
<1>1. /\ results \in Seq({ RowOf(columns, r) : r \in rows })
      /\ ToSet(results) = { RowOf(columns, r) : r \in rows }
  BY ResultsAre
<1>2. ASSUME NEW n \in DOMAIN results
      PROVE  \E r \in rows : results[n] = RowOf(columns, r)
  BY <1>1, <1>2 DEF ToSet
<1>3. DOMAIN results = 1 .. Len(results) /\ Len(results) \in Nat
  BY <1>1
<1>4. CASE final = results
  <2>1. final \in Seq(ToSet(final))
    BY <1>1, <1>4, OwnMembers
  <2>2. ASSUME NEW row \in ToSet(final)
        PROVE  \E r \in rows : ResultOf(row, r, columns)
    <3>1. PICK r \in rows : row = RowOf(columns, r)
      BY <1>1, <1>4, <2>2
    <3> QED BY <3>1 DEF ResultOf, RowOf
  <2> QED BY <2>1, <2>2
<1>5. ASSUME NEW E, final = Marked(columns, results, E)
      PROVE  /\ final \in Seq(ToSet(final))
             /\ \A row \in ToSet(final) : \E r \in rows : ResultOf(row, r, columns)
  <2>1. /\ DOMAIN final = DOMAIN results
        /\ \A n \in DOMAIN results :
             /\ DOMAIN final[n] = DOMAIN columns
             /\ \A i \in DOMAIN columns :
                  \/ final[n][i] = results[n][i]
                  \/ parameters[columns[i]].isResult /\ final[n][i] = UndefinedValue
    BY <1>5 DEF Marked
  <2>2. final = [n \in 1 .. Len(results) |-> final[n]]
    <3>1. \E h : final = [n \in DOMAIN results |-> h[n]]
      <4> DEFINE h == [n \in DOMAIN results |-> Marked(columns, results, E)[n]]
      <4>1. final = [n \in DOMAIN results |-> h[n]]
        BY <1>5 DEF Marked
      <4> QED BY <4>1
    <3> QED BY <1>3, <3>1
  <2>3. final \in Seq(ToSet(final))
    <3>1. \A n \in 1 .. Len(results) : final[n] \in ToSet(final)
      BY <1>3, <2>1 DEF ToSet
    <3> QED BY <1>3, <2>2, <3>1
  <2>4. ASSUME NEW row \in ToSet(final)
        PROVE  \E r \in rows : ResultOf(row, r, columns)
    <3>1. PICK n \in DOMAIN results : row = final[n]
      BY <2>1, <2>4 DEF ToSet
    <3>2. PICK r \in rows : results[n] = RowOf(columns, r)
      BY <1>2
    <3>3. \A i \in DOMAIN columns : results[n][i] = ColumnValue(columns[i], r)
      BY <3>2 DEF RowOf
    <3>4. ResultOf(row, r, columns)
      BY <2>1, <3>1, <3>3 DEF ResultOf
    <3> QED BY <3>4
  <2> QED BY <2>3, <2>4
<1> QED BY <1>4, <1>5

(* What gcd leaves of the objects when it is done.                         *)
LEMMA GcdEnded ==
  ASSUME Sized, Walking, GcdEnds, pc' # "undefined", data' = data, options' = options,
         NEW columns, columns = BySequence(Resolved(Self.parameters), parameters)
  PROVE  \E final :
         /\ \/ final = ResultsOf(columns, run.rows)
            \/ MustMark(columns) /\ \E E : final = Marked(columns, ResultsOf(columns, run.rows), E)
         /\ models'[Top.model].parameters = columns /\ models'[Top.model].results = final
         /\ models'[Top.model].exclusions = models[Top.model].exclusions
         /\ models'[Top.model].submodels = models[Top.model].submodels
         /\ models'[Top.model].order = models[Top.model].order /\ IsModel(models'[Top.model])
         /\ models'[Top.model].rowSeeds = models[Top.model].rowSeeds
         /\ \A n \in DOMAIN models : n # Top.model => models'[n] = models[n]
         /\ DOMAIN models' = DOMAIN models
         /\ \A p \in Indices(data) : p \in DOMAIN parameters' /\ parameters'[p] = parameters[p]
         /\ Return /\ task' = task /\ bound = {} /\ bound' = {}
<1> DEFINE results == ResultsOf(columns, run.rows)
           final == IF MustMark(columns) THEN Marked(columns, results, Self.exclusions) ELSE results
           m == Top.model
<1>1. /\ models' = [models EXCEPT ![Top.model].parameters = columns, ![Top.model].results = final]
      /\ parameters' = [p \in { q \in DOMAIN parameters : ~ (IsPseudo(q) /\ q \in MyParams) } |-> parameters[p]]
      /\ Return /\ task' = task /\ bound = {} /\ bound' = {}
  BY DEF GcdEnds
<1>2. Wired /\ CallsRight
  BY DEF Walking
<1>3. m \in DOMAIN models /\ \A n \in DOMAIN models : IsModel(models[n])
  BY <1>2, Frames DEF Wired
<1> HIDE DEF m
<1>4. Top.model = m
  BY DEF m
<1>5. final = results \/ (MustMark(columns) /\ \E E : final = Marked(columns, results, E))
  <2> HIDE DEF results
  <2>1. CASE MustMark(columns)
    <3>1. final = Marked(columns, results, Self.exclusions)
      BY <2>1
    <3> HIDE DEF final
    <3> QED BY <2>1, <3>1
  <2>2. CASE ~ MustMark(columns)
    <3>1. final = results
      BY <2>2
    <3> HIDE DEF final
    <3> QED BY <3>1
  <2> QED BY <2>1, <2>2
<1> HIDE DEF final
<1>6. models' = WithResults(models, m, columns, final)
  BY <1>1, <1>4 DEF WithResults
<1>7. /\ models'[m] = [order |-> models[m].order, parameters |-> columns, submodels |-> models[m].submodels,
                       exclusions |-> models[m].exclusions, rowSeeds |-> models[m].rowSeeds, results |-> final]
      /\ \A n \in DOMAIN models : n # m => models'[n] = models[n]
      /\ DOMAIN models' = DOMAIN models
  BY <1>3, <1>6, ResultsEdited
<1>8. \A p \in Indices(data) : p \in DOMAIN parameters' /\ parameters'[p] = parameters[p]
  <2>1. \A p \in Indices(data) : p \in DOMAIN parameters /\ ~ IsPseudo(p)
    BY <1>2, IndexFacts DEF Wired, Indexed
  <2> QED BY <1>1, <2>1
<1>9. /\ models'[m].parameters = columns /\ models'[m].results = final
      /\ models'[m].exclusions = models[m].exclusions
      /\ models'[m].submodels = models[m].submodels
      /\ models'[m].order = models[m].order /\ IsModel(models'[m])
      /\ models'[m].rowSeeds = models[m].rowSeeds
  BY <1>7 DEF IsModel
<1> HIDE DEF results
<1>10. /\ final = results \/ (MustMark(columns) /\ \E E : final = Marked(columns, results, E))
       /\ models'[Top.model].parameters = columns /\ models'[Top.model].results = final
       /\ models'[Top.model].exclusions = models[Top.model].exclusions
       /\ models'[Top.model].submodels = models[Top.model].submodels
       /\ models'[Top.model].order = models[Top.model].order /\ IsModel(models'[Top.model])
       /\ models'[Top.model].rowSeeds = models[Top.model].rowSeeds
       /\ \A n \in DOMAIN models : n # Top.model => models'[n] = models[n]
       /\ DOMAIN models' = DOMAIN models
       /\ \A p \in Indices(data) : p \in DOMAIN parameters' /\ parameters'[p] = parameters[p]
       /\ Return /\ task' = task /\ bound = {} /\ bound' = {}
  BY <1>1, <1>4, <1>5, <1>7, <1>8, <1>9
<1> QED BY <1>10 DEF results

LEMMA TreeEnded ==
  ASSUME Sized, Wired, data' = data, options' = options, task' = task, NEW m \in DOMAIN models,
         IsModel(models'[m]), models'[m].order = models[m].order,
         models'[m].submodels = models[m].submodels,
         m \in Leaves => /\ models'[m].parameters \in Seq(Int) /\ IsInjective(models'[m].parameters)
                         /\ ToSet(models'[m].parameters) = Columns(m),
         \A n \in DOMAIN models : n # m => models'[n] = models[n],
         DOMAIN models' = DOMAIN models,
         \A p \in Indices(data) : p \in DOMAIN parameters' /\ parameters'[p] = parameters[p]
  PROVE  Wired' /\ SameTree
<1>1. \A n \in DOMAIN models : /\ IsModel(models'[n]) /\ models'[n].order = models[n].order
                               /\ models'[n].submodels = models[n].submodels
  BY DEF Wired
<1>2. ASSUME NEW n \in Leaves
      PROVE  /\ models'[n].parameters \in Seq(Int) /\ IsInjective(models'[n].parameters)
             /\ ToSet(models'[n].parameters) = ToSet(models[n].parameters)
  <2>1. CASE n = m
    BY <2>1 DEF Columns
  <2>2. CASE n # m
    BY <2>2, WiredFacts DEF Wired
  <2> QED BY <2>1, <2>2
<1>3. ASSUME NEW p \in Indices(data), Indexed(p)
      PROVE  p \in DOMAIN parameters' /\ parameters'[p].order \in Int
             /\ parameters'[p] = [parameters[p] EXCEPT !.order = parameters'[p].order]
  <2> DEFINE q == parameters[p]
  <2>1. q = [sequence |-> p, order |-> q.order, isResult |-> data.parameters[p + 1].isResult,
             valueCount |-> Len(data.parameters[p + 1].values)] /\ q.order \in Int
    BY <1>3 DEF Indexed
  <2> HIDE DEF q
  <2>2. [q EXCEPT !.order = q.order] = q
    BY <2>1
  <2> QED BY <2>1, <2>2 DEF q
<1>4. IsTask(task') /\ task'.root = task.root
  BY DEF Wired
<1> QED BY <1>1, <1>2, <1>3, <1>4, WiredStays

(* The values of a leaf's pseudo-parameter are the rows of its generation. *)
LEMMA LeafEnds ==
  ASSUME Sized, Walking, GcdEnds, pc' # "undefined", data' = data, options' = options,
         Top.model \in Leaves
  PROVE  pc' = "walk" /\ Walking'
<1> DEFINE m == Top.model
<1>1. /\ Wired /\ CallsRight /\ pc = "rows" /\ IsFiniteSet(run.rows)
      /\ \A r \in run.rows : r \in RowsOf(MyParams, parameters) /\ Valid(m, r)
  BY DEF Walking, GcdEnds
<1>2. PICK columns : columns = BySequence(Resolved(Self.parameters), parameters)
  OBVIOUS
<1>3. PICK final :
         /\ \/ final = ResultsOf(columns, run.rows)
            \/ MustMark(columns) /\ \E E : final = Marked(columns, ResultsOf(columns, run.rows), E)
         /\ models'[m].parameters = columns /\ models'[m].results = final
         /\ models'[m].exclusions = models[m].exclusions
         /\ models'[m].submodels = models[m].submodels
         /\ models'[m].order = models[m].order /\ IsModel(models'[m])
         /\ models'[m].rowSeeds = models[m].rowSeeds
         /\ \A n \in DOMAIN models : n # m => models'[n] = models[n]
         /\ DOMAIN models' = DOMAIN models
         /\ \A p \in Indices(data) : p \in DOMAIN parameters' /\ parameters'[p] = parameters[p]
         /\ Return /\ task' = task /\ bound = {} /\ bound' = {}
  BY <1>2, GcdEnded
<1> HIDE DEF m
<1>4. m \in Leaves /\ m \in DOMAIN models /\ Top.model = m
  BY <1>1, WiredFacts DEF m
<1>5. /\ columns \in Seq(Int) /\ IsInjective(columns)
      /\ ToSet(columns) = Columns(m) /\ MyParams = Columns(m)
  BY <1>1, <1>2, <1>4, LeafColumns
<1>6. Wired' /\ SameTree
  BY <1>1, <1>3, <1>4, <1>5, TreeEnded
<1>7. final = ResultsOf(columns, run.rows)
  <2>1. ~ MustMark(columns)
    BY <1>1, <1>4, WiredFacts DEF MustMark, Wired
  <2> QED BY <1>3, <2>1
<1>8. /\ final \in Seq({ RowOf(columns, r) : r \in run.rows })
      /\ final \in Seq(ToSet(final))
  BY <1>1, <1>7, ResultsAre, OwnMembers
<1>9. ASSUME NEW v \in 0 .. Len(final) - 1
      PROVE  { <<columns[i], final[v + 1][i]>> : i \in DOMAIN columns } \in run.rows
  <2>1. PICK r \in run.rows : final[v + 1] = RowOf(columns, r)
    <3>1. Len(final) \in Nat /\ v + 1 \in 1 .. Len(final)
      BY <1>8
    <3>2. final[v + 1] \in { RowOf(columns, r) : r \in run.rows }
      BY <1>8, <3>1
    <3> QED BY <3>2
  <2> DEFINE terms == { <<columns[i], final[v + 1][i]>> : i \in DOMAIN columns }
  <2>2. r \in RowsOf(Columns(m), parameters)
    BY <1>1, <1>5
  <2>3. ASSUME NEW i \in DOMAIN columns
        PROVE  <<columns[i], final[v + 1][i]>> = <<columns[i], ValueOf(r, columns[i])>>
               /\ columns[i] \in Columns(m)
    <3>1. columns[i] \in Columns(m)
      BY <1>5 DEF ToSet
    <3>2. ColumnValue(columns[i], r) = ValueOf(r, columns[i])
      BY <1>5, <3>1 DEF ColumnValue
    <3>3. final[v + 1][i] = ColumnValue(columns[i], r)
      BY <2>1 DEF RowOf
    <3> QED BY <3>1, <3>2, <3>3
  <2>4. terms \subseteq r
    BY <2>2, <2>3, ValueInRow
  <2>5. r \subseteq terms
    <3> SUFFICES ASSUME NEW t \in r PROVE t \in terms
      OBVIOUS
    <3>1. t[1] \in Columns(m) /\ t = <<t[1], t[2]>>
      BY <2>2, RowTermsOnce
    <3>2. PICK i \in DOMAIN columns : columns[i] = t[1]
      BY <1>5, <3>1 DEF ToSet
    <3>3. <<columns[i], ValueOf(r, columns[i])>> \in r
      BY <2>2, <2>3, ValueInRow
    <3>4. <<columns[i], ValueOf(r, columns[i])>>[1] = t[1]
      BY <3>2
    <3>5. <<columns[i], ValueOf(r, columns[i])>> = t
      BY <2>2, <3>3, <3>4, RowTermsOnce
    <3>6. <<columns[i], final[v + 1][i]>> = t
      BY <2>3, <3>5
    <3> QED BY <3>6
  <2> HIDE DEF terms
  <2>6. terms = r
    BY <2>4, <2>5
  <2> QED BY <2>6 DEF terms
<1>10. \A k \in {m} : LeafRight(k)'
  <2> TAKE k \in {m}
  <2>1. models'[k].parameters = columns /\ models'[k].results = final
    BY <1>3
  <2>2. PseudoValues(k)' = 0 .. Len(final) - 1
    BY <2>1 DEF PseudoValues, PseudoValueCount
  <2>3. \A v : RowTerms(k, v)' = { <<columns[i], final[v + 1][i]>> : i \in DOMAIN columns }
    BY <2>1 DEF RowTerms
  <2>4. Columns(k)' = Columns(k) /\ RowsOf(Columns(k), parameters)' = RowsOf(Columns(m), parameters)
    <3>1. Columns(m) \in SUBSET Indices(data) /\ k = m
      BY <1>1, <1>4 DEF Wired
    <3>2. Columns(k)' = Columns(m)
      BY <1>5, <2>1 DEF Columns
    <3>3. RowsOf(Columns(m), parameters') = RowsOf(Columns(m), parameters)
      BY <1>6, <3>1 DEF SameTree
    <3>4. RowsOf(Columns(k), parameters)' = RowsOf(Columns(k)', parameters')
      OBVIOUS
    <3> QED BY <3>1, <3>2, <3>3, <3>4
  <2>5. ASSUME NEW v \in PseudoValues(k)'
        PROVE  RowTerms(k, v)' \in RowsOf(Columns(k), parameters)' /\ Valid(k, RowTerms(k, v))'
    <3>1. v \in 0 .. Len(final) - 1
      BY <2>2, <2>5
    <3>2. PICK r \in run.rows : r = { <<columns[i], final[v + 1][i]>> : i \in DOMAIN columns }
      BY <1>9, <3>1
    <3>3. RowTerms(k, v)' = r
      BY <2>3, <3>2
    <3>4. r \in RowsOf(Columns(m), parameters) /\ Valid(m, r)
      BY <1>1, <1>4, <1>5
    <3>5. Valid(k, r)'
      BY <1>3, <3>4, TranslationStays DEF Valid
    <3>6. Valid(k, RowTerms(k, v))' <=>
            \A e \in models'[k].exclusions : RespectedIn(e, k, data) => ~ (e \subseteq RowTerms(k, v)')
      BY TranslationStays DEF Valid
    <3>7. \A e \in models'[k].exclusions : RespectedIn(e, k, data) => ~ (e \subseteq r)
      BY <3>5, TranslationStays DEF Valid
    <3> QED BY <2>4, <3>3, <3>4, <3>6, <3>7
  <2> QED BY <1>8, <2>1, <2>5 DEF LeafRight
<1>11. \A k \in {m} : SeedsKnown(k)'
  BY <1>3, <1>4 DEF Walking, SeedsKnown
<1> QED BY <1>1, <1>3, <1>4, <1>6, <1>10, <1>11, LeafReturns

(* A row of the results stands, where it is defined, for a whole row.      *)
LEMMA RootEnds ==
  ASSUME Sized, Walking, GcdEnds, pc' # "undefined", data' = data, options' = options, Top.model = Root
  PROVE  pc' = "generated" /\ RootDone' /\ bound' = {}
<1>1. /\ Wired /\ CallsRight /\ pc = "rows" /\ IsFiniteSet(run.rows) /\ GivenCovered
      /\ \A m \in Leaves : LeafRight(m)
      /\ \A r \in run.rows : r \in RowsOf(MyParams, parameters) /\ Valid(Root, r)
  BY DEF Walking, GcdEnds
<1>2. Len(calls) = 1 /\ RootInWork
  BY <1>1, Frames DEF Walking
<1>3. PICK columns : columns = BySequence(Resolved(Self.parameters), parameters)
  OBVIOUS
<1>4. PICK final :
         /\ \/ final = ResultsOf(columns, run.rows)
            \/ MustMark(columns) /\ \E E : final = Marked(columns, ResultsOf(columns, run.rows), E)
         /\ models'[Root].parameters = columns /\ models'[Root].results = final
         /\ models'[Root].exclusions = models[Root].exclusions
         /\ models'[Root].submodels = models[Root].submodels
         /\ models'[Root].order = models[Root].order /\ IsModel(models'[Root])
         /\ \A n \in DOMAIN models : n # Root => models'[n] = models[n]
         /\ DOMAIN models' = DOMAIN models
         /\ \A p \in Indices(data) : p \in DOMAIN parameters' /\ parameters'[p] = parameters[p]
         /\ Return /\ task' = task /\ bound = {} /\ bound' = {}
  BY <1>3, GcdEnded
<1>5. columns = [n \in DOMAIN data.parameters |-> n - 1] /\ MyParams = RootParams
  BY <1>1, <1>2, <1>3, RootColumns
<1>6. Root \in DOMAIN models /\ Root \notin Leaves /\ Leaves \subseteq DOMAIN models
  BY <1>1, WiredFacts
<1>7. Wired' /\ SameTree
  BY <1>1, <1>4, <1>6, TreeEnded
<1>8. /\ final \in Seq(ToSet(final))
      /\ \A row \in ToSet(final) : \E r \in run.rows : ResultOf(row, r, columns)
  <2>1. final = ResultsOf(columns, run.rows) \/ \E E : final = Marked(columns, ResultsOf(columns, run.rows), E)
    BY <1>4
  <2> QED BY <1>1, <2>1, FinalRows
<1>9. ASSUME NEW row \in ToSet(final), PairsRespected(Root, data)
      PROVE  \E whole \in WholeRows : RowIs(row, whole)' /\ LeavesIn(whole)' /\ Clear(whole)
  <2>1. PICK r \in run.rows : ResultOf(row, r, columns)
    BY <1>8
  <2>2. r \in RowsOf(RootParams, parameters) /\ Valid(Root, r)
    BY <1>1, <1>5
  <2>3. PICK whole \in WholeRows : StandsFor(r, whole) /\ Free(whole)
    BY <1>2, <1>9, <2>2 DEF RootInWork
  <2>4. ASSUME NEW i \in DOMAIN columns
        PROVE  /\ i - 1 \in Indices(data) /\ columns[i] = i - 1
               /\ <<i - 1, ColumnValue(columns[i], r)>> \in whole
    <3>1. columns[i] = i - 1 /\ i - 1 \in Indices(data)
      BY <1>5, <2>4, IndexFacts
    <3> QED BY <1>1, <1>2, <2>2, <2>3, <3>1, ColumnStands
  <2>5. RowIs(row, whole)'
    <3>1. DOMAIN row = DOMAIN columns /\ DOMAIN columns = DOMAIN data.parameters
      BY <1>5, <2>1 DEF ResultOf
    <3>2. ASSUME NEW i \in DOMAIN row
          PROVE  <<i - 1, row[i]>> \in whole \/ (parameters'[i - 1].isResult /\ row[i] = UndefinedValue)
      <4>1. i - 1 \in Indices(data) /\ columns[i] = i - 1 /\ <<i - 1, ColumnValue(columns[i], r)>> \in whole
        BY <2>4, <3>1
      <4>2. \/ row[i] = ColumnValue(columns[i], r)
            \/ parameters[columns[i]].isResult /\ row[i] = UndefinedValue
        BY <2>1, <3>1 DEF ResultOf
      <4>3. parameters'[i - 1] = parameters[i - 1]
        BY <1>4, <4>1
      <4>4. CASE row[i] = ColumnValue(columns[i], r)
        BY <4>1, <4>4
      <4>5. CASE parameters[columns[i]].isResult /\ row[i] = UndefinedValue
        BY <4>1, <4>3, <4>5
      <4> QED BY <4>2, <4>4, <4>5
    <3> QED BY <3>1, <3>2 DEF RowIs
  <2>6. LeavesIn(whole)'
    <3>1. ASSUME NEW m \in Leaves
          PROVE  \E v \in PseudoValues(m)' : RowTerms(m, v)' \subseteq whole
      <4>1. PICK v \in PseudoValues(m) : RowTerms(m, v) \subseteq whole
        BY <2>3 DEF StandsFor
      <4>2. models'[m] = models[m]
        BY <1>4, <1>6
      <4>3. PseudoValues(m)' = PseudoValues(m) /\ RowTerms(m, v)' = RowTerms(m, v)
        BY <4>2 DEF PseudoValues, PseudoValueCount, RowTerms
      <4> QED BY <4>1, <4>3
    <3> QED BY <1>7, <3>1 DEF LeavesIn, SameTree
  <2>7. Clear(whole)
    BY <1>1, <2>3 DEF GivenCovered
  <2> QED BY <2>5, <2>6, <2>7
<1>10. /\ \A whole : Clear(whole)' <=> Clear(whole)
       /\ WholeRows' = WholeRows /\ (PairsRespected(Root, data)' <=> PairsRespected(Root, data))
  BY <1>7, GivenStays, TranslationStays DEF SameTree, Clear
<1>11. RootDone'
  <2>1. models'[Root].results # <<>> =>
          models'[Root].parameters = [n \in DOMAIN data.parameters |-> n - 1]
    BY <1>4, <1>5
  <2>2. PairsRespected(Root, data)' => \A row \in ToSet(models'[Root].results) :
          \E whole \in WholeRows' : RowIs(row, whole)' /\ LeavesIn(whole)' /\ Clear(whole)'
    BY <1>4, <1>9, <1>10
  <2>3. models'[Root].results \in Seq(ToSet(models'[Root].results))
    BY <1>4, <1>8
  <2>4. Shaped'
    BY <1>7 DEF Walking, SameTree
  <2> QED BY <1>7, <2>1, <2>2, <2>3, <2>4 DEF RootDone
<1>12. pc' = "generated" /\ bound' = {}
  BY <1>2, <1>4 DEF Return
<1> QED BY <1>11, <1>12

LEMMA GcdReturnsKeeps ==
  ASSUME Sized, Walking, GcdReturns, data' = data, options' = options
  PROVE  \/ pc' = "walk" /\ Walking'
         \/ pc' = "generated" /\ RootDone' /\ bound' = {}
<1>1. /\ Wired /\ CallsRight /\ pc = "gcd" /\ Return /\ UNCHANGED <<parameters, models, task>>
      /\ bound' = {} /\ Shaped
      /\ \A m \in Leaves : LeafRight(m)
  BY DEF Walking, GcdReturns
<1>2. Top.model \in {Root} \cup Leaves /\ Root \in DOMAIN models
  BY <1>1, Frames, WiredFacts
<1>3. Wired' /\ SameTree
  <2>1. PICK m \in DOMAIN models : m = Root
    BY <1>2
  <2>2. Root \notin Leaves
    BY <1>1, WiredFacts
  <2>3. IsModel(models'[m])
    BY <1>1 DEF Wired
  <2>4. \A p \in Indices(data) : p \in DOMAIN parameters
    BY <1>1 DEF Wired, Indexed
  <2> QED BY <1>1, <2>1, <2>2, <2>3, <2>4, TreeEnded
<1>4. CASE Top.model \in Leaves
  <2>1. \A m \in {Top.model} : LeafRight(m)'
    <3>1. \A m, r : Valid(m, r)' <=> Valid(m, r)
      BY <1>1, TranslationStays DEF Valid
    <3>2. \A m : PseudoValues(m)' = PseudoValues(m)
      BY <1>1 DEF PseudoValues, PseudoValueCount
    <3>3. \A m, v : RowTerms(m, v)' = RowTerms(m, v)
      BY <1>1 DEF RowTerms
    <3>4. \A m : Columns(m)' = Columns(m)
      BY <1>1 DEF Columns
    <3>5. \A m : RowsOf(Columns(m), parameters)' = RowsOf(Columns(m), parameters)
      BY <1>1, <3>4
    <3>6. TAKE m \in {Top.model}
    <3>7. LeafRight(m)
      BY <1>1, <1>4
    <3>8. models'[m].results \in Seq(ToSet(models'[m].results))
      BY <1>1, <3>7 DEF LeafRight
    <3>9. \A v \in PseudoValues(m)' :
            (RowTerms(m, v) \in RowsOf(Columns(m), parameters) /\ Valid(m, RowTerms(m, v)))'
      BY <3>1, <3>2, <3>3, <3>5, <3>7 DEF LeafRight
    <3> QED BY <3>8, <3>9 DEF LeafRight
  <2>2. \A m \in {Top.model} : SeedsKnown(m)'
    BY <1>1, <1>2, <1>4, WiredFacts DEF Walking, SeedsKnown
  <2> QED BY <1>1, <1>3, <1>4, <2>1, <2>2, LeafReturns
<1>5. CASE Top.model = Root
  <2>1. Len(calls) = 1 /\ models[Root].results = <<>>
    BY <1>1, <1>5, Frames DEF Walking, RootInWork
  <2>2. pc' = "generated"
    BY <1>1, <2>1 DEF Return
  <2>3. models'[Root].results = <<>> /\ ToSet(<<>>) = {} /\ <<>> \in Seq({})
    BY <1>1, <2>1 DEF ToSet
  <2>4. RootDone'
    BY <1>1, <1>3, <2>3 DEF RootDone, SameTree
  <2> QED BY <1>1, <2>2, <2>4
<1> QED BY <1>2, <1>4, <1>5

(* Every step of the generation; one that ends it otherwise tells nothing. *)
LEMMA StepKeeps ==
  ASSUME Sized, stage \in {"positive", "negative"}, pc \in {"walk", "gcd", "rows"}, Walking,
         GenerateModels, data' = data, options' = options
  PROVE  /\ pc' \in {"walk", "gcd", "rows"} => Walking'
         /\ pc' = "generated" => RootDone' /\ bound' = {}
         /\ pc' \in {"walk", "gcd", "rows", "generated", "failed", "asserted", "undefined"}
<1>1. CASE pc = "walk" /\ Generate(FixParamOrder(Top.model))
  <2>1. pc' \in {"asserted", "undefined", "gcd"}
    BY <1>1 DEF Generate
  <2> QED BY <1>1, <2>1, GenerateKeeps
<1>2. CASE Descend
  BY <1>2, DescendKeeps DEF Descend
<1>3. CASE GcdReturns
  BY <1>3, GcdReturnsKeeps
<1>4. CASE GcdBegins
  <2>1. pc' \in {"asserted", "undefined", "rows"}
    BY <1>4 DEF GcdBegins
  <2> QED BY <1>4, <2>1, GcdBeginsKeeps
<1>5. CASE AddRow
  BY <1>5, AddRowKeeps DEF AddRow
<1>6. CASE Stuck
  BY <1>6 DEF Stuck
<1>7. CASE GcdEnds
  <2>1. CASE pc' = "undefined"
    BY <2>1
  <2>2. CASE pc' # "undefined"
    <3>1. Top.model \in {Root} \cup Leaves
      BY Frames DEF Walking
    <3> QED BY <1>7, <2>2, <3>1, LeafEnds, RootEnds
  <2> QED BY <2>1, <2>2
<1>8. CASE BindSeed \/ BindCombination \/ PickValue
  <2>1. pc' \in {"asserted", "rows"}
    BY <1>8 DEF BindSeed, BindCombination, PickValue, RowUnfinished, RowBegins
  <2> QED BY <1>8, <2>1, RowStepKeeps
<1> QED BY <1>1, <1>2, <1>3, <1>4, <1>5, <1>6, <1>7, <1>8 DEF GenerateModels, TreeStep

-----------------------------------------------------------------------------
(* The tests *)

(* A value of a test is unknown or one that the whole row has.             *)
Tells(t, whole) ==
  /\ t.run = stage /\ DOMAIN t.values = DOMAIN data.parameters
  /\ \A i \in DOMAIN data.parameters :
       \/ t.values[i] = Unknown
       \/ \E j \in DOMAIN data.parameters[i].values :
            /\ <<i - 1, j - 1>> \in whole
            /\ t.values[i] = data.parameters[i].values[j]

LEMMA TestTells ==
  ASSUME Sized, Wired, NEW row, NEW whole \in WholeRows, RowIs(row, whole)
  PROVE  Tells(TestOf(row), whole)
<1> DEFINE t == TestOf(row)
<1>1. /\ t.run = stage /\ DOMAIN t.values = DOMAIN data.parameters
      /\ \A i \in DOMAIN data.parameters :
           t.values[i] = IF row[i] = UndefinedValue THEN Unknown
                         ELSE data.parameters[i].values[row[i] + 1]
  BY DEF TestOf, RowIs
<1> HIDE DEF t
<1>2. ASSUME NEW i \in DOMAIN data.parameters, t.values[i] # Unknown
      PROVE  \E j \in DOMAIN data.parameters[i].values :
               /\ <<i - 1, j - 1>> \in whole
               /\ t.values[i] = data.parameters[i].values[j]
  <2>1. <<i - 1, row[i]>> \in whole /\ row[i] # UndefinedValue
    BY <1>1, <1>2 DEF RowIs
  <2>2. i - 1 \in Indices(data) /\ i \in Nat /\ (i - 1) + 1 = i
    BY IndexFacts
  <2>3. Indexed(i - 1)
    BY <2>2 DEF Wired
  <2>4. parameters[i - 1].valueCount = Len(data.parameters[i].values)
    BY <2>2, <2>3 DEF Indexed
  <2>5. row[i] \in 0 .. parameters[i - 1].valueCount - 1
    <3>1. whole \in RowsOf(Indices(data), parameters)
      BY DEF WholeRows
    <3>2. <<i - 1, row[i]>>[2] \in 0 .. parameters[<<i - 1, row[i]>>[1]].valueCount - 1
      BY <2>1, <3>1, RowTermsOnce
    <3> QED BY <3>2
  <2>6. data.parameters[i].values \in Seq(ValueData)
    <3>1. data.parameters[i] \in ParameterData
      BY IndexFacts
    <3> QED BY <3>1 DEF ParameterData
  <2>7. row[i] + 1 \in DOMAIN data.parameters[i].values /\ (row[i] + 1) - 1 = row[i]
    <3> DEFINE vs == data.parameters[i].values
    <3>1. row[i] \in 0 .. Len(vs) - 1 /\ vs \in Seq(ValueData)
      BY <2>4, <2>5, <2>6
    <3> HIDE DEF vs
    <3>2. row[i] + 1 \in DOMAIN vs /\ (row[i] + 1) - 1 = row[i]
      BY <3>1
    <3> QED BY <3>2 DEF vs
  <2>8. t.values[i] = data.parameters[i].values[row[i] + 1]
    BY <1>1, <2>1
  <2> QED BY <2>1, <2>7, <2>8
<1>3. Tells(t, whole)
  BY <1>1, <1>2 DEF Tells
<1> QED BY <1>3 DEF t

(* Two negative values would be a pair that is excluded.                   *)
LEMMA NegativesCounted ==
  ASSUME OfCopy, Sized, stage \in {"positive", "negative"},
         \A m \in DOMAIN TranslatedModels(data) : PairsRespected(m, data), NEW whole, Clear(whole),
         NEW t, Tells(t, whole), stage = "negative" => IsNegative(t)
  PROVE  Cardinality(NegativesIn(t)) = IF t.run = "negative" THEN 1 ELSE 0
<1>1. t.run = stage /\ DOMAIN t.values = DOMAIN data.parameters
  BY DEF Tells
<1>2. Unknown.positive = TRUE
  BY DEF Unknown
<1>3. ASSUME NEW i \in NegativesIn(t)
      PROVE  /\ i \in DOMAIN data.parameters
             /\ \E j \in DOMAIN data.parameters[i].values :
                  <<i - 1, j - 1>> \in whole /\ ~ data.parameters[i].values[j].positive
  <2>1. i \in DOMAIN data.parameters /\ ~ t.values[i].positive
    BY <1>1 DEF NegativesIn
  <2>2. t.values[i] # Unknown
    BY <1>2, <2>1
  <2> QED BY <2>1, <2>2 DEF Tells
<1>4. CASE stage = "positive"
  <2>1. ASSUME NEW i \in NegativesIn(t)
        PROVE  FALSE
    <3>1. PICK j \in DOMAIN data.parameters[i].values : ~ data.parameters[i].values[j].positive
      BY <1>3
    <3>2. data.parameters[i].values[j] \in ToSet(data.parameters[i].values)
      BY <3>1 DEF ToSet
    <3> QED BY <1>3, <1>4, <3>1, <3>2, DataOfCopy
  <2>2. NegativesIn(t) = {}
    BY <2>1
  <2> QED BY <1>1, <1>4, <2>2, FS_EmptySet
<1>5. CASE stage = "negative"
  <2>1. ASSUME NEW i \in NegativesIn(t)
        PROVE  i \in Nat /\ \E u \in NegativeTerms(data) : u \in whole /\ u[1] = i - 1
    <3>1. PICK j \in DOMAIN data.parameters[i].values :
            <<i - 1, j - 1>> \in whole /\ ~ data.parameters[i].values[j].positive
      BY <1>3
    <3>2. i \in DOMAIN data.parameters /\ i \in Nat
      BY <1>3, IndexFacts
    <3>3. <<i - 1, j - 1>> \in NegativeTerms(data)
      BY <3>1, <3>2 DEF NegativeTerms
    <3> QED BY <3>1, <3>2, <3>3
  <2>2. ASSUME NEW i \in NegativesIn(t), NEW k \in NegativesIn(t), i < k
        PROVE  FALSE
    <3>1. PICK u \in NegativeTerms(data) : u \in whole /\ u[1] = i - 1
      BY <2>1
    <3>2. PICK w \in NegativeTerms(data) : w \in whole /\ w[1] = k - 1
      BY <2>1
    <3>3. u[1] < w[1]
      BY <2>1, <2>2, <3>1, <3>2
    <3>4. {u, w} \in NegativePairs(data)
      <4> DEFINE S == { st \in NegativeTerms(data) \X NegativeTerms(data) : st[1][1] < st[2][1] }
      <4>1. <<u, w>> \in S
        BY <3>3
      <4>2. NegativePairs(data) = { {st[1], st[2]} : st \in S }
        BY DEF NegativePairs, PairsOf
      <4> HIDE DEF S
      <4> QED BY <4>1, <4>2
    <3>5. RespectedEverywhere({u, w}, data)
      <4>1. AtMostPair({u, w})
        BY DEF AtMostPair
      <4> QED BY <4>1, LessRespected DEF RespectedEverywhere, PairsRespected
    <3> QED BY <3>1, <3>2, <3>4, <3>5 DEF Given, Clear
  <2>3. PICK i : i \in NegativesIn(t)
    BY <1>5 DEF IsNegative, NegativesIn
  <2>4. NegativesIn(t) = {i}
    <3> SUFFICES ASSUME NEW k \in NegativesIn(t), k # i PROVE FALSE
      BY <2>3
    <3>1. i \in Nat /\ k \in Nat
      BY <2>1, <2>3
    <3>2. i < k \/ k < i
      BY <3>1
    <3> QED BY <2>2, <2>3, <3>2
  <2> QED BY <1>1, <1>5, <2>4, FS_Singleton
<1> QED BY <1>4, <1>5

(* A combination of names that is forbidden was excluded, value by value.  *)
LEMMA ConstraintKept ==
  ASSUME OfCopy, Sized, stage \in {"positive", "negative"},
         NEW whole, Clear(whole),
         NEW t, Tells(t, whole), NEW e \in copy.constraints, RespectedEverywhere(e, data)
  PROVE  Obeys(t, e)
<1> SUFFICES ASSUME \A c \in e : /\ c[1] \in Names(copy)
                                 /\ t.values[IndexOf(copy, c[1])] # Unknown
                                 /\ NamedValue(t, c[1]) = c[2]
             PROVE  FALSE
  BY DEF Obeys
<1>1. ASSUME NEW c \in e
      PROVE  \E u \in whole : u \in Meant(c, data)
  <2> DEFINE i == IndexOf(copy, c[1])
  <2>1. copy.parameters \in Seq(ParameterData)
    BY DEF OfCopy, DataOk
  <2>2. i \in DOMAIN copy.parameters /\ copy.parameters[i].name = c[1]
    BY <2>1, IndexOfFirst
  <2>3. i \in DOMAIN data.parameters /\ data.parameters[i].name = c[1]
    BY <2>2, DataOfCopy
  <2>4. t.values[i] # Unknown /\ t.values[i].name = c[2]
    BY DEF NamedValue
  <2> HIDE DEF i
  <2>5. PICK j \in DOMAIN data.parameters[i].values :
          <<i - 1, j - 1>> \in whole /\ t.values[i] = data.parameters[i].values[j]
    BY <2>3, <2>4 DEF Tells
  <2>6. <<i - 1, j - 1>> \in Meant(c, data)
    <3>1. j - 1 \in { k - 1 : k \in { h \in DOMAIN data.parameters[i].values :
                                       data.parameters[i].values[h].name = c[2] } }
      BY <2>4, <2>5
    <3>2. i \in { h \in DOMAIN data.parameters : data.parameters[h].name = c[1] }
      BY <2>3
    <3> QED BY <3>1, <3>2 DEF Meant
  <2> QED BY <2>5, <2>6
<1> DEFINE f == [c \in e |-> CHOOSE u \in whole : u \in Meant(c, data)]
<1>2. \A c \in e : f[c] \in whole /\ f[c] \in Meant(c, data)
  BY <1>1
<1>3. DOMAIN f = e /\ f = [c \in e |-> f[c]]
  OBVIOUS
<1> HIDE DEF f
<1>4. f \in Chosen(e, data)
  <2>1. f \in [e -> UNION { Meant(c, data) : c \in e }]
    BY <1>2, <1>3
  <2> QED BY <1>2, <2>1 DEF Chosen
<1>5. e \in data.constraints
  BY DataOfCopy
<1>6. { f[c] : c \in e } \in Given
  BY <1>4, <1>5 DEF Given, ConstraintExclusions
<1>7. { f[c] : c \in e } \subseteq whole
  BY <1>2
<1>8. RespectedEverywhere({ f[c] : c \in e }, data)
  <2>1. AtMostPair(e) => AtMostPair({ f[c] : c \in e })
    BY DEF AtMostPair
  <2> QED BY <2>1, LessRespected
<1> QED BY <1>6, <1>7, <1>8 DEF Clear

(* The negative values that are removed change no order.                   *)
LEMMA SettingsOfCopy ==
  ASSUME OfCopy, Sized, Wired, Shaped, stage \in {"positive", "negative"}
  PROVE  /\ TranslatedModels(data) = TranslatedModels(copy)
         /\ \A e : \A m \in DOMAIN models : RespectedIn(e, m, data) <=> RespectedIn(e, m, copy)
         /\ \A e : RespectedEverywhere(e, data) <=> RespectedEverywhere(e, copy)
<1>1. /\ DOMAIN copy.parameters = DOMAIN data.parameters
      /\ data.submodels = copy.submodels /\ data.rowSeeds = copy.rowSeeds
      /\ \A i \in DOMAIN data.parameters : /\ data.parameters[i].isResult = copy.parameters[i].isResult
                                           /\ data.parameters[i].order = copy.parameters[i].order
  BY DataOfCopy
<1>2. SubmodelsOf(data) = SubmodelsOf(copy)
  BY <1>1 DEF SubmodelsOf, InSubmodels
<1>3. FixedOrder(data) = FixedOrder(copy)
  <2>1. InputParamCount(data) = InputParamCount(copy)
    <3>1. { i \in DOMAIN data.parameters : ~ data.parameters[i].isResult }
            = { i \in DOMAIN copy.parameters : ~ copy.parameters[i].isResult }
      BY <1>1
    <3> QED BY <3>1 DEF InputParamCount
  <2> QED BY <1>1, <1>2, <2>1 DEF FixedOrder, OrderLimit
<1>4. TranslatedModels(data) = TranslatedModels(copy)
  <2>1. \A x : SubmodelOrder(x, data) = SubmodelOrder(x, copy)
    BY <1>3 DEF SubmodelOrder
  <2> QED BY <1>1, <1>2, <1>3, <2>1 DEF TranslatedModels
<1>5. ASSUME NEW m \in DOMAIN models
      PROVE  GeneratedWith(m, data) = GeneratedWith(m, copy)
  <2> DEFINE P == ToSet(TranslatedModels(data)[m].parameters)
                    \cup { PseudoOf(n) : n \in ToSet(TranslatedModels(data)[m].submodels) }
  <2>1. ToSet(TranslatedModels(data)[m].parameters) \subseteq Indices(data)
    BY DEF Shaped, Wired
  <2>2. \A p \in { PseudoOf(n) : n \in ToSet(TranslatedModels(data)[m].submodels) } : IsPseudo(p)
    <3>1. TranslatedModels(data)[m].submodels = models[m].submodels
      BY DEF Shaped
    <3>2. CASE m = Root
      BY <3>1, <3>2, WiredFacts
    <3>3. CASE m \in Leaves
      BY <3>1, <3>3 DEF Wired, ToSet
    <3> QED BY <3>2, <3>3 DEF Wired
  <2>3. ASSUME NEW p \in P
        PROVE  OrderIn(p, m, data) = OrderIn(p, m, copy)
    <3>1. CASE IsPseudo(p)
      BY <1>4, <3>1 DEF OrderIn
    <3>2. CASE ~ IsPseudo(p)
      <4>1. p + 1 \in DOMAIN data.parameters
        BY <2>1, <2>2, <3>2, IndexFacts
      <4> QED BY <1>1, <1>4, <3>2, <4>1 DEF OrderIn
    <3> QED BY <3>1, <3>2
  <2>4. GeneratedWith(m, data) = [p \in P |-> [order |-> OrderIn(p, m, data)]]
    BY DEF GeneratedWith
  <2>5. GeneratedWith(m, copy) = [p \in P |-> [order |-> OrderIn(p, m, copy)]]
    BY <1>4 DEF GeneratedWith
  <2> HIDE DEF P
  <2> QED BY <2>3, <2>4, <2>5
<1>6. ASSUME NEW e, NEW m \in DOMAIN models
      PROVE  RespectedIn(e, m, data) <=> RespectedIn(e, m, copy)
  BY <1>1, <1>5 DEF RespectedIn
<1>7. DOMAIN TranslatedModels(data) = DOMAIN models
  BY DEF Shaped
<1> QED BY <1>4, <1>6, <1>7 DEF RespectedEverywhere

LEMMA NewTests ==
  ASSUME OfCopy, Sized, stage \in {"positive", "negative"}, RootDone, NEW t \in translateResults
  PROVE  /\ (\A m \in DOMAIN TranslatedModels(copy) : PairsRespected(m, copy)) =>
              Cardinality(NegativesIn(t)) = IF t.run = "negative" THEN 1 ELSE 0
         /\ \A e \in copy.constraints : RespectedEverywhere(e, copy) => Obeys(t, e)
<1>1. PICK n \in DOMAIN models[Root].results : t = TestOf(models[Root].results[n])
  BY DEF translateResults
<1>2. stage = "negative" => IsNegative(t)
  BY DEF translateResults
<1> DEFINE row == models[Root].results[n]
<1>3. row \in ToSet(models[Root].results)
  BY DEF ToSet
<1> HIDE DEF row
<1>4. Wired /\ Shaped /\ Root \in DOMAIN models /\ DOMAIN TranslatedModels(data) = DOMAIN models
  BY WiredFacts DEF RootDone, Shaped
<1>5. ASSUME PairsRespected(Root, data)
      PROVE  \E whole : Clear(whole) /\ Tells(t, whole)
  <2>1. PICK whole \in WholeRows : RowIs(row, whole) /\ Clear(whole)
    BY <1>3, <1>5 DEF RootDone
  <2>2. t = TestOf(row)
    BY <1>1 DEF row
  <2> QED BY <1>4, <2>1, <2>2, TestTells
<1>6. ASSUME \A m \in DOMAIN TranslatedModels(copy) : PairsRespected(m, copy)
      PROVE  Cardinality(NegativesIn(t)) = IF t.run = "negative" THEN 1 ELSE 0
  <2>1. \A m \in DOMAIN TranslatedModels(data) : PairsRespected(m, data)
    BY <1>4, <1>6, SettingsOfCopy DEF PairsRespected
  <2>2. PICK whole : Clear(whole) /\ Tells(t, whole)
    BY <1>4, <1>5, <2>1
  <2> QED BY <1>2, <2>1, <2>2, NegativesCounted
<1>7. ASSUME NEW e \in copy.constraints, RespectedEverywhere(e, copy)
      PROVE  Obeys(t, e)
  <2>1. RespectedEverywhere(e, data)
    BY <1>4, <1>7, SettingsOfCopy
  <2>2. PairsRespected(Root, data)
    BY <1>4, <2>1, PartsRespected DEF RespectedEverywhere
  <2>3. PICK whole : Clear(whole) /\ Tells(t, whole)
    BY <1>5, <2>2
  <2> QED BY <1>7, <2>1, <2>3, ConstraintKept
<1> QED BY <1>6, <1>7

-----------------------------------------------------------------------------
(* The command line *)

LEMMA CopyTranslationStays ==
  ASSUME copy' = copy, options' = options
  PROVE  /\ TranslatedModels(copy)' = TranslatedModels(copy)
         /\ \A m : PairsRespected(m, copy)' = PairsRespected(m, copy)
         /\ \A e : RespectedEverywhere(e, copy)' = RespectedEverywhere(e, copy)
<1>1. TranslatedModels(copy)' = TranslatedModels(copy)
  BY DEF TranslatedModels, FixedOrder, OrderLimit, SubmodelOrder, SubmodelsOf, InSubmodels, InputParamCount
<1>2. \A p, m : OrderIn(p, m, copy)' = OrderIn(p, m, copy)
  BY <1>1 DEF OrderIn
<1>3. \A m : GeneratedWith(m, copy)' = GeneratedWith(m, copy)
  BY <1>1, <1>2 DEF GeneratedWith
<1>4. \A e, m : RespectedIn(e, m, copy)' = RespectedIn(e, m, copy)
  BY <1>3 DEF RespectedIn, Respected, OneOrder, LowOrders, AtMostPair
<1> QED BY <1>1, <1>4 DEF RespectedEverywhere, PairsRespected

LEMMA TestsStay ==
  ASSUME RunnerInv, tests' = tests, (copy' = copy /\ options' = options) \/ tests = {}
  PROVE  OneNegativePerTest' /\ ConstraintsHold'
<1>1. OneNegativePerTest /\ ConstraintsHold
  BY DEF RunnerInv
<1>2. \A t : NegativesIn(t)' = NegativesIn(t)
  BY DEF NegativesIn
<1>3. CASE tests = {}
  BY <1>3 DEF OneNegativePerTest, ConstraintsHold
<1>4. CASE copy' = copy /\ options' = options
  <2>1. /\ TranslatedModels(copy)' = TranslatedModels(copy)
        /\ \A m : PairsRespected(m, copy)' = PairsRespected(m, copy)
        /\ \A e : RespectedEverywhere(e, copy)' = RespectedEverywhere(e, copy)
    BY <1>4, CopyTranslationStays
  <2>2. OneNegativePerTest'
    BY <1>1, <1>2, <2>1 DEF OneNegativePerTest
  <2>3. ConstraintsHold'
    BY <1>1, <1>4, <2>1 DEF ConstraintsHold, Obeys, NamedValue, Unknown
  <2> QED BY <2>2, <2>3
<1> QED BY <1>3, <1>4

LEMMA RunFacts ==
  ASSUME RunnerInv, stage \in {"positive", "negative"}
  PROVE  OfCopy /\ TreeRight /\ Sized
<1>1. OfCopy /\ TreeRight
  BY DEF RunnerInv
<1> QED BY <1>1, DataOfCopy DEF Sized

LEMMA CopyStays ==
  ASSUME OfCopy, UNCHANGED <<copy, data, stage>>
  PROVE  OfCopy'
BY DEF OfCopy

LEMMA StepOfTheRun ==
  ASSUME RunnerInv, UNCHANGED runnerVars, stage \in {"positive", "negative"}, TreeRight'
  PROVE  RunnerInv'
<1>1. OneNegativePerTest' /\ ConstraintsHold'
  BY TestsStay DEF runnerVars
<1>2. OfCopy'
  BY RunFacts, CopyStays DEF runnerVars
<1>3. options.order \in Int /\ UNCHANGED <<stage, options>>
  BY DEF RunnerInv, runnerVars
<1> QED BY <1>1, <1>2, <1>3 DEF RunnerInv

LEMMA ExitKeeps ==
  ASSUME RunnerInv, NEW code, ExitWith(code), pc # "generated", options'.order \in Int,
         options' = options \/ tests = {}
  PROVE  RunnerInv'
<1>1. stage' = "exited" /\ pc' = pc /\ UNCHANGED <<tests, copy>>
  BY DEF ExitWith
<1>2. OneNegativePerTest' /\ ConstraintsHold'
  BY <1>1, TestsStay
<1> QED BY <1>1, <1>2 DEF RunnerInv

LEMMA RunnerInitially == Init => RunnerInv
<1> SUFFICES ASSUME Init PROVE RunnerInv
  OBVIOUS
<1>1. /\ command \in [args : Seq([switch : STRING, value : Int]), lines : Seq(Line),
                      seedRows : Seq(SUBSET Cell)]
      /\ Len(command.lines) <= PseudoBase
  BY CommandAssumption DEF Init
<1>2. DataOk(data) /\ Len(data.parameters) = 0
  <2>1. data = [section |-> "parameters", parameters |-> <<>>, submodels |-> <<>>,
                constraints |-> {}, parsable |-> TRUE, wellFormed |-> TRUE, rowSeeds |-> <<>>]
    BY DEF Init, EmptyModelData
  <2>2. <<>> \in Seq(ParameterData) /\ Len(<<>>) = 0
    OBVIOUS
  <2>3. SubmodelsOk(<<>>, Len(<<>>))
    BY DEF SubmodelsOk
  <2>5. <<>> \in SeedRows
    BY DEF SeedRows
  <2>4. DataOk(data) /\ data.parameters = <<>>
    BY <2>1, <2>2, <2>3, <2>5 DEF DataOk, IsData
  <2> QED BY <2>4
<1>3. command.lines \in Seq(Line)
  BY <1>1
<1>4. Len(command.lines) \in Nat
  BY <1>3
<1>5. Reading
  BY <1>1, <1>2, <1>4 DEF Reading, Init
<1>6. options.order \in Int
  BY DEF Init, DefaultOptions
<1> QED BY <1>5, <1>6 DEF RunnerInv, Init, OneNegativePerTest, ConstraintsHold

LEMMA ExecuteKeeps == RunnerInv /\ Execute => RunnerInv'
<1> SUFFICES ASSUME RunnerInv, Execute PROVE RunnerInv'
  OBVIOUS
<1>1. Reading /\ options' = ParseArgs(command.args)
  BY DEF RunnerInv, Execute
<1>2. options'.order \in Int
  <2>1. command.args \in Seq([switch : STRING, value : Int])
    BY <1>1 DEF Reading
  <2> QED BY <1>1, <2>1, ParseArgsTyped
<1>3. CASE ~ options'.valid
  <2>1. ExitWith("BadOption") /\ pc # "generated" /\ tests = {}
    BY <1>1, <1>3 DEF Execute, Reading
  <2> QED BY <1>2, <2>1, ExitKeeps
<1>4. CASE options'.valid
  <2>1. stage' = "reading" /\ UNCHANGED <<treeVars, command, data, copy, tests>>
    BY <1>4 DEF Execute
  <2>2. Reading'
    BY <1>1, <2>1 DEF Reading, treeVars
  <2>3. OneNegativePerTest' /\ ConstraintsHold'
    BY <1>1, <2>1, TestsStay DEF Reading
  <2> QED BY <1>2, <2>1, <2>2, <2>3 DEF RunnerInv
<1> QED BY <1>3, <1>4

LEMMA ReadLineKeeps == RunnerInv /\ ReadLine => RunnerInv'
<1> SUFFICES ASSUME RunnerInv, ReadLine PROVE RunnerInv'
  OBVIOUS
<1> DEFINE C == [args : Seq([switch : STRING, value : Int]), lines : Seq(Line),
                 seedRows : Seq(SUBSET Cell)]
<1>1. /\ Reading /\ stage = "reading" /\ command.lines # <<>>
      /\ data' = readLine(data, Head(command.lines))
      /\ command' = [command EXCEPT !.lines = Tail(@)]
      /\ UNCHANGED <<treeVars, stage, options, copy, tests>>
  BY DEF RunnerInv, ReadLine
<1>2. command \in C
  BY <1>1 DEF Reading
<1>3. command.lines \in Seq(Line)
  BY <1>2
<1>4. /\ Head(command.lines) \in Line /\ Tail(command.lines) \in Seq(Line)
      /\ Len(Tail(command.lines)) = Len(command.lines) - 1 /\ Len(command.lines) \in Nat
  BY <1>1, <1>3
<1>5. command' \in C /\ command'.lines = Tail(command.lines)
  <2> HIDE DEF C
  <2>1. \A l \in Seq(Line) : [command EXCEPT !.lines = l] \in C /\ [command EXCEPT !.lines = l].lines = l
    BY <1>2 DEF C
  <2> QED BY <1>1, <1>4, <2>1
<1>6. DataOk(data') /\ Len(data'.parameters) <= Len(data.parameters) + 1
  BY <1>1, <1>4, ReadLineOk DEF Reading
<1>7. Len(data'.parameters) \in Nat /\ Len(data.parameters) \in Nat
  <2>1. data.parameters \in Seq(ParameterData) /\ data'.parameters \in Seq(ParameterData)
    BY <1>1, <1>6 DEF Reading, DataOk
  <2> QED BY <2>1
<1>8. Len(data'.parameters) + Len(command'.lines) <= PseudoBase
  BY <1>1, <1>4, <1>5, <1>6, <1>7, TreeAssumption DEF Reading
<1>9. DataOk(data)'
  BY <1>6 DEF DataOk, IsData, SubmodelsOk, ParameterData, ValueData, SubmodelData, SeedRows
<1>10. Reading'
  BY <1>1, <1>5, <1>8, <1>9 DEF Reading, treeVars
<1>11. OneNegativePerTest' /\ ConstraintsHold'
  BY <1>1, TestsStay
<1> QED BY <1>1, <1>10, <1>11 DEF RunnerInv

LEMMA ReadSeedsKeeps == RunnerInv /\ ReadSeeds => RunnerInv'
<1> SUFFICES ASSUME RunnerInv, ReadSeeds PROVE RunnerInv'
  OBVIOUS
<1>1. Reading /\ options' = options /\ options.order \in Int
  BY DEF RunnerInv, ReadSeeds
<1>2. CASE ~ (data.wellFormed /\ ValidateParams(data))
  <2>1. ExitWith("BadModel") /\ pc # "generated"
    BY <1>1, <1>2 DEF ReadSeeds, Reading
  <2> QED BY <1>1, <2>1, ExitKeeps
<1>3. CASE data.wellFormed /\ ValidateParams(data)
  <2>1. /\ copy' = ReadRowSeedFile(command.seedRows, data) /\ data' = RemoveNegativeValues(copy')
        /\ stage' = "positive" /\ UNCHANGED <<treeVars, command, tests>>
    BY <1>3 DEF ReadSeeds
  <2>2. DataOk(data) /\ Len(data.parameters) <= PseudoBase
    <3>1. DataOk(data) /\ Len(data.parameters) + Len(command.lines) <= PseudoBase
          /\ command.lines \in Seq(Line) /\ data.parameters \in Seq(ParameterData)
      BY <1>1 DEF Reading, DataOk
    <3>2. Len(data.parameters) \in Nat /\ Len(command.lines) \in Nat
      BY <3>1
    <3>3. \A a, b \in Nat : a + b <= PseudoBase => a <= PseudoBase
      BY TreeAssumption
    <3> QED BY <3>1, <3>2, <3>3
  <2>3. DataOk(copy') /\ copy'.parameters = data.parameters
    <3>1. command.seedRows \in Seq(SUBSET Cell)
      BY <1>1 DEF Reading
    <3> QED BY <2>1, <2>2, <3>1, SeedsRead
  <2>4. OfCopy'
    <3>1. DataOk(copy)'
      BY <2>3 DEF DataOk, IsData, SubmodelsOk, ParameterData, ValueData, SubmodelData, SeedRows
    <3>2. Len(copy'.parameters) <= PseudoBase
      BY <2>2, <2>3
    <3>3. data' = RemoveNegativeValues(copy)'
      BY <2>1 DEF RemoveNegativeValues, WithoutNegatives
    <3> QED BY <2>1, <3>1, <3>2, <3>3 DEF OfCopy
  <2>5. TreeRight'
    BY <1>1, <2>1 DEF TreeRight, Reading, treeVars
  <2>6. OneNegativePerTest' /\ ConstraintsHold'
    BY <1>1, <2>1, TestsStay DEF Reading
  <2> QED BY <1>1, <2>1, <2>4, <2>5, <2>6 DEF RunnerInv
<1> QED BY <1>2, <1>3

LEMMA TranslateKeeps == RunnerInv /\ TranslateToGCD => RunnerInv'
<1> SUFFICES ASSUME RunnerInv, TranslateToGCD PROVE RunnerInv'
  OBVIOUS
<1>1. /\ pc = "client" /\ stage \in {"positive", "negative"} /\ options' = options
      /\ options.order \in Int
  BY DEF RunnerInv, TranslateToGCD
<1>2. CASE \E code : ExitWith(code)
  BY <1>1, <1>2, ExitKeeps
<1>3. CASE ~ \E code : ExitWith(code)
  <2>1. pc' = "translated" /\ UNCHANGED <<command, stage, data, copy, tests, exit>>
    BY <1>3 DEF TranslateToGCD
  <2>2. FreshTree'
    BY <1>1, <2>1, RunFacts, TranslationIsFresh
  <2>4. bound' = {}
    BY <1>1, <1>3, RunFacts DEF TranslateToGCD, TreeRight
  <2>3. TreeRight'
    BY <2>1, <2>2, <2>4 DEF TreeRight
  <2> QED BY <1>1, <2>1, <2>3, StepOfTheRun DEF runnerVars
<1> QED BY <1>2, <1>3

LEMMA PrepareStepKeeps == RunnerInv /\ Prepare => RunnerInv'
<1> SUFFICES ASSUME RunnerInv, Prepare PROVE RunnerInv'
  OBVIOUS
<1>1. /\ pc = "translated" /\ stage \in {"positive", "negative"} /\ options' = options
      /\ options.order \in Int
  BY DEF RunnerInv, Prepare, Reading
<1>2. CASE \E code : ExitWith(code)
  BY <1>1, <1>2, ExitKeeps
<1>3. CASE ~ \E code : ExitWith(code)
  <2>1. pc' = "walk" /\ UNCHANGED <<command, stage, data, copy, tests, exit>>
    BY <1>3 DEF Prepare
  <2>2. FreshTree /\ Sized /\ bound = {}
    BY <1>1, RunFacts DEF TreeRight
  <2>3. Walking'
    BY <1>1, <2>1, <2>2, PrepareKeeps
  <2>4. TreeRight'
    BY <2>1, <2>3 DEF TreeRight
  <2> QED BY <1>1, <2>1, <2>4, StepOfTheRun DEF runnerVars
<1> QED BY <1>2, <1>3

LEMMA GenerateStepKeeps == RunnerInv /\ GenerateModels => RunnerInv'
<1> SUFFICES ASSUME RunnerInv, GenerateModels PROVE RunnerInv'
  OBVIOUS
<1>1. pc \in {"walk", "gcd", "rows"} /\ stage # "exited" /\ UNCHANGED runnerVars
  <2>1. stage # "exited" /\ UNCHANGED runnerVars
    BY DEF GenerateModels
  <2>2. BindSeed \/ BindCombination \/ PickValue \/ Stuck => pc = "rows"
    BY DEF BindSeed, BindCombination, PickValue, Stuck, RowUnfinished, RowBegins
  <2>3. Descend \/ GcdReturns \/ GcdBegins \/ AddRow \/ GcdEnds => pc \in {"walk", "gcd", "rows"}
    BY DEF Descend, GcdReturns, GcdBegins, AddRow, GcdEnds
  <2> QED BY <2>1, <2>2, <2>3 DEF GenerateModels, TreeStep
<1>2. stage \in {"positive", "negative"}
  BY <1>1 DEF RunnerInv, Reading
<1>3. Walking /\ Sized
  BY <1>1, <1>2, RunFacts DEF TreeRight
<1>4. /\ pc' \in {"walk", "gcd", "rows"} => Walking'
      /\ pc' = "generated" => RootDone' /\ bound' = {}
      /\ pc' \in {"walk", "gcd", "rows", "generated", "failed", "asserted", "undefined"}
  BY <1>1, <1>2, <1>3, StepKeeps DEF runnerVars
<1>5. TreeRight'
  BY <1>4 DEF TreeRight
<1> QED BY <1>1, <1>2, <1>5, StepOfTheRun

LEMMA FailKeeps == RunnerInv /\ GenerationFails => RunnerInv'
<1> SUFFICES ASSUME RunnerInv, GenerationFails PROVE RunnerInv'
  OBVIOUS
<1>1. ExitWith("GenerationError") /\ pc # "generated" /\ options'.order \in Int /\ options' = options
  BY DEF GenerationFails, RunnerInv
<1> QED BY <1>1, ExitKeeps

LEMMA EndRunKeeps == RunnerInv /\ EndRun => RunnerInv'
<1> SUFFICES ASSUME RunnerInv, EndRun PROVE RunnerInv'
  OBVIOUS
<1>1. /\ pc = "generated" /\ stage \in {"positive", "negative"} /\ pc' = "client"
      /\ tests' = tests \cup translateResults /\ UNCHANGED <<options, copy, bound>>
      /\ options.order \in Int
  BY DEF RunnerInv, EndRun, Reading
<1>7. /\ TranslatedModels(copy)' = TranslatedModels(copy)
      /\ \A m : PairsRespected(m, copy)' = PairsRespected(m, copy)
      /\ \A e : RespectedEverywhere(e, copy)' = RespectedEverywhere(e, copy)
  BY <1>1, CopyTranslationStays
<1>2. OfCopy /\ Sized /\ RootDone /\ OneNegativePerTest /\ ConstraintsHold /\ bound = {}
  BY <1>1, RunFacts DEF TreeRight, RunnerInv
<1>3. OneNegativePerTest'
  <2>1. \A t : NegativesIn(t)' = NegativesIn(t)
    BY DEF NegativesIn
  <2>2. (\A m \in DOMAIN TranslatedModels(copy) : PairsRespected(m, copy)) =>
          \A t \in tests' : Cardinality(NegativesIn(t)) = IF t.run = "negative" THEN 1 ELSE 0
    BY <1>1, <1>2, NewTests DEF OneNegativePerTest
  <2> QED BY <1>7, <2>1, <2>2 DEF OneNegativePerTest
<1>4. ConstraintsHold'
  <2>1. \A t \in tests', e \in copy.constraints : RespectedEverywhere(e, copy) => Obeys(t, e)
    BY <1>1, <1>2, NewTests DEF ConstraintsHold
  <2>2. \A t, e : Obeys(t, e)' <=> Obeys(t, e)
    BY <1>1 DEF Obeys, NamedValue, Unknown
  <2> QED BY <1>1, <1>7, <2>1, <2>2 DEF ConstraintsHold
<1>5. CASE stage' = "negative" /\ data' = copy
  <2>1. OfCopy'
    BY <1>1, <1>2, <1>5 DEF OfCopy
  <2>2. TreeRight'
    BY <1>1, <1>2 DEF TreeRight
  <2> QED BY <1>1, <1>3, <1>4, <1>5, <2>1, <2>2 DEF RunnerInv
<1>6. CASE stage' = "exited"
  BY <1>1, <1>3, <1>4, <1>6 DEF RunnerInv
<1> QED BY <1>5, <1>6 DEF EndRun

LEMMA RowInWorkStays ==
  ASSUME RowInWork, UNCHANGED <<parameters, models, task, calls, run, bound>>
  PROVE  RowInWork'
<1>1. MyParams' = MyParams /\ Self.exclusions' = Self.exclusions
  BY DEF MyParams, Self, Top
<1> QED BY <1>1, StillInWork DEF RowInWork

LEMMA TreeRightStays ==
  ASSUME RunnerInv, stage \in {"positive", "negative"},
         UNCHANGED <<pc, parameters, models, task, calls, run, bound, data, options>>
  PROVE  TreeRight'
<1>1. TreeRight /\ Sized
  BY RunFacts
<1>2. Leaves' = Leaves /\ Indices(data)' = Indices(data) /\ WholeRows' = WholeRows /\ Given' = Given
  BY GivenStays DEF Leaves, Indices, WholeRows
<1>7. Shaped => Shaped'
  <2>1. TranslatedModels(data)' = TranslatedModels(data) /\ UNCHANGED <<models, task, data>>
    BY TranslationStays
  <2>2. \A m : Columns(m)' = Columns(m)
    BY <2>1 DEF Columns
  <2> QED BY <1>2, <2>1, <2>2 DEF Shaped
<1>3. Wired => Wired'
  <2>1. (\A p : Indexed(p)' <=> Indexed(p)) /\ (\A m : Columns(m)' = Columns(m))
    BY DEF Indexed, Columns
  <2> QED BY <1>2, <2>1 DEF Wired
<1>4. pc = "translated" => FreshTree'
  BY <1>1, <1>2, <1>3, <1>7 DEF TreeRight, FreshTree
<1>5. pc \in {"walk", "gcd", "rows"} => Walking'
  <2> SUFFICES ASSUME pc \in {"walk", "gcd", "rows"} PROVE Walking'
    OBVIOUS
  <2>1. Walking
    BY <1>1 DEF TreeRight
  <2>2. \A m \in DOMAIN models : IsModel(models'[m])
    BY <2>1 DEF Walking, Wired
  <2>3. pc' = "rows" =>
           /\ IsFiniteSet(run'.rows)
           /\ \A r \in run'.rows : r \in RowsOf(MyParams, parameters) /\ Valid(Top.model, r)
    BY <2>1 DEF Walking
  <2>4. \A m \in DOMAIN models : SeedsKnown(m)'
    BY <2>1 DEF Walking, SeedsKnown
  <2>5. IF pc' = "rows" THEN RowInWork' ELSE bound' = {}
    <3>1. pc = "rows" => RowInWork'
      BY <2>1, RowInWorkStays DEF Walking
    <3> QED BY <2>1, <3>1 DEF Walking
  <2> QED BY <1>1, <2>1, <2>2, <2>3, <2>4, <2>5, TreeUnmoved
<1>6. pc = "generated" => RootDone'
  <2> SUFFICES ASSUME pc = "generated" PROVE RootDone'
    OBVIOUS
  <2>1. RootDone
    BY <1>1 DEF TreeRight
  <2>2. \A row, whole : (RowIs(row, whole)' <=> RowIs(row, whole))
    BY DEF RowIs
  <2>3. \A whole : LeavesIn(whole)' <=> LeavesIn(whole)
    BY <1>2 DEF LeavesIn, PseudoValues, PseudoValueCount, RowTerms
  <2>4. /\ \A whole : Clear(whole)' <=> Clear(whole)
        /\ PairsRespected(Root, data)' <=> PairsRespected(Root, data)
    BY <1>2, TranslationStays DEF Clear
  <2> QED BY <1>2, <1>3, <1>7, <2>1, <2>2, <2>3, <2>4 DEF RootDone
<1> QED BY <1>1, <1>4, <1>5, <1>6 DEF TreeRight

LEMMA StutterKeeps == RunnerInv /\ UNCHANGED vars => RunnerInv'
<1> SUFFICES ASSUME RunnerInv, UNCHANGED vars PROVE RunnerInv'
  OBVIOUS
<1>1. /\ UNCHANGED <<pc, parameters, models, task, calls, run, bound>>
      /\ UNCHANGED <<command, stage, options, data, copy, tests>>
  BY DEF vars, treeVars, runnerVars
<1>2. OneNegativePerTest' /\ ConstraintsHold'
  BY <1>1, TestsStay
<1>3. Reading => Reading'
  BY <1>1 DEF Reading
<1>4. CASE stage \in {"positive", "negative"}
  <2>1. TreeRight'
    BY <1>1, <1>4, TreeRightStays
  <2> QED BY <1>4, <2>1, StepOfTheRun DEF vars
<1>5. CASE stage \notin {"positive", "negative"}
  BY <1>1, <1>2, <1>3, <1>5 DEF RunnerInv
<1> QED BY <1>4, <1>5

(***************************************************************************)
(* At each point of a run what the models can still produce, and later the *)
(* rows of the root, are rows of all the parameters in which each submodel *)
(* has a row of its own, if the root is generated where pairs are checked, *)
(* and no exclusion that every model checks (gcdmodel.cpp:254-299,         *)
(* task.cpp:120-176, model.cpp:201-353, 534-640).                          *)
(***************************************************************************)
THEOREM RunsStayRight == Spec => []RunnerInv
<1>1. RunnerInv /\ [Next]_vars => RunnerInv'
  BY ExecuteKeeps, ReadLineKeeps, ReadSeedsKeeps, TranslateKeeps, PrepareStepKeeps,
     GenerateStepKeeps, FailKeeps, EndRunKeeps, StutterKeeps DEF Next
<1> QED BY <1>1, RunnerInitially, PTL DEF Spec

(***************************************************************************)
(* doc/pict.md:245 (only one out-of-range value in any test), for model    *)
(* files of any size whose models are each generated at one order of two   *)
(* or more (of two, if there are seeds) or at orders of one and two: one   *)
(* negative value in each test of the negative run, none in those of the   *)
(* positive one (gcdmodel.cpp:542-575, model.cpp:201-353).                 *)
(***************************************************************************)
THEOREM OneNegativeInEachTest == Spec => []OneNegativePerTest
<1>1. RunnerInv => OneNegativePerTest
  BY DEF RunnerInv
<1> QED BY <1>1, RunsStayRight, PTL

(***************************************************************************)
(* No test, of either run, has values by the names of a combination that   *)
(* the constraints forbid, if each model is generated at one order as      *)
(* above, or at orders of one and two when the combination is of at most   *)
(* two values (gcd.cpp:159, gcdexcl.cpp:112-265, model.cpp:201-353).       *)
(***************************************************************************)
THEOREM TestsObeyConstraints == Spec => []ConstraintsHold
<1>1. RunnerInv => ConstraintsHold
  BY DEF RunnerInv
<1> QED BY <1>1, RunsStayRight, PTL

LEMMA RowsAgree ==
  ASSUME Sized, RootDone, PairsRespected(Root, data), models[Root].results # <<>>, NEW m \in Leaves,
         NEW n \in DOMAIN models[Root].results
  PROVE  \E k \in PseudoValues(m) :
           InputTerms(RowTerms(m, k)) \subseteq InputTerms(RowTerms(Root, n - 1))
<1> DEFINE row == models[Root].results[n]
<1>1. row \in ToSet(models[Root].results)
  BY DEF ToSet
<1>2. PICK whole \in WholeRows : RowIs(row, whole) /\ LeavesIn(whole)
  BY <1>1 DEF RootDone
<1>3. PICK k \in PseudoValues(m) : RowTerms(m, k) \subseteq whole
  BY <1>2 DEF LeavesIn
<1>4. ASSUME NEW t \in RowTerms(m, k), ~ parameters[t[1]].isResult
      PROVE  t \in RowTerms(Root, n - 1)
  <2>1. t \in whole /\ whole \in RowsOf(Indices(data), parameters)
    BY <1>2, <1>3, <1>4 DEF WholeRows
  <2>2. t[1] \in Indices(data) /\ t = <<t[1], t[2]>>
    BY <2>1, RowTermsOnce
  <2>3. PICK i : i = t[1] + 1 /\ i \in DOMAIN data.parameters /\ i - 1 = t[1]
    BY <2>2, IndexFacts
  <2>4. <<i - 1, row[i]>> \in whole
    BY <1>2, <1>4, <2>3 DEF RowIs
  <2>5. t = <<i - 1, row[i]>>
    <3>1. <<i - 1, row[i]>>[1] = t[1]
      BY <2>3
    <3> QED BY <2>1, <2>4, <3>1, RowTermsOnce
  <2>6. models[Root].parameters = [h \in DOMAIN data.parameters |-> h - 1]
    BY DEF RootDone
  <2>7. i \in DOMAIN models[Root].parameters /\ models[Root].parameters[i] = i - 1
    BY <2>3, <2>6
  <2>8. models[Root].results[(n - 1) + 1] = row
    <3>1. models[Root].results \in Seq(ToSet(models[Root].results))
      BY DEF RootDone
    <3>2. n \in Nat /\ (n - 1) + 1 = n
      BY <3>1
    <3> QED BY <3>2
  <2> HIDE DEF row
  <2> QED BY <2>5, <2>7, <2>8 DEF RowTerms
<1> QED BY <1>4 DEF InputTerms

(***************************************************************************)
(* On the input parameters of a submodel each row of the root is a row of  *)
(* that submodel, however many submodels share a parameter and whichever   *)
(* resolved the column last, if the root is generated at one order as      *)
(* above or at orders of one and two (model.cpp:546, 593-640).             *)
(***************************************************************************)
THEOREM RowsAreRowsOfSubmodels == Spec => []SubmodelRowsAgree
<1>1. RunnerInv => SubmodelRowsAgree
  <2> SUFFICES ASSUME RunnerInv, pc = "generated", models[Root].results # <<>>, PairsRespected(Root, copy)
               PROVE  \A m \in ToSet(models[Root].submodels), n \in DOMAIN models[Root].results :
                        \E k \in PseudoValues(m) :
                          InputTerms(RowTerms(m, k)) \subseteq InputTerms(RowTerms(Root, n - 1))
    BY DEF SubmodelRowsAgree
  <2>1. stage \in {"positive", "negative"}
    BY DEF RunnerInv, Reading
  <2>2. Sized /\ RootDone
    BY <2>1, RunFacts DEF TreeRight
  <2>3. ToSet(models[Root].submodels) = Leaves
    BY <2>2, WiredFacts DEF RootDone
  <2>4. PairsRespected(Root, data)
    <3>1. Wired /\ Shaped /\ Root \in DOMAIN models
      BY <2>2, WiredFacts DEF RootDone
    <3> QED BY <2>1, <2>2, <3>1, RunFacts, SettingsOfCopy DEF PairsRespected
  <2> QED BY <2>2, <2>3, <2>4, RowsAgree
<1> QED BY <1>1, RunsStayRight, PTL
=============================================================================
