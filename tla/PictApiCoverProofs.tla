------------------------- MODULE PictApiCoverProofs -------------------------
(***************************************************************************)
(* Theorems about PictApi, for every program of a client: what a submodel  *)
(* covers reaches the rows of the root, and so does a seed.                *)
(***************************************************************************)
EXTENDS PictApiProofs

-----------------------------------------------------------------------------
(* What the rows of a model say *)

(* What row r of the model in work will say once it is resolved.           *)
Says(r) ==
  LET columns == BySequence(Resolved(Self.parameters), parameters)
  IN  { <<columns[i], ColumnValue(columns[i], r)>> : i \in DOMAIN columns }

LEMMA RowsFunctional ==
  ASSUME NEW params, NEW known, NEW r \in RowsOf(params, known)
  PROVE  /\ OneValueEach(r)
         /\ \A t \in r : t = <<t[1], t[2]>> /\ t[1] \in params
<1>1. PICK f : Gives(r, f, params, known)
  BY RowsGive
<1>2. \A t \in r : t = <<t[1], f[t[1]]>> /\ t[1] \in params
  BY <1>1 DEF Gives
<1> QED BY <1>2 DEF OneValueEach

(***************************************************************************)
(* A resolved row says what its row said of the model's own parameters,    *)
(* and all that the rows of submodels say which it picked.                 *)
(***************************************************************************)
LEMMA RowSays ==
  ASSUME program \in Programs, Standing, NEW m \in Models, Top.model = m, NEW home, InWork(m, home),
         NEW r \in RowsOf(GcdParams(m), parameters)
  PROVE  /\ OneValueEach(Says(r))
         /\ \A t \in r : t[1] \in OwnParams(m) => t \in Says(r)
         /\ \A c \in Kids(m) : \A v \in PseudoValues(c) :
              <<PseudoOf(c), v>> \in r /\ OneValueEach(RowTerms(c, v)) => RowTerms(c, v) \subseteq Says(r)
<1> DEFINE columns == BySequence(Resolved(Self.parameters), parameters)
<1>1. /\ Self.parameters \in Seq(Int) /\ MyParams = GcdParams(m)
      /\ \A c \in Kids(m) : ToSet(models[c].parameters) = Owned(c)
      /\ ToSet(columns) = Owned(m)
  BY ColumnsAreOwned
<1>2. Says(r) = { <<q, ColumnValue(q, r)>> : q \in Owned(m) }
  <2>1. Says(r) = { <<columns[i], ColumnValue(columns[i], r)>> : i \in DOMAIN columns }
    BY DEF Says
  <2>2. Owned(m) = { columns[i] : i \in DOMAIN columns }
    BY <1>1 DEF ToSet
  <2> HIDE DEF columns
  <2> QED BY <2>1, <2>2
<1> HIDE DEF columns
<1>3. \A q \in Owned(m) : <<q, ColumnValue(q, r)>> \in Expanded(r)
  BY <1>1, ColumnInRow
<1>4. PICK at : Picks(r, m, at)
  BY RowPicks DEF InWork
<1>5. OneValueEach(r) /\ \A t \in r : t = <<t[1], t[2]>> /\ t[1] \in GcdParams(m)
  BY RowsFunctional
<1>6. OneValueEach(Says(r))
  BY <1>2 DEF OneValueEach
<1>7. ASSUME NEW t \in r, t[1] \in OwnParams(m)
      PROVE  t \in Says(r)
  <2>1. t[1] \in Owned(m) /\ \A c \in Kids(m) : t[1] \notin Owned(c)
    BY <1>7, OwnedFacts
  <2>2. <<t[1], ColumnValue(t[1], r)>> \in Expanded(r) /\ <<t[1], ColumnValue(t[1], r)>>[1] = t[1]
    BY <1>3, <2>1
  <2>3. <<t[1], ColumnValue(t[1], r)>> \in r
    BY <1>4, <2>1, <2>2 DEF Picks
  <2>4. t = <<t[1], ColumnValue(t[1], r)>>
    BY <1>5, <2>2, <2>3 DEF OneValueEach
  <2> QED BY <1>2, <2>1, <2>4
<1>8. ASSUME NEW c \in Kids(m), NEW v \in PseudoValues(c), <<PseudoOf(c), v>> \in r,
             OneValueEach(RowTerms(c, v)), NEW t \in RowTerms(c, v)
      PROVE  t \in Says(r)
  <2>1. <<PseudoOf(c), at[c]>> \in r
    BY <1>4 DEF Picks
  <2>2. at[c] = v
    <3>1. <<PseudoOf(c), at[c]>> = <<PseudoOf(c), v>>
      BY <1>5, <1>8, <2>1 DEF OneValueEach
    <3> QED BY <3>1
  <2>3. t[1] \in Owned(c)
    BY <1>1 DEF RowTerms, ToSet
  <2>4. t[1] \in Owned(m)
    BY <2>3, OwnedFacts
  <2>5. <<t[1], ColumnValue(t[1], r)>> \in Expanded(r) /\ <<t[1], ColumnValue(t[1], r)>>[1] = t[1]
    BY <1>3, <2>4
  <2>6. <<t[1], ColumnValue(t[1], r)>> \in RowTerms(c, v)
    BY <1>4, <2>2, <2>3, <2>5 DEF Picks
  <2>7. t = <<t[1], ColumnValue(t[1], r)>>
    BY <1>8, <2>5, <2>6 DEF OneValueEach
  <2> QED BY <1>2, <2>4, <2>7
<1> QED BY <1>6, <1>7, <1>8

(* The results of a model are what its rows say.                           *)
LEMMA GcdEndsSays ==
  ASSUME program \in Programs, program' = program, NEW home, Walking(home), GcdEnds, pc' # "undefined",
         NEW m, m = Top.model
  PROVE  /\ models'[m].results \in Seq(ToSet(models'[m].results))
         /\ \A r \in run.rows : \E v \in PseudoValues(m)' : RowTerms(m, v)' = Says(r)
         /\ \A v \in PseudoValues(m)' : \E r \in run.rows : RowTerms(m, v)' = Says(r)
         /\ models'[m].results # <<>> => run.rows # {}
<1> DEFINE columns == BySequence(Resolved(Self.parameters), parameters)
           results == ResultsOf(columns, run.rows)
           all == { RowOf(columns, r) : r \in run.rows }
<1>1. models'[m].parameters = columns /\ models'[m].results = results
  BY GcdEndsFinishes
<1>2. IsFiniteSet(run.rows)
  BY DEF Walking, GcdEnds
<1>3. results \in Seq(all) /\ ToSet(results) = all
  BY <1>2, ResultsAre
<1>4. \A r \in run.rows : Says(r) = { <<columns[i], RowOf(columns, r)[i]>> : i \in DOMAIN columns }
  BY DEF Says, RowOf
<1>5. \A v : RowTerms(m, v)' = { <<columns[i], results[v + 1][i]>> : i \in DOMAIN columns }
  BY <1>1 DEF RowTerms
<1>6. PseudoValues(m)' = 0 .. Len(results) - 1
  BY <1>1 DEF PseudoValues, PseudoValueCount
<1> HIDE DEF columns, results
<1>7. Len(results) \in Nat /\ DOMAIN results = 1 .. Len(results)
  BY <1>3
<1>8. ASSUME NEW r \in run.rows
      PROVE  \E v \in PseudoValues(m)' : RowTerms(m, v)' = Says(r)
  <2>1. PICK i \in 1 .. Len(results) : results[i] = RowOf(columns, r)
    <3>1. RowOf(columns, r) \in ToSet(results)
      BY <1>3
    <3> QED BY <1>7, <3>1 DEF ToSet
  <2>2. i - 1 \in PseudoValues(m)' /\ (i - 1) + 1 = i
    BY <1>6, <1>7
  <2>3. RowTerms(m, i - 1)' = Says(r)
    <3>1. RowTerms(m, i - 1)' = { <<columns[j], results[(i - 1) + 1][j]>> : j \in DOMAIN columns }
      BY <1>5
    <3>2. results[(i - 1) + 1] = RowOf(columns, r)
      BY <2>1, <2>2
    <3> QED BY <1>4, <3>1, <3>2
  <2> QED BY <2>2, <2>3
<1>9. ASSUME NEW v \in PseudoValues(m)'
      PROVE  \E r \in run.rows : RowTerms(m, v)' = Says(r)
  <2>1. v + 1 \in 1 .. Len(results)
    BY <1>6, <1>7
  <2>2. results[v + 1] \in ToSet(results)
    BY <1>7, <2>1 DEF ToSet
  <2>3. PICK r \in run.rows : results[v + 1] = RowOf(columns, r)
    BY <1>3, <2>2
  <2> QED BY <1>4, <1>5, <2>3
<1>10. results \in Seq(ToSet(results))
  BY <1>3, OwnMembers
<1>11. results # <<>> => run.rows # {}
  <2>1. ASSUME run.rows = {}
        PROVE  results = <<>>
    <3>1. results \in Seq({})
      BY <1>3, <2>1
    <3> QED BY <3>1
  <2> QED BY <2>1
<1> QED BY <1>1, <1>8, <1>9, <1>10, <1>11

-----------------------------------------------------------------------------
(* The invariant *)

(* The rows of a model give no parameter two values.                       *)
Sound(m) ==
  /\ models[m].results \in Seq(ToSet(models[m].results))
  /\ \A v \in PseudoValues(m) : OneValueEach(RowTerms(m, v))

AllDone(m) == \A c \in Kids(m) : models[c].results # <<>>

(* A model with rows has every row of its submodels in one of them.        *)
Covers(m) ==
  models[m].results # <<>> =>
    /\ AllDone(m)
    /\ \A c \in Kids(m) : \A v \in PseudoValues(c) :
         \E w \in PseudoValues(m) : RowTerms(c, v) \subseteq RowTerms(m, w)

Seed == Head(task.rowSeeds)

Possible(t) ==
  \E m \in Below(Root) : \E p \in OwnParams(m) : t \in {p} \X (0 .. parameters[p].valueCount - 1)

(* The seed of the task is one it can keep.                                *)
SeedFits ==
  /\ NothingSpans /\ Len(task.rowSeeds) = 1
  /\ ~ \E e \in task.exclusions : e \subseteq Seed
  /\ \A t \in Seed : Possible(t)

(* What terms say of the parameters of a subtree.                          *)
Of(terms, m) == { t \in terms : t[1] \in Owned(m) }

(* A model with rows has its part of the seed in one of them.              *)
HoldsSeed(m) ==
  models[m].results # <<>> => \E v \in PseudoValues(m) : Of(Seed, m) \subseteq RowTerms(m, v)

Lossless ==
  /\ \A m \in Models : Sound(m)
  /\ NothingSpans /\ SubmodelsCombined /\ ExclusionsRespected => \A m \in Models : Covers(m)
  /\ SeedFits => \A m \in Models : HoldsSeed(m)

(* The terms have m's part of the seed, that of its submodels by way of    *)
(* their rows, ...                                                         *)
Carries(terms, m) ==
  /\ \A x \in Seed : x[1] \in OwnParams(m) => x \in terms
  /\ \A c \in Kids(m) : Of(Seed, c) # {} =>
       \E v \in PseudoValues(c) : <<PseudoOf(c), v>> \in terms /\ Of(Seed, c) \subseteq RowTerms(c, v)

(* ... and nothing else but rows of submodels.                             *)
FromSeed(terms, m) == \A x \in terms : x \in Seed \/ x[1] \in { PseudoOf(c) : c \in Kids(m) }

(* The exclusions of a model are ones of the task, over its own parameters *)
(* (as long as no exclusion of the task relates two models).               *)
OwnOnly(m) == \A e \in models[m].exclusions : e \in task.exclusions /\ ParamsOf(e) \subseteq OwnParams(m)

(* An entry is ruled out, still open or covered.                           *)
NothingMissed(m) ==
  \A counts \in MyCounts : \A k \in AllEntries(counts) :
    Violates(k) \/ k \in run.open \/ \E r \in run.rows : k \subseteq r

SeedReady(m) ==
  /\ models[m].rowSeeds \in Seq(ToSet(models[m].rowSeeds)) /\ models[m].rowSeeds # <<>>
  /\ \A t \in ToSet(models[m].rowSeeds) : Carries(t, m) /\ FromSeed(t, m)

(* The first row takes the seed, later ones do not lose it.                *)
SeedNext(m) ==
  \/ Of(Seed, m) = {}
  \/ run.rows = {} /\ run.seeds # <<>> /\ Carries(Head(run.seeds), m)
  \/ \E r \in run.rows : Carries(r, m)

AtWork(m) ==
  /\ NothingSpans /\ AllDone(m) => OwnOnly(m)
  /\ pc = "rows" => NothingMissed(m)
  /\ SeedFits /\ AllDone(m) => (pc = "gcd" => SeedReady(m)) /\ (pc = "rows" => SeedNext(m))

(* No row of a submodel is lost, in generation and until the root is       *)
(* deleted, ...                                                            *)
LosslessParts ==
  /\ pc \in {"walk", "gcd", "rows"} => Lossless
  /\ pc \in {"generated", "fetch"} /\ Root \in DOMAIN models /\ task.root = Root => Wired /\ Lossless
  /\ pc \in {"gcd", "rows"} => AtWork(Top.model)

(* ... in a tree that is consistent.                                       *)
LosslessInv == ApiInv /\ LosslessParts

-----------------------------------------------------------------------------
(* What stays *)

(* What is asked of a task does not change while it is generated.          *)
LEMMA PremisesStay ==
  ASSUME program \in Programs, program' = program, task' = task, SameTree, Wired
  PROVE  /\ NothingSpans' <=> NothingSpans
         /\ SubmodelsCombined' <=> SubmodelsCombined
         /\ ExclusionsRespected' <=> ExclusionsRespected
         /\ SeedFits' <=> SeedFits
         /\ Seed' = Seed /\ \A m : Of(Seed, m)' = Of(Seed, m)
<1>1. /\ Models' = Models
      /\ \A m : Kids(m)' = Kids(m) /\ Below(m)' = Below(m) /\ OwnParams(m)' = OwnParams(m) /\ Owned(m)' = Owned(m)
  BY TreeStays
<1>2. DOMAIN models' = Models /\ DOMAIN models = Models
  BY DEF SameTree, Wired
<1>3. NothingSpans' <=> NothingSpans
  BY <1>1, <1>2 DEF NothingSpans
<1>4. \A m \in Models : WithSubmodels(m)' = WithSubmodels(m)
  BY ShapeStays
<1>5. SubmodelsCombined' <=> SubmodelsCombined
  <2>1. \A m \in Models : models'[m].submodels = models[m].submodels
    BY DEF SameTree
  <2>2. \A m \in Models : Combinations(DOMAIN WithSubmodels(m), WithSubmodels(m))'
                            = Combinations(DOMAIN WithSubmodels(m), WithSubmodels(m))
    BY <1>4 DEF Combinations
  <2> QED BY <1>2, <2>1, <2>2 DEF SubmodelsCombined, PseudoOf
<1>9. ExclusionsRespected' <=> ExclusionsRespected
  BY RespectStays DEF ExclusionsRespected
<1>6. Seed' = Seed /\ \A m : Of(Seed, m)' = Of(Seed, m)
  BY <1>1 DEF Seed, Of
<1>7. \A t : Possible(t)' <=> Possible(t)
  <2>1. \A m \in Below(Root) : \A p \in OwnParams(m) : parameters'[p] = parameters[p]
    BY DEF SameTree, Below
  <2> QED BY <1>1, <2>1 DEF Possible
<1>8. SeedFits' <=> SeedFits
  BY <1>3, <1>6, <1>7 DEF SeedFits
<1> QED BY <1>3, <1>5, <1>6, <1>8, <1>9

LEMMA RowsStay ==
  ASSUME NEW m, models'[m] = models[m]
  PROVE  /\ PseudoValues(m)' = PseudoValues(m)
         /\ \A v : RowTerms(m, v)' = RowTerms(m, v)
BY DEF PseudoValues, PseudoValueCount, RowTerms

(* Neither does what carries the seed, while the submodels stay.           *)
LEMMA CarriesStays ==
  ASSUME program' = program, Seed' = Seed, \A n : Of(Seed, n)' = Of(Seed, n),
         NEW m, \A c \in Kids(m) : models'[c] = models[c]
  PROVE  \A t : (Carries(t, m)' <=> Carries(t, m)) /\ (FromSeed(t, m)' <=> FromSeed(t, m))
<1>1. Kids(m)' = Kids(m) /\ OwnParams(m)' = OwnParams(m)
  BY TreeStays
<1>2. \A c \in Kids(m) : /\ PseudoValues(c)' = PseudoValues(c) /\ PseudoOf(c)' = PseudoOf(c)
                         /\ \A v : RowTerms(c, v)' = RowTerms(c, v)
  BY RowsStay DEF PseudoOf
<1> SUFFICES ASSUME NEW t
             PROVE  (Carries(t, m)' <=> Carries(t, m)) /\ (FromSeed(t, m)' <=> FromSeed(t, m))
  OBVIOUS
<1>3. FromSeed(t, m)' <=> FromSeed(t, m)
  BY <1>1, <1>2 DEF FromSeed
<1>4. \A c \in Kids(m) :
        (\E v \in PseudoValues(c) : <<PseudoOf(c), v>> \in t /\ Of(Seed, c) \subseteq RowTerms(c, v))'
          <=> \E v \in PseudoValues(c) : <<PseudoOf(c), v>> \in t /\ Of(Seed, c) \subseteq RowTerms(c, v)
  BY <1>2
<1>5. Carries(t, m)' <=> Carries(t, m)
  BY <1>1, <1>4 DEF Carries
<1> QED BY <1>3, <1>5

(* A model that stays as it is loses nothing, as long as the submodels of  *)
(* one that has rows stay too.                                             *)
LEMMA ModelLosesNothing ==
  ASSUME program' = program, task' = task, NEW m, models'[m] = models[m],
         models[m].results = <<>> \/ \A c \in Kids(m) : models'[c] = models[c]
  PROVE  /\ Sound(m) => Sound(m)'
         /\ Covers(m) => Covers(m)'
         /\ HoldsSeed(m) => HoldsSeed(m)'
<1>1. /\ PseudoValues(m)' = PseudoValues(m)
      /\ \A v : RowTerms(m, v)' = RowTerms(m, v)
  BY RowsStay
<1>2. Kids(m)' = Kids(m) /\ Owned(m)' = Owned(m)
  BY TreeStays
<1>3. Sound(m) => Sound(m)'
  BY <1>1 DEF Sound, OneValueEach
<1>4. Covers(m) => Covers(m)'
  <2>1. CASE models[m].results = <<>>
    BY <2>1 DEF Covers
  <2>2. CASE \A c \in Kids(m) : models'[c] = models[c]
    <3>1. \A c \in Kids(m) : /\ PseudoValues(c)' = PseudoValues(c)
                             /\ \A v : RowTerms(c, v)' = RowTerms(c, v)
      BY <2>2, RowsStay
    <3>2. AllDone(m) => AllDone(m)'
      BY <1>2, <2>2 DEF AllDone
    <3> QED BY <1>1, <1>2, <3>1, <3>2 DEF Covers
  <2> QED BY <2>1, <2>2
<1>5. HoldsSeed(m) => HoldsSeed(m)'
  BY <1>1, <1>2 DEF HoldsSeed, Seed, Of
<1> QED BY <1>3, <1>4, <1>5

(* A model without rows has none to lose.                                  *)
LEMMA NothingToLose ==
  ASSUME NEW m, models'[m].results = <<>>
  PROVE  Sound(m)' /\ Covers(m)' /\ HoldsSeed(m)'
<1>1. PseudoValues(m)' = {}
  BY DEF PseudoValues, PseudoValueCount
<1>2. models'[m].results \in Seq(ToSet(models'[m].results))
  OBVIOUS
<1> QED BY <1>1, <1>2 DEF Sound, Covers, HoldsSeed

(* One model changes; the others lose nothing.                             *)
LEMMA LosslessElsewhere ==
  ASSUME program \in Programs, program' = program, task' = task, SameTree, Wired, Lossless,
         NEW m \in Models, \A n \in Models : n # m => models'[n] = models[n],
         \A n \in Models : m \in Kids(n) => models[n].results = <<>>,
         Sound(m)', SeedFits => HoldsSeed(m)',
         NothingSpans /\ SubmodelsCombined /\ ExclusionsRespected => Covers(m)'
  PROVE  Lossless'
<1>1. Models' = Models
  BY TreeStays
<1>2. \A n \in Models : n # m => /\ Sound(n) => Sound(n)'
                                 /\ Covers(n) => Covers(n)'
                                 /\ HoldsSeed(n) => HoldsSeed(n)'
  <2> SUFFICES ASSUME NEW n \in Models, n # m
               PROVE  /\ Sound(n) => Sound(n)'
                      /\ Covers(n) => Covers(n)'
                      /\ HoldsSeed(n) => HoldsSeed(n)'
    OBVIOUS
  <2>1. models[n].results = <<>> \/ \A c \in Kids(n) : models'[c] = models[c]
    BY ProgramFacts
  <2> QED BY <2>1, ModelLosesNothing
<1>3. \A n \in Models : Sound(n)'
  BY <1>2 DEF Lossless
<1>4. NothingSpans' /\ SubmodelsCombined' /\ ExclusionsRespected' => \A n \in Models : Covers(n)'
  BY <1>2, PremisesStay DEF Lossless
<1>5. SeedFits' => \A n \in Models : HoldsSeed(n)'
  BY <1>2, PremisesStay DEF Lossless
<1> QED BY <1>1, <1>3, <1>4, <1>5 DEF Lossless

(* The same where no model changes.                                        *)
LEMMA LosslessStays ==
  ASSUME program \in Programs, program' = program, UNCHANGED <<parameters, models, task>>, Wired, Lossless
  PROVE  Lossless'
<1>1. SameTree
  BY DEF SameTree
<1>2. Models' = Models
  BY TreeStays
<1>3. \A n \in Models : /\ Sound(n) => Sound(n)'
                        /\ Covers(n) => Covers(n)'
                        /\ HoldsSeed(n) => HoldsSeed(n)'
  BY ModelLosesNothing
<1>4. \A n \in Models : Sound(n)'
  BY <1>3 DEF Lossless
<1>5. NothingSpans' /\ SubmodelsCombined' /\ ExclusionsRespected' => \A n \in Models : Covers(n)'
  BY <1>1, <1>3, PremisesStay DEF Lossless
<1>6. SeedFits' => \A n \in Models : HoldsSeed(n)'
  BY <1>1, <1>3, PremisesStay DEF Lossless
<1> QED BY <1>2, <1>4, <1>5, <1>6 DEF Lossless

(* The parent of the model in work has no rows yet.                        *)
LEMMA ParentFresh ==
  ASSUME program \in Programs, NEW home, Walking(home), NEW n \in Models, Top.model \in Kids(n)
  PROVE  models[n].results = <<>>
<1>1. Path /\ Progress(home)
  BY DEF Walking
<1>2. Len(calls) \in Nat \ {0} /\ Top.model \in Models
  BY <1>1, OffPath
<1>3. Len(calls) # 1
  <2>1. Len(calls) = 1 => Top.model = 0
    BY <1>1 DEF Path, Top, Root
  <2>2. n < Top.model /\ n \in Nat
    BY ProgramFacts
  <2> QED BY <2>1, <2>2
<1> DEFINE i == Len(calls) - 1
<1>4. i \in 1 .. Len(calls) - 1 /\ i \in 1 .. Len(calls) /\ i < Len(calls) /\ i + 1 = Len(calls)
  BY <1>2, <1>3
<1>5. Top.model \in Kids(calls[i].model)
  <2>1. calls[i + 1].model \in Kids(calls[i].model)
    BY <1>1, <1>4 DEF Path
  <2> QED BY <1>4, <2>1 DEF Top
<1>6. calls[i].model \in Models
  BY <1>1, <1>4, OffPath
<1>7. calls[i].model = n
  BY <1>2, <1>5, <1>6, ProgramFacts
<1>8. Fresh(calls[i].model, home)
  BY <1>1, <1>4 DEF Progress
<1> QED BY <1>7, <1>8 DEF Fresh

-----------------------------------------------------------------------------
(* What a model is generated with *)

(* An exclusion that does not relate two models is over the parameters of  *)
(* the one it went to.                                                     *)
LEMMA HousedAtHome ==
  ASSUME program \in Programs, Standing, NEW home, Housed(home), NothingSpans, NEW e \in task.exclusions
  PROVE  ParamsOf(e) \subseteq OwnParams(home[e])
<1>1. home[e] \in Below(Root) /\ ParamsOf(e) \subseteq Owned(home[e])
      /\ \A c \in Kids(home[e]) : ~ (ParamsOf(e) \subseteq Owned(c))
  BY DEF Housed
<1>2. home[e] \in Models
  BY <1>1 DEF Below
<1>3. PICK n \in Models : ParamsOf(e) \subseteq OwnParams(n)
  BY DEF NothingSpans, Standing, Wired
<1> SUFFICES ASSUME NEW p \in ParamsOf(e)
             PROVE  p \in OwnParams(home[e])
  OBVIOUS
<1>4. p \in OwnParams(n)
  BY <1>3
<1>5. p \in OwnParams(home[e]) \/ \E c \in Kids(home[e]) : p \in Owned(c)
  BY <1>1, <1>2, OwnedFacts
<1>6. ASSUME NEW c \in Kids(home[e]), p \in Owned(c)
      PROVE  FALSE
  <2>1. PICK k \in Below(c) : p \in OwnParams(k)
    BY <1>6 DEF Owned
  <2>2. k \in Models
    BY <2>1 DEF Below
  <2>3. k = n
    BY <1>3, <1>4, <2>1, <2>2, OwnApart
  <2>4. OwnParams(n) \subseteq Owned(c)
    BY <2>1, <2>3 DEF Owned
  <2> QED BY <1>1, <1>3, <2>4
<1> QED BY <1>5, <1>6

(* Exclusions that say nothing of any submodel stay what they are.         *)
LEMMA NothingMapped ==
  ASSUME NEW subs \in Seq(Int), NEW E,
         \A e \in E : \A c \in ToSet(subs) : Related(e, c) = {}
  PROVE  /\ MappedExclusions(E, subs) = E
         /\ ~ ExclusionsMapped(E, subs)
<1>1. ASSUME NEW part \in Seq(Int), ToSet(part) \subseteq ToSet(subs)
      PROVE  MappedExclusions(E, part) = E
  <2>1. PICK acc : /\ acc[0] = E
                   /\ \A k \in 1 .. Len(part) : acc[k] = UNION { Rewritten(e, part[k]) : e \in acc[k - 1] }
                   /\ MappedExclusions(E, part) = acc[Len(part)]
    BY MappedSteps
  <2> DEFINE G == { k \in 0 .. Len(part) : acc[k] = E }
  <2>2. Len(part) \in Nat
    OBVIOUS
  <2>3. 0 \in G
    BY <2>1, <2>2
  <2>4. \A k \in 1 .. Len(part) : k - 1 \in G => k \in G
    <3> SUFFICES ASSUME NEW k \in 1 .. Len(part), k - 1 \in G
                 PROVE  acc[k] = E
      OBVIOUS
    <3>1. part[k] \in ToSet(subs)
      <4>1. k \in DOMAIN part
        BY <2>2
      <4> QED BY <1>1, <4>1 DEF ToSet
    <3>2. \A e \in E : Rewritten(e, part[k]) = {e}
      BY <3>1 DEF Rewritten
    <3>3. acc[k] = UNION { Rewritten(e, part[k]) : e \in E }
      BY <2>1
    <3> QED BY <3>2, <3>3
  <2> HIDE DEF G
  <2>5. \A k \in 0 .. Len(part) : k \in G
    BY <2>2, <2>3, <2>4, UpTo
  <2>6. acc[Len(part)] = E
    BY <2>2, <2>5 DEF G
  <2> QED BY <2>1, <2>6
<1>2. MappedExclusions(E, subs) = E
  BY <1>1
<1>3. ~ ExclusionsMapped(E, subs)
  <2> SUFFICES ASSUME NEW i \in DOMAIN subs,
                      NEW e \in MappedExclusions(E, SubSeq(subs, 1, i - 1)),
                      Related(e, subs[i]) # {}
               PROVE  FALSE
    BY DEF ExclusionsMapped
  <2>1. SubSeq(subs, 1, i - 1) \in Seq(Int) /\ ToSet(SubSeq(subs, 1, i - 1)) \subseteq ToSet(subs)
    BY DEF ToSet
  <2>2. e \in E
    BY <1>1, <2>1
  <2>3. subs[i] \in ToSet(subs)
    BY DEF ToSet
  <2> QED BY <2>2, <2>3
<1> QED BY <1>2, <1>3

(* Submodels share no parameters, so that their rows do not conflict.      *)
LEMMA NoConflicts ==
  ASSUME program \in Programs, NEW m \in Models, NEW subs, ToSet(subs) = Kids(m),
         \A c \in Kids(m) : ToSet(models[c].parameters) = Owned(c)
  PROVE  Conflicts(subs) = {}
<1>1. ASSUME NEW c \in Kids(m), NEW d \in Kids(m), c # d, NEW v, NEW w
      PROVE  ~ Apart(c, v, d, w)
  <2> SUFFICES ASSUME NEW s \in RowTerms(c, v), NEW t \in RowTerms(d, w), s[1] = t[1]
               PROVE  FALSE
    BY DEF Apart
  <2>1. s[1] \in ToSet(models[c].parameters) /\ t[1] \in ToSet(models[d].parameters)
    BY DEF RowTerms, ToSet
  <2>2. s[1] \in Owned(c) /\ s[1] \in Owned(d)
    BY <2>1
  <2> QED BY <1>1, <2>2, OwnedFacts
<1> QED BY <1>1 DEF Conflicts

(***************************************************************************)
(* Rewritten submodel by submodel, the seed still says all it said of the  *)
(* model's own parameters, and names a row of each submodel it says        *)
(* something of: one that has all of that.                                 *)
(***************************************************************************)
LEMMA SeedRewritten ==
  ASSUME program \in Programs, NEW m \in Models, NEW subs \in Seq(Int),
         ToSet(subs) = Kids(m), IsInjective(subs),
         \A c \in Kids(m) : /\ ToSet(models[c].parameters) = Owned(c)
                            /\ \E v \in PseudoValues(c) : Of(Seed, c) \subseteq RowTerms(c, v)
  PROVE  /\ MappedExclusions({Seed}, subs) # {}
         /\ \A t \in MappedExclusions({Seed}, subs) : Carries(t, m) /\ FromSeed(t, m)
<1>1. PICK acc : /\ acc[0] = {Seed}
                 /\ \A k \in 1 .. Len(subs) : acc[k] = UNION { Rewritten(e, subs[k]) : e \in acc[k - 1] }
                 /\ MappedExclusions({Seed}, subs) = acc[Len(subs)]
  BY MappedSteps
<1> DEFINE Kept(t, k) == \A x \in Seed : x \in t \/ \E j \in 1 .. k : x[1] \in Owned(subs[j])
           Named(t, k) == \A j \in 1 .. k : Of(Seed, subs[j]) # {} =>
                            \E v \in PseudoValues(subs[j]) : /\ <<PseudoOf(subs[j]), v>> \in t
                                                             /\ Of(Seed, subs[j]) \subseteq RowTerms(subs[j], v)
           Stems(t, k) == \A x \in t : x \in Seed \/ \E j \in 1 .. k : x[1] = PseudoOf(subs[j])
           Good(k) == acc[k] # {} /\ \A t \in acc[k] : Kept(t, k) /\ Named(t, k) /\ Stems(t, k)
           G == { k \in 0 .. Len(subs) : Good(k) }
<1>2. Len(subs) \in Nat /\ DOMAIN subs = 1 .. Len(subs)
  OBVIOUS
<1>3. \A k \in 1 .. Len(subs) : subs[k] \in Kids(m)
  BY DEF ToSet
<1>4. \A j, k \in 1 .. Len(subs) : j # k => subs[j] # subs[k]
  BY DEF IsInjective
<1>5. 0 \in G
  <2>1. Kept(Seed, 0) /\ Named(Seed, 0) /\ Stems(Seed, 0)
    OBVIOUS
  <2>2. \A t \in acc[0] : t = Seed
    BY <1>1
  <2>3. acc[0] # {}
    BY <1>1
  <2>4. Good(0)
    BY <2>1, <2>2, <2>3
  <2> HIDE DEF Good
  <2> QED BY <1>2, <2>4
<1>6. ASSUME NEW k \in 1 .. Len(subs), k - 1 \in G
      PROVE  k \in G
  <2> DEFINE c == subs[k]
  <2>1. c \in Kids(m)
    BY <1>3
  <2>2. \A j \in 1 .. k - 1 : subs[j] \in Kids(m) /\ Owned(subs[j]) \cap Owned(c) = {}
    <3> SUFFICES ASSUME NEW j \in 1 .. k - 1
                 PROVE  subs[j] \in Kids(m) /\ Owned(subs[j]) \cap Owned(c) = {}
      OBVIOUS
    <3>1. j \in 1 .. Len(subs) /\ j # k
      BY <1>2
    <3>2. subs[j] \in Kids(m) /\ subs[j] # c
      BY <1>3, <1>4, <3>1
    <3> QED BY <2>1, <3>2, OwnedFacts
  <2>3. \A j \in 1 .. k - 1 : PseudoOf(subs[j]) \notin Owned(c)
    BY <2>1, <2>2, PseudoFacts DEF GcdParams
  <2>4. Good(k - 1)
    BY <1>6
  <2>5. acc[k] = UNION { Rewritten(t, c) : t \in acc[k - 1] }
    BY <1>1
  <2>6. ToSet(models[c].parameters) = Owned(c) /\ \E v \in PseudoValues(c) : Of(Seed, c) \subseteq RowTerms(c, v)
    BY <2>1
  <2> HIDE DEF c
  <2>7. \A t \in acc[k - 1] : Related(t, c) = Of(Seed, c)
    <3> SUFFICES ASSUME NEW t \in acc[k - 1]
                 PROVE  Related(t, c) = Of(Seed, c)
      OBVIOUS
    <3>1. Related(t, c) = { x \in t : x[1] \in Owned(c) }
      BY <2>6 DEF Related
    <3>2. \A x \in t : x[1] \in Owned(c) => x \in Seed
      BY <2>3, <2>4
    <3>3. \A x \in Seed : x[1] \in Owned(c) => x \in t
      BY <2>2, <2>4
    <3> QED BY <3>1, <3>2, <3>3 DEF Of
  <2>8. \A t \in acc[k - 1] : Rewritten(t, c) # {}
    <3> SUFFICES ASSUME NEW t \in acc[k - 1]
                 PROVE  Rewritten(t, c) # {}
      OBVIOUS
    <3>1. PICK v \in PseudoValues(c) : Of(Seed, c) \subseteq RowTerms(c, v)
      BY <2>6
    <3>2. t \in Rewritten(t, c) \/ (t \ Related(t, c)) \cup {<<PseudoOf(c), v>>} \in Rewritten(t, c)
      BY <2>7, <3>1 DEF Rewritten
    <3> QED BY <3>2
  <2>9. acc[k] # {}
    BY <2>4, <2>5, <2>8
  <2>10. ASSUME NEW u \in acc[k]
         PROVE  Kept(u, k) /\ Named(u, k) /\ Stems(u, k)
    <3>1. PICK t \in acc[k - 1] : u \in Rewritten(t, c)
      BY <2>5
    <3>2. Kept(t, k - 1) /\ Named(t, k - 1) /\ Stems(t, k - 1) /\ Related(t, c) = Of(Seed, c)
      BY <2>4, <2>7
    <3>3. 1 .. k = (1 .. k - 1) \cup {k} /\ subs[k] = c
      BY DEF c
    <3>4. CASE Of(Seed, c) = {}
      <4>1. u = t
        BY <3>1, <3>2, <3>4 DEF Rewritten
      <4> QED BY <3>2, <3>3, <3>4, <4>1
    <3>5. CASE Of(Seed, c) # {}
      <4>1. PICK v \in PseudoValues(c) : /\ Of(Seed, c) \subseteq RowTerms(c, v)
                                         /\ u = (t \ Of(Seed, c)) \cup {<<PseudoOf(c), v>>}
        BY <3>1, <3>2, <3>5 DEF Rewritten
      <4>2. Kept(u, k)
        <5>1. \A x \in Seed : x \in Of(Seed, c) => x[1] \in Owned(c)
          BY DEF Of
        <5> QED BY <3>2, <3>3, <4>1, <5>1
      <4>3. Named(u, k)
        <5>1. ASSUME NEW j \in 1 .. k - 1, Of(Seed, subs[j]) # {}
              PROVE  \E w \in PseudoValues(subs[j]) : /\ <<PseudoOf(subs[j]), w>> \in u
                                                      /\ Of(Seed, subs[j]) \subseteq RowTerms(subs[j], w)
          <6>1. PICK w \in PseudoValues(subs[j]) : /\ <<PseudoOf(subs[j]), w>> \in t
                                                   /\ Of(Seed, subs[j]) \subseteq RowTerms(subs[j], w)
            BY <3>2, <5>1
          <6>2. <<PseudoOf(subs[j]), w>> \notin Of(Seed, c)
            BY <2>3 DEF Of
          <6> QED BY <4>1, <6>1, <6>2
        <5>2. <<PseudoOf(c), v>> \in u
          BY <4>1
        <5> QED BY <3>3, <4>1, <5>1, <5>2
      <4>4. Stems(u, k)
        <5>1. \A x \in u : x \in t \/ x[1] = PseudoOf(c)
          BY <4>1
        <5> QED BY <3>2, <3>3, <5>1
      <4> QED BY <4>2, <4>3, <4>4
    <3> QED BY <3>4, <3>5
  <2>11. Good(k)
    BY <2>9, <2>10
  <2> HIDE DEF Good
  <2> QED BY <2>11
<1> HIDE DEF G
<1>7. Len(subs) \in G
  <2>1. \A k \in 1 .. Len(subs) : k - 1 \in G => k \in G
    BY <1>6
  <2>2. Len(subs) \in Nat
    BY <1>2
  <2>3. \A k \in 0 .. Len(subs) : k \in G
    BY ONLY <1>5, <2>1, <2>2, UpTo
  <2> QED BY <2>2, <2>3
<1>8. Good(Len(subs))
  BY <1>7 DEF G
<1>9. ASSUME NEW t, Kept(t, Len(subs)), Named(t, Len(subs)), Stems(t, Len(subs))
      PROVE  Carries(t, m) /\ FromSeed(t, m)
  <2>1. \A x \in Seed : x[1] \in OwnParams(m) => x \in t
    <3>1. \A j \in 1 .. Len(subs) : OwnParams(m) \cap Owned(subs[j]) = {}
      BY <1>3, OwnedFacts
    <3> QED BY <1>9, <3>1
  <2>2. \A d \in Kids(m) : \E j \in 1 .. Len(subs) : d = subs[j]
    BY <1>2 DEF ToSet
  <2>3. \A d \in Kids(m) : Of(Seed, d) # {} =>
          \E v \in PseudoValues(d) : <<PseudoOf(d), v>> \in t /\ Of(Seed, d) \subseteq RowTerms(d, v)
    BY <1>9, <2>2
  <2>4. FromSeed(t, m)
    BY <1>3, <1>9 DEF FromSeed
  <2> QED BY <2>1, <2>3, <2>4 DEF Carries
<1> QED BY <1>1, <1>8, <1>9

LEMMA WiderSeq ==
  ASSUME NEW A, NEW B, A \subseteq B, NEW s \in Seq(A)
  PROVE  s \in Seq(B)
<1>1. Len(s) \in Nat /\ s = [i \in 1 .. Len(s) |-> s[i]]
  OBVIOUS
<1>2. \A i \in 1 .. Len(s) : s[i] \in B
  OBVIOUS
<1> QED BY <1>1, <1>2

(***************************************************************************)
(* A model starts on its own exclusions, and on seeds each of which has    *)
(* all of the task's seed.                                                 *)
(***************************************************************************)
LEMMA GenerateCovers ==
  ASSUME program \in Programs, program' = program, NEW home, Walking(home),
         Generate(parameters), pc' = "gcd", Lossless, NEW m, m = Top.model
  PROVE  Lossless' /\ AtWork(m)'
<1> DEFINE subs == models[m].submodels
<1>1. /\ Walking(home)' /\ SameTree /\ task' = task
      /\ \A n \in Models : n # m => models'[n] = models[n]
      /\ models'[m].rowSeeds = MappedSeeds(models[m].rowSeeds, subs)
      /\ \/ ExclusionsMapped(models[m].exclusions, subs)
         \/ Conflicts(subs) # {}
         \/ models'[m].exclusions = MappedExclusions(models[m].exclusions, subs)
  BY GenerateKeeps
<1>2. Standing /\ Wired /\ Housed(home) /\ Path /\ Fresh(m, home) /\ Top.left = <<>>
  BY DEF Walking, Generate, Standing
<1>3. m \in Models
  BY <1>2, OffPath
<1>4. Models' = Models /\ Kids(m)' = Kids(m) /\ OwnParams(m)' = OwnParams(m) /\ Owned(m)' = Owned(m)
  BY TreeStays
<1>5. calls' = calls /\ Top' = Top
  BY DEF Generate, Top
<1>6. models'[m].results = <<>>
  <2>1. InWork(Top.model, home)'
    BY <1>1 DEF Walking
  <2>2. models'[Top'.model].results = <<>>
    BY <2>1 DEF InWork
  <2> QED BY <1>5, <2>2
<1>7. Lossless'
  <2>1. Sound(m)' /\ Covers(m)' /\ HoldsSeed(m)'
    BY <1>6, NothingToLose
  <2>2. \A n \in Models : m \in Kids(n) => models[n].results = <<>>
    BY ParentFresh
  <2> QED BY <1>1, <1>2, <1>3, <2>1, <2>2, LosslessElsewhere
<1>8. \A c \in Kids(m) : /\ c \in Models /\ c # m /\ models'[c] = models[c]
                         /\ Finished(c, home)
  BY <1>1, <1>2, KidsAreDone
<1>9. AllDone(m)' <=> AllDone(m)
  BY <1>4, <1>8 DEF AllDone
<1>10. subs \in Seq(Models) /\ subs \in Seq(Int) /\ ToSet(subs) = Kids(m) /\ IsInjective(subs)
  <2>1. subs \in Seq(Models) /\ ToSet(subs) = Kids(m) /\ IsInjective(subs)
    BY <1>2, <1>3 DEF Standing, Wired
  <2>2. Models \subseteq Int
    BY ProgramFacts
  <2> QED BY <2>1, <2>2, WiderSeq
<1>11. AllDone(m) => \A c \in Kids(m) : ToSet(models[c].parameters) = Owned(c)
  BY <1>8 DEF AllDone, Finished
<1>12. \A e \in models[m].exclusions : e \in task.exclusions /\ home[e] = m
  BY <1>2 DEF Fresh
<1>13. ASSUME NothingSpans, AllDone(m)
       PROVE  OwnOnly(m)'
  <2>1. \A e \in models[m].exclusions : e \in task.exclusions /\ ParamsOf(e) \subseteq OwnParams(m)
    BY <1>2, <1>12, <1>13, HousedAtHome
  <2>2. \A e \in models[m].exclusions : \A c \in ToSet(subs) : Related(e, c) = {}
    <3> SUFFICES ASSUME NEW e \in models[m].exclusions, NEW c \in Kids(m), NEW t \in Related(e, c)
                 PROVE  FALSE
      BY <1>10
    <3>1. t \in e /\ t[1] \in Owned(c)
      BY <1>11, <1>13 DEF Related
    <3>2. t[1] \in OwnParams(m)
      BY <2>1, <3>1 DEF ParamsOf
    <3> QED BY <1>3, <3>1, <3>2, OwnedFacts
  <2>3. /\ MappedExclusions(models[m].exclusions, subs) = models[m].exclusions
        /\ ~ ExclusionsMapped(models[m].exclusions, subs)
    BY <1>10, <2>2, NothingMapped
  <2>4. Conflicts(subs) = {}
    BY <1>3, <1>10, <1>11, <1>13, NoConflicts
  <2>5. models'[m].exclusions = models[m].exclusions
    BY <1>1, <2>3, <2>4
  <2> QED BY <1>1, <1>4, <2>1, <2>5 DEF OwnOnly
<1>14. ASSUME SeedFits, AllDone(m)
       PROVE  SeedReady(m)'
  <2>1. task.rowSeeds \in Seq(program.seeds) /\ Len(task.rowSeeds) = 1 /\ models[m].rowSeeds = task.rowSeeds
    BY <1>2, <1>14 DEF Standing, Fresh, SeedFits
  <2>2. ToSet(models[m].rowSeeds) = {Seed}
    BY <2>1 DEF ToSet, Seed
  <2>3. \A c \in ToSet(subs) : Len(models[c].results) \in Nat
    BY <1>8, <1>10 DEF Finished
  <2>4. /\ MappedSeeds(models[m].rowSeeds, subs) \in Seq(ToSet(MappedSeeds(models[m].rowSeeds, subs)))
        /\ ToSet(MappedSeeds(models[m].rowSeeds, subs)) = MappedExclusions({Seed}, subs)
    <3> DEFINE seeds == models[m].rowSeeds
    <3>1. subs \in Seq(Int) /\ seeds \in Seq(program.seeds) /\ ToSet(seeds) = {Seed}
      BY <1>10, <2>1, <2>2
    <3> HIDE DEF subs, seeds
    <3>2. /\ MappedSeeds(seeds, subs) \in Seq(ToSet(MappedSeeds(seeds, subs)))
          /\ ToSet(MappedSeeds(seeds, subs)) = MappedExclusions(ToSet(seeds), subs)
      BY ONLY <2>3, <3>1, MappedSeedsOf
    <3> QED BY <3>1, <3>2 DEF seeds
  <2>5. \A c \in Kids(m) : \E v \in PseudoValues(c) : Of(Seed, c) \subseteq RowTerms(c, v)
    BY <1>8, <1>14 DEF Lossless, HoldsSeed, AllDone
  <2>6. /\ MappedExclusions({Seed}, subs) # {}
        /\ \A t \in MappedExclusions({Seed}, subs) : Carries(t, m) /\ FromSeed(t, m)
    BY <1>3, <1>10, <1>11, <1>14, <2>5, SeedRewritten
  <2>7. \A t : (Carries(t, m)' <=> Carries(t, m)) /\ (FromSeed(t, m)' <=> FromSeed(t, m))
    <3>1. Seed' = Seed /\ \A n : Of(Seed, n)' = Of(Seed, n)
      BY <1>1, <1>2, PremisesStay
    <3>2. \A c \in Kids(m) : models'[c] = models[c]
      BY <1>8
    <3> QED BY <3>1, <3>2, CarriesStays
  <2>8. MappedSeeds(models[m].rowSeeds, subs) # <<>>
    <3>1. ToSet(<<>>) = {}
      BY DEF ToSet
    <3> QED BY <2>4, <2>6, <3>1
  <2> HIDE DEF subs
  <2> QED BY <1>1, <2>4, <2>6, <2>7, <2>8 DEF SeedReady
<1>15. (NothingSpans' <=> NothingSpans) /\ (SeedFits' <=> SeedFits)
  BY <1>1, <1>2, PremisesStay
<1>16. AtWork(m)'
  BY <1>4, <1>9, <1>13, <1>14, <1>15 DEF AtWork
<1> QED BY <1>7, <1>16

-----------------------------------------------------------------------------
(* The seeds a model starts from *)

(* Of finitely many sets one is in no larger one: the first of these.      *)
LEMMA FirstLargest ==
  ASSUME NEW n \in Nat \ {0}, NEW s
  PROVE  \E i \in 1 .. n : \A j \in 1 .. n : s[i] \subseteq s[j] => s[i] = s[j] /\ i <= j
<1> DEFINE D == 1 .. n
           in == [i \in D |-> { j \in D : s[j] \subseteq s[i] }]
           count == [i \in D |-> Cardinality(in[i])]
<1>1. IsFiniteSet(D) /\ D # {} /\ D \in SUBSET Int
  <2>1. IsFiniteSet(D)
    BY FS_Interval
  <2>2. 1 \in D
    OBVIOUS
  <2>3. D \in SUBSET Int
    OBVIOUS
  <2> QED BY <2>1, <2>2, <2>3
<1>2. \A i \in D : in[i] \in SUBSET D /\ IsFiniteSet(in[i]) /\ count[i] \in Int
  <2> SUFFICES ASSUME NEW i \in D
               PROVE  in[i] \in SUBSET D /\ IsFiniteSet(in[i]) /\ count[i] \in Int
    OBVIOUS
  <2>1. in[i] \in SUBSET D
    OBVIOUS
  <2>2. IsFiniteSet(in[i])
    BY <1>1, <2>1, FS_Subset
  <2>3. Cardinality(in[i]) \in Nat
    BY <2>2, FS_CardinalityType
  <2> QED BY <2>1, <2>2, <2>3
<1>3. PICK top \in D : \A i \in D : count[i] <= count[top]
  <2> HIDE DEF count, D
  <2> QED BY <1>1, <1>2, LargestOf
<1>4. ASSUME NEW j \in D, s[top] \subseteq s[j]
      PROVE  s[top] = s[j]
  <2>1. in[top] \in SUBSET in[j]
    BY <1>4
  <2>2. Cardinality(in[top]) <= Cardinality(in[j])
        /\ (Cardinality(in[j]) = Cardinality(in[top]) => in[j] = in[top])
    BY <1>2, <2>1, FS_Subset
  <2>3. Cardinality(in[j]) <= Cardinality(in[top])
    BY <1>3
  <2>4. Cardinality(in[j]) \in Int /\ Cardinality(in[top]) \in Int
    BY <1>2
  <2>5. in[j] = in[top]
    BY <2>2, <2>3, <2>4
  <2>6. j \in in[j]
    OBVIOUS
  <2>7. s[j] \subseteq s[top]
    BY <2>5, <2>6
  <2> QED BY <1>4, <2>7
<1> DEFINE equal == { i \in D : s[i] = s[top] }
<1>5. equal \in SUBSET Int /\ equal # {} /\ IsFiniteSet(equal)
  <2>1. equal \in SUBSET D /\ top \in equal
    OBVIOUS
  <2>2. IsFiniteSet(equal)
    BY <1>1, <2>1, FS_Subset
  <2> QED BY <1>1, <2>1, <2>2
<1>6. PICK i \in equal : \A j \in equal : i <= j
  <2> HIDE DEF equal
  <2> QED BY <1>5, LastOf
<1>7. ASSUME NEW j \in D, s[i] \subseteq s[j]
      PROVE  s[i] = s[j] /\ i <= j
  <2>1. s[i] = s[top]
    BY <1>6
  <2>2. s[j] = s[top]
    BY <1>4, <1>7, <2>1
  <2> QED BY <1>6, <1>7, <2>1, <2>2
<1> QED BY <1>6, <1>7

(***************************************************************************)
(* fixRowSeeds leaves one where each has terms the model knows and none    *)
(* violates an exclusion.                                                  *)
(***************************************************************************)
LEMMA SeedIsLeft ==
  ASSUME NEW counts, NEW A, NEW seeds \in Seq(A), seeds # <<>>, NEW E,
         NEW fixed \in Engine(counts)!FixedSeeds(seeds, E),
         \A t \in ToSet(seeds) : /\ t \cap Engine(counts)!Term # {}
                                 /\ ~ \E e \in E : e \subseteq t \cap Engine(counts)!Term
  PROVE  fixed # <<>> /\ \E t \in ToSet(seeds) : Head(fixed) = t \cap Engine(counts)!Term
<1> DEFINE term == Engine(counts)!Term
           known == [i \in DOMAIN seeds |-> seeds[i] \cap term]
           redundant(i) == \/ known[i] = {}
                           \/ \E j \in DOMAIN known \ {i} :
                                known[i] \subseteq known[j] /\ (known[i] = known[j] => j < i)
           keep == { i \in DOMAIN known : ~ redundant(i) /\ ~ \E e \in E : e \subseteq known[i] }
           n == Len(seeds)
<1>1. fixed \in Engine(counts)!Kept(known, keep)
  BY DEF Engine!FixedSeeds, Engine!KnownTerms, Engine!Redundant, Engine!ViolatesAny, Engine!Contained
<1>2. n \in Nat \ {0} /\ DOMAIN seeds = 1 .. n /\ DOMAIN known = 1 .. n
  OBVIOUS
<1>3. \A i \in 1 .. n : seeds[i] \in ToSet(seeds) /\ known[i] = seeds[i] \cap term
  BY <1>2 DEF ToSet
<1>4. \A i \in 1 .. n : known[i] # {} /\ ~ \E e \in E : e \subseteq known[i]
  BY <1>3
<1> HIDE DEF known, term, n
<1>5. PICK i \in 1 .. n : \A j \in 1 .. n : known[i] \subseteq known[j] => known[i] = known[j] /\ i <= j
  BY <1>2, FirstLargest
<1>6. i \in keep
  <2>1. ~ redundant(i)
    BY <1>2, <1>4, <1>5
  <2> QED BY <1>2, <1>4, <2>1
<1>7. keep \subseteq 1 .. n
  BY <1>2
<1> HIDE DEF keep
<1>8. IsFiniteSet(keep) /\ Cardinality(keep) \in Nat /\ Cardinality(keep) # 0
  <2>1. IsFiniteSet(1 .. n)
    BY <1>2, FS_Interval
  <2>2. IsFiniteSet(keep)
    BY <1>7, <2>1, FS_Subset
  <2> QED BY <1>6, <2>2, FS_CardinalityType, FS_EmptySet
<1> DEFINE card == Cardinality(keep)
<1>9. PICK index \in [1 .. card -> keep] : fixed = [k \in 1 .. card |-> known[index[k]]]
  BY <1>1, KeptPlaces
<1>10. index[1] \in 1 .. n
  <2>1. 1 \in 1 .. card
    BY <1>8
  <2> QED BY <1>7, <1>9, <2>1
<1>11. fixed \in Seq({ known[k] : k \in 1 .. n }) /\ Len(fixed) = card
  <2>1. \A k \in 1 .. card : index[k] \in 1 .. n
    BY <1>7, <1>9
  <2> HIDE DEF card
  <2>2. card \in Nat
    BY <1>8 DEF card
  <2> QED BY <1>9, <2>1, <2>2
<1>12. fixed # <<>> /\ Head(fixed) = known[index[1]]
  <2>1. 1 \in 1 .. card /\ card # 0
    BY <1>8
  <2>2. fixed[1] = known[index[1]]
    BY <1>9, <2>1
  <2>3. fixed # <<>>
    BY <1>11, <2>1
  <2> QED BY <1>11, <2>2, <2>3
<1> QED BY <1>3, <1>10, <1>12 DEF term

(* What such a seed keeps of itself.                                       *)
LEMMA KnownPart ==
  ASSUME program \in Programs, NEW m \in Models, NEW counts,
         counts = ValueCounts(GcdParams(m), parameters), Assembled(m, parameters),
         SeedFits, OwnOnly(m), Of(Seed, m) # {},
         NEW t, Carries(t, m), FromSeed(t, m)
  PROVE  LET known == t \cap Engine(counts)!Term
         IN  known # {} /\ Carries(known, m) /\ ~ \E e \in models[m].exclusions : e \subseteq known
<1> DEFINE term == Engine(counts)!Term
           known == t \cap term
<1>1. /\ DOMAIN counts = GcdParams(m)
      /\ \A p \in GcdParams(m) : counts[p] = parameters[p].valueCount
  BY DEF ValueCounts
<1>2. \A p \in GcdParams(m) : \A v \in 0 .. parameters[p].valueCount - 1 : <<p, v>> \in term
  BY <1>1 DEF Engine!Term, Engine!Values
<1> HIDE DEF term
<1>3. \A x \in Seed : x[1] \in OwnParams(m) => x \in known
  <2> SUFFICES ASSUME NEW x \in Seed, x[1] \in OwnParams(m)
               PROVE  x \in known
    OBVIOUS
  <2>1. PICK p, v : x = <<p, v>> /\ v \in 0 .. parameters[p].valueCount - 1
    BY DEF SeedFits, Possible
  <2>2. p \in GcdParams(m)
    BY <2>1 DEF GcdParams
  <2>3. x \in t
    BY DEF Carries
  <2> QED BY <1>2, <2>1, <2>2, <2>3
<1>4. \A c \in Kids(m) : Of(Seed, c) # {} =>
        \E v \in PseudoValues(c) : <<PseudoOf(c), v>> \in known /\ Of(Seed, c) \subseteq RowTerms(c, v)
  <2> SUFFICES ASSUME NEW c \in Kids(m), Of(Seed, c) # {}
               PROVE  \E v \in PseudoValues(c) : <<PseudoOf(c), v>> \in known /\ Of(Seed, c) \subseteq RowTerms(c, v)
    OBVIOUS
  <2>1. PICK v \in PseudoValues(c) : <<PseudoOf(c), v>> \in t /\ Of(Seed, c) \subseteq RowTerms(c, v)
    BY DEF Carries
  <2>2. v \in 0 .. parameters[PseudoOf(c)].valueCount - 1 /\ PseudoOf(c) \in GcdParams(m)
    BY <2>1 DEF Assembled, PseudoValues, PseudoValueCount, GcdParams
  <2>3. <<PseudoOf(c), v>> \in known
    BY <1>2, <2>1, <2>2
  <2> QED BY <2>1, <2>3
<1>5. Carries(known, m)
  BY <1>3, <1>4 DEF Carries
<1>6. known # {}
  <2>1. PICK x \in Seed : x[1] \in Owned(m)
    BY DEF Of
  <2>2. x[1] \in OwnParams(m) \/ \E c \in Kids(m) : x[1] \in Owned(c)
    BY <2>1, OwnedFacts
  <2>3. CASE x[1] \in OwnParams(m)
    BY <1>3, <2>3
  <2>4. ASSUME NEW c \in Kids(m), x[1] \in Owned(c)
        PROVE  known # {}
    <3>1. Of(Seed, c) # {}
      BY <2>4 DEF Of
    <3> QED BY <1>4, <3>1
  <2> QED BY <2>2, <2>3, <2>4
<1>7. ASSUME NEW e \in models[m].exclusions, e \subseteq known
      PROVE  FALSE
  <2>1. e \in task.exclusions /\ ParamsOf(e) \subseteq OwnParams(m)
    BY DEF OwnOnly
  <2>2. \A x \in e : x \in Seed
    <3> SUFFICES ASSUME NEW x \in e, x \notin Seed
                 PROVE  FALSE
      OBVIOUS
    <3>1. PICK c \in Kids(m) : x[1] = PseudoOf(c)
      BY <1>7 DEF FromSeed
    <3>2. x[1] \in OwnParams(m)
      BY <2>1 DEF ParamsOf
    <3> QED BY <3>1, <3>2, PseudoFacts
  <2> QED BY <2>1, <2>2 DEF SeedFits
<1> QED BY <1>5, <1>6, <1>7 DEF term

-----------------------------------------------------------------------------
(* The steps of gcd *)

(* What gcd has to show for itself stays while the row in work changes.    *)
LEMMA AtWorkStays ==
  ASSUME program \in Programs, program' = program, UNCHANGED <<pc, parameters, models, task, calls, run>>, Wired,
         NEW m, AtWork(m)
  PROVE  AtWork(m)'
<1>1. SameTree
  BY DEF SameTree
<1>2. /\ NothingSpans' <=> NothingSpans
      /\ SeedFits' <=> SeedFits
      /\ Seed' = Seed /\ \A n : Of(Seed, n)' = Of(Seed, n)
  BY <1>1, PremisesStay
<1>3. Kids(m)' = Kids(m) /\ OwnParams(m)' = OwnParams(m)
  BY TreeStays
<1>4. (AllDone(m)' <=> AllDone(m)) /\ (OwnOnly(m)' <=> OwnOnly(m))
  BY <1>1, <1>3 DEF AllDone, OwnOnly
<1>5. \A t : (Carries(t, m)' <=> Carries(t, m)) /\ (FromSeed(t, m)' <=> FromSeed(t, m))
  BY <1>1, <1>2, CarriesStays
<1>6. SeedReady(m) => SeedReady(m)'
  BY <1>1, <1>5 DEF SeedReady
<1>7. SeedNext(m) => SeedNext(m)'
  <2>1. Carries(Head(run.seeds), m) => Carries(Head(run.seeds), m)'
    <3> DEFINE head == Head(run.seeds)
    <3>1. PICK h : h = head
      OBVIOUS
    <3>2. head' = h
      BY <1>1, <3>1
    <3>3. Carries(h, m) => Carries(h, m)'
      BY <1>5
    <3> QED BY <3>1, <3>2, <3>3 DEF Carries
  <2> QED BY <1>1, <1>2, <1>5, <2>1 DEF SeedNext
<1>8. NothingMissed(m) => NothingMissed(m)'
  <2>1. MyCounts' = MyCounts /\ (\A k : Violates(k)' <=> Violates(k)) /\ \A cs : AllEntries(cs)' = AllEntries(cs)
    BY <1>1 DEF MyCounts, MyParams, Self, Top, Violates, AllEntries
  <2> QED BY <1>1, <2>1 DEF NothingMissed
<1> QED BY <1>2, <1>3, <1>4, <1>6, <1>7, <1>8 DEF AtWork

LEMMA GcdBeginsCovers ==
  ASSUME program \in Programs, program' = program, NEW home, Walking(home),
         GcdBegins, pc' = "rows", Lossless, NEW m, m = Top.model, AtWork(m)
  PROVE  Lossless' /\ AtWork(m)'
<1>1. /\ m \in Models /\ pc = "gcd" /\ Top.left = <<>> /\ Standing /\ Wired
      /\ task' = task /\ calls' = calls /\ parameters' = parameters
      /\ InWork(m, home) /\ Self = models[m] /\ Path
  BY OffPath DEF Walking, GcdBegins, Self, Standing
<1>2. MyParams = GcdParams(m)
  BY <1>1 DEF InWork, MyParams
<1> DEFINE counts == ValueCounts(GcdParams(m), parameters)
<1>3. MyCounts = {counts}
  BY <1>2 DEF MyCounts
<1>4. PICK fixed \in Engine(counts)!FixedSeeds(models[m].rowSeeds, models[m].exclusions) :
        /\ models' = [models EXCEPT ![m].rowSeeds = fixed]
        /\ run' = [open |-> { k \in AllEntries(counts) : ~ Violates(k) }, rows |-> {}, seeds |-> fixed]
  <2>1. \E cs \in MyCounts : \E fixed \in Engine(cs)!FixedSeeds(Self.rowSeeds, Self.exclusions) :
          /\ models' = [models EXCEPT ![Top.model].rowSeeds = fixed]
          /\ run' = [open |-> { k \in AllEntries(cs) : ~ Violates(k) }, rows |-> {}, seeds |-> fixed]
    BY <1>1 DEF GcdBegins
  <2> HIDE DEF counts
  <2> QED BY <1>1, <1>3, <2>1
<1> HIDE DEF counts
<1>5. DOMAIN models = Models /\ \A n \in Models : IsModel(models[n])
  BY <1>1 DEF Standing, Wired
<1>6. /\ models'[m] = [order |-> models[m].order, parameters |-> models[m].parameters,
                       submodels |-> models[m].submodels, exclusions |-> models[m].exclusions,
                       rowSeeds |-> fixed, results |-> models[m].results]
      /\ \A n \in Models : n # m => models'[n] = models[n]
      /\ DOMAIN models' = Models
  BY <1>1, <1>4, <1>5 DEF IsModel
<1>7. SameTree
  BY <1>1, <1>5, <1>6 DEF SameTree
<1>8. \A c \in Kids(m) : models'[c] = models[c]
  BY <1>1, <1>6, ProgramFacts
<1>9. /\ Models' = Models /\ Kids(m)' = Kids(m) /\ OwnParams(m)' = OwnParams(m)
      /\ Owned(m)' = Owned(m) /\ GcdParams(m)' = GcdParams(m)
  BY TreeStays
<1>10. models[m].results = <<>>
  BY <1>1 DEF InWork
<1>11. Lossless'
  <2>1. Sound(m)' /\ Covers(m)' /\ HoldsSeed(m)'
    BY <1>6, <1>10, NothingToLose
  <2>2. \A n \in Models : m \in Kids(n) => models[n].results = <<>>
    BY ParentFresh
  <2> QED BY <1>1, <1>6, <1>7, <2>1, <2>2, LosslessElsewhere
<1>12. /\ NothingSpans' <=> NothingSpans
       /\ SeedFits' <=> SeedFits
       /\ Seed' = Seed /\ \A n : Of(Seed, n)' = Of(Seed, n)
  BY <1>1, <1>7, PremisesStay
<1>13. AllDone(m)' <=> AllDone(m)
  BY <1>8, <1>9 DEF AllDone
<1>14. OwnOnly(m) => OwnOnly(m)'
  BY <1>1, <1>6, <1>9 DEF OwnOnly
<1>15. Self' = models'[m] /\ MyParams' = MyParams /\ MyCounts' = MyCounts
       /\ \A k : Violates(k)' <=> Violates(k)
  <2>1. Self' = models'[m]
    BY <1>1 DEF Self, Top
  <2>2. Self'.parameters = Self.parameters /\ Self'.exclusions = Self.exclusions
    BY <1>1, <1>6, <2>1
  <2> QED BY <1>1, <2>1, <2>2 DEF MyParams, MyCounts, Violates
<1>16. \A cs : AllEntries(cs)' = AllEntries(cs)
  BY <1>1, <1>15 DEF AllEntries
<1>17. NothingMissed(m)'
  <2>1. \A k \in AllEntries(counts) : Violates(k) \/ k \in run'.open
    BY <1>4
  <2> QED BY <1>3, <1>15, <1>16, <2>1 DEF NothingMissed
<1>18. \A t : Carries(t, m)' <=> Carries(t, m)
  BY <1>8, <1>12, CarriesStays
<1>19. ASSUME SeedFits, AllDone(m)
       PROVE  SeedNext(m)'
  <2>1. SeedReady(m) /\ OwnOnly(m)
    BY <1>1, <1>19 DEF AtWork, SeedFits
  <2>2. CASE Of(Seed, m) = {}
    BY <1>12, <2>2 DEF SeedNext
  <2>3. CASE Of(Seed, m) # {}
    <3> DEFINE term == Engine(counts)!Term
    <3>1. \A t \in ToSet(models[m].rowSeeds) :
            /\ t \cap term # {} /\ Carries(t \cap term, m)
            /\ ~ \E e \in models[m].exclusions : e \subseteq t \cap term
      <4> SUFFICES ASSUME NEW t \in ToSet(models[m].rowSeeds)
                   PROVE  /\ t \cap term # {} /\ Carries(t \cap term, m)
                          /\ ~ \E e \in models[m].exclusions : e \subseteq t \cap term
        OBVIOUS
      <4>1. Carries(t, m) /\ FromSeed(t, m)
        BY <2>1 DEF SeedReady
      <4>2. Assembled(m, parameters)
        BY <1>1 DEF InWork
      <4>3. counts = ValueCounts(GcdParams(m), parameters)
        BY DEF counts
      <4> QED BY <1>1, <1>19, <2>1, <2>3, <4>1, <4>2, <4>3, KnownPart
    <3>2. models[m].rowSeeds \in Seq(ToSet(models[m].rowSeeds)) /\ models[m].rowSeeds # <<>>
      BY <2>1 DEF SeedReady
    <3>3. fixed # <<>> /\ \E t \in ToSet(models[m].rowSeeds) : Head(fixed) = t \cap term
      <4>1. \A t \in ToSet(models[m].rowSeeds) :
              t \cap term # {} /\ ~ \E e \in models[m].exclusions : e \subseteq t \cap term
        BY <3>1
      <4>2. fixed \in Engine(counts)!FixedSeeds(models[m].rowSeeds, models[m].exclusions)
        BY <1>4
      <4> QED BY <3>2, <4>1, <4>2, SeedIsLeft
    <3>4. Carries(Head(fixed), m)
      BY <3>1, <3>3
    <3>5. run'.rows = {} /\ run'.seeds = fixed
      BY <1>4
    <3>6. Carries(Head(fixed), m)'
      <4> DEFINE head == Head(fixed)
      <4> HIDE DEF head
      <4>1. Carries(head, m) => Carries(head, m)'
        BY <1>18
      <4> QED BY <3>4, <4>1 DEF head
    <3> QED BY <3>3, <3>5, <3>6 DEF SeedNext
  <2> QED BY <2>2, <2>3
<1>20. AtWork(m)'
  <2>1. NothingSpans /\ AllDone(m) => OwnOnly(m)
    BY DEF AtWork
  <2>2. pc' = "rows"
    OBVIOUS
  <2> QED BY <1>9, <1>12, <1>13, <1>14, <1>17, <1>19, <2>1, <2>2 DEF AtWork
<1> QED BY <1>11, <1>20

(* While a row is built, nothing is lost: what it takes counts when it is  *)
(* complete.                                                               *)
LEMMA RowStepCovers ==
  ASSUME program \in Programs, program' = program, NEW home, Walking(home),
         BindSeed \/ BindCombination \/ PickValue, pc' = "rows",
         Lossless, NEW m, m = Top.model, AtWork(m)
  PROVE  Lossless' /\ AtWork(m)'
<1>1. UNCHANGED <<parameters, models, task, calls, run>> /\ pc = "rows" /\ Wired
  BY DEF BindSeed, BindCombination, PickValue, RowUnfinished, RowBegins, Walking, Standing
<1>2. AtWork(m)'
  BY <1>1, AtWorkStays
<1> QED BY <1>1, <1>2, LosslessStays

LEMMA AddRowCovers ==
  ASSUME program \in Programs, program' = program, NEW home, Walking(home),
         AddRow, Lossless, NEW m, m = Top.model, AtWork(m)
  PROVE  Lossless' /\ AtWork(m)'
<1>1. /\ m \in Models /\ pc = "rows" /\ pc' = "rows" /\ Standing /\ Wired
      /\ UNCHANGED <<parameters, models, task, calls>>
  BY OffPath DEF Walking, AddRow, Standing
<1> DEFINE r == bound
<1>2. /\ run.seeds # <<>> => Head(run.seeds) \subseteq r
      /\ run' = [open  |-> { k \in run.open : ~ (k \subseteq r) },
                 rows  |-> run.rows \cup {r},
                 seeds |-> IF run.seeds = <<>> THEN <<>> ELSE Tail(run.seeds)]
  BY <1>1, RowFinished DEF AddRow, Walking
<1> HIDE DEF r
<1>3. Lossless'
  BY <1>1, LosslessStays
<1>4. SameTree
  BY <1>1 DEF SameTree
<1>5. /\ NothingSpans' <=> NothingSpans
      /\ SeedFits' <=> SeedFits
      /\ Seed' = Seed /\ \A n : Of(Seed, n)' = Of(Seed, n)
  BY <1>1, <1>4, PremisesStay
<1>6. Kids(m)' = Kids(m) /\ OwnParams(m)' = OwnParams(m) /\ Owned(m)' = Owned(m)
  BY TreeStays
<1>7. AllDone(m)' <=> AllDone(m)
  BY <1>1, <1>6 DEF AllDone
<1>8. OwnOnly(m)' <=> OwnOnly(m)
  BY <1>1, <1>6 DEF OwnOnly
<1>9. NothingMissed(m)'
  <2>1. NothingMissed(m)
    BY <1>1 DEF AtWork
  <2>2. MyCounts' = MyCounts /\ (\A k : Violates(k)' <=> Violates(k)) /\ \A cs : AllEntries(cs)' = AllEntries(cs)
    BY <1>1 DEF MyCounts, MyParams, Self, Top, Violates, AllEntries
  <2>3. \A k : k \in run.open \/ (\E s \in run.rows : k \subseteq s)
               => k \in run'.open \/ \E s \in run'.rows : k \subseteq s
    BY <1>2
  <2> QED BY <2>1, <2>2, <2>3 DEF NothingMissed
<1>10. \A t : Carries(t, m)' <=> Carries(t, m)
  BY <1>1, <1>5, CarriesStays
<1>11. ASSUME SeedNext(m)
       PROVE  SeedNext(m)'
  <2>1. CASE Of(Seed, m) = {}
    BY <1>5, <2>1 DEF SeedNext
  <2>2. CASE run.rows = {} /\ run.seeds # <<>> /\ Carries(Head(run.seeds), m)
    <3>1. Head(run.seeds) \subseteq r
      BY <1>2, <2>2
    <3>2. Carries(r, m)
      BY <2>2, <3>1 DEF Carries
    <3> QED BY <1>2, <1>10, <3>2 DEF SeedNext
  <2>3. CASE \E s \in run.rows : Carries(s, m)
    <3>1. PICK s \in run.rows : Carries(s, m)
      BY <2>3
    <3>2. s \in run'.rows
      BY <1>2
    <3> QED BY <1>10, <3>1, <3>2 DEF SeedNext
  <2> QED BY <1>11, <2>1, <2>2, <2>3 DEF SeedNext
<1>12. AtWork(m)'
  <2>1. NothingSpans /\ AllDone(m) => OwnOnly(m)
    BY DEF AtWork
  <2>2. SeedFits /\ AllDone(m) => SeedNext(m)
    BY <1>1 DEF AtWork
  <2> QED BY <1>1, <1>5, <1>6, <1>7, <1>8, <1>9, <1>11, <2>1, <2>2 DEF AtWork
<1> QED BY <1>3, <1>12

(***************************************************************************)
(* The rows have every row of a submodel that is in some combination: put  *)
(* it in place of the one any row picked; what that is an entry of is no   *)
(* more ruled out than the row is, as no exclusion speaks of submodels.    *)
(***************************************************************************)
LEMMA EveryRowPicked ==
  ASSUME program \in Programs, NEW home, Walking(home), pc = "rows", run.open = {},
         NEW m \in Models, m = Top.model, AtWork(m), AllDone(m), NothingSpans, SubmodelsCombined,
         ExclusionsRespected, run.rows # {}, NEW c \in Kids(m), NEW v \in PseudoValues(c)
  PROVE  \E r \in run.rows : <<PseudoOf(c), v>> \in r
<1> DEFINE counts == ValueCounts(GcdParams(m), parameters)
           known == WithSubmodels(m)
<1>1. Wired /\ InWork(m, home) /\ Self = models[m]
  BY DEF Walking, Standing, Self
<1>2. MyParams = GcdParams(m)
  BY <1>1 DEF InWork, MyParams
<1>3. /\ DOMAIN counts = GcdParams(m)
      /\ \A p \in GcdParams(m) : counts[p] = parameters[p].valueCount
  BY DEF ValueCounts
<1>4. MyCounts = {counts}
  BY <1>2 DEF MyCounts
<1> HIDE DEF counts
<1>5. DOMAIN known = GcdParams(m) /\ \A p \in GcdParams(m) : known[p].order = parameters[p].order
  <2>1. ToSet(models[m].submodels) = Kids(m)
    BY <1>1 DEF Wired
  <2>2. DOMAIN known = GcdParams(m)
    BY <2>1 DEF WithSubmodels, GcdParams, PseudosOf
  <2>3. \A p \in GcdParams(m) :
          known[p].order = IF IsPseudo(p) THEN models[m].order ELSE parameters[p].order
    BY <2>1 DEF WithSubmodels, GcdParams, PseudosOf
  <2>4. \A p \in OwnParams(m) : ~ IsPseudo(p)
    BY PseudoFacts
  <2>5. \A d \in Kids(m) : IsPseudo(PseudoOf(d)) /\ parameters[PseudoOf(d)].order = models[m].order
    BY <1>1, PseudoFacts DEF InWork
  <2> QED BY <2>2, <2>3, <2>4, <2>5 DEF GcdParams
<1>6. PICK S \in Combinations(DOMAIN known, known) : PseudoOf(c) \in S
  BY <1>1 DEF SubmodelsCombined, Wired
<1> HIDE DEF known
<1>7. S \in SUBSET GcdParams(m) /\ S \in Combinations(MyParams, parameters)
  <2>1. S \in SUBSET GcdParams(m)
    BY <1>5, <1>6 DEF Combinations
  <2>2. \E p \in S : /\ known[p].order = Cardinality(S)
                     /\ \A q \in S : known[q].order >= Cardinality(S)
    BY <1>6 DEF Combinations
  <2>3. \A p \in S : known[p].order = parameters[p].order
    BY <1>5, <2>1
  <2> QED BY <1>2, <2>1, <2>2, <2>3 DEF Combinations
<1>8. PICK r \in run.rows : r \in RowsOf(GcdParams(m), parameters) /\ Valid(m, r)
  BY DEF Walking
<1>9. PICK g : Gives(r, g, GcdParams(m), parameters)
  BY <1>8, RowsGive
<1> DEFINE f == [p \in S |-> IF p = PseudoOf(c) THEN v ELSE g[p]]
           cell == { <<p, f[p]>> : p \in S }
<1>10. \A p \in S : f[p] \in Engine(counts)!Values(p)
  <2> SUFFICES ASSUME NEW p \in S
               PROVE  f[p] \in Engine(counts)!Values(p)
    OBVIOUS
  <2>1. p \in GcdParams(m)
    BY <1>7
  <2>2. Engine(counts)!Values(p) = 0 .. parameters[p].valueCount - 1
    BY <1>3, <2>1 DEF Engine!Values
  <2>3. CASE p = PseudoOf(c)
    <3>1. v \in 0 .. parameters[PseudoOf(c)].valueCount - 1
      BY <1>1 DEF InWork, Assembled, PseudoValues, PseudoValueCount
    <3> QED BY <2>2, <2>3, <3>1
  <2>4. CASE p # PseudoOf(c)
    BY <1>9, <2>1, <2>2, <2>4 DEF Gives
  <2> QED BY <2>3, <2>4
<1>11. cell \in AllEntries(counts)
  <2>1. f \in [S -> UNION { Engine(counts)!Values(p) : p \in S }]
    BY <1>10
  <2> HIDE DEF f
  <2>2. cell \in Engine(counts)!Cells(S)
    BY <1>10, <2>1 DEF Engine!Cells
  <2> QED BY <1>7, <2>2 DEF AllEntries
<1>12. ~ Violates(cell)
  <2> SUFFICES ASSUME NEW e \in models[m].exclusions, e \subseteq cell
               PROVE  FALSE
    BY <1>1 DEF Violates
  <2>1. e \in task.exclusions /\ ParamsOf(e) \subseteq OwnParams(m)
    BY DEF AtWork, OwnOnly
  <2>2. \A t \in e : t \in r
    <3> SUFFICES ASSUME NEW t \in e
                 PROVE  t \in r
      OBVIOUS
    <3>1. PICK p \in S : t = <<p, f[p]>>
      BY <2>1
    <3>2. p \in OwnParams(m)
      BY <2>1, <3>1 DEF ParamsOf
    <3>3. p # PseudoOf(c)
      BY <3>2, PseudoFacts
    <3>4. t = <<p, g[p]>> /\ p \in GcdParams(m)
      BY <1>7, <3>1, <3>3
    <3> QED BY <1>9, <3>4 DEF Gives
  <2>3. RespectedIn(e, m)
    BY <1>1, <2>1 DEF ExclusionsRespected, RespectedEverywhere, Wired
  <2> QED BY <1>8, <2>2, <2>3 DEF Valid
<1>13. \E s \in run.rows : cell \subseteq s
  <2>1. NothingMissed(m)
    BY DEF AtWork
  <2> QED BY <1>4, <1>11, <1>12, <2>1 DEF NothingMissed
<1>14. <<PseudoOf(c), v>> \in cell
  <2>1. f[PseudoOf(c)] = v
    BY <1>6
  <2> QED BY <1>6, <2>1
<1> QED BY <1>13, <1>14

LEMMA GcdEndsCovers ==
  ASSUME program \in Programs, program' = program, NEW home, Walking(home),
         GcdEnds, pc' # "undefined", Lossless, NEW m, m = Top.model, AtWork(m)
  PROVE  Lossless'
<1>1. /\ m \in Models /\ pc = "rows" /\ run.open = {} /\ Standing /\ Wired /\ InWork(m, home) /\ Path
  BY OffPath DEF Walking, GcdEnds, Standing
<1>2. /\ task' = task /\ SameTree
      /\ \A n \in Models : n # m => models'[n] = models[n]
  BY GcdEndsFinishes
<1>3. /\ models'[m].results \in Seq(ToSet(models'[m].results))
      /\ \A r \in run.rows : \E v \in PseudoValues(m)' : RowTerms(m, v)' = Says(r)
      /\ \A v \in PseudoValues(m)' : \E r \in run.rows : RowTerms(m, v)' = Says(r)
      /\ models'[m].results # <<>> => run.rows # {}
  BY GcdEndsSays
<1>4. \A r \in run.rows : r \in RowsOf(GcdParams(m), parameters) /\ Valid(m, r)
  BY <1>1 DEF Walking
<1>5. ASSUME NEW r \in run.rows
      PROVE  /\ OneValueEach(Says(r))
             /\ \A t \in r : t[1] \in OwnParams(m) => t \in Says(r)
             /\ \A c \in Kids(m) : \A v \in PseudoValues(c) :
                  <<PseudoOf(c), v>> \in r /\ OneValueEach(RowTerms(c, v)) => RowTerms(c, v) \subseteq Says(r)
  BY <1>1, <1>4, RowSays
<1>6. /\ Models' = Models /\ Kids(m)' = Kids(m) /\ OwnParams(m)' = OwnParams(m) /\ Owned(m)' = Owned(m)
  BY TreeStays
<1>7. \A c \in Kids(m) : /\ c \in Models /\ models'[c] = models[c]
                         /\ PseudoValues(c)' = PseudoValues(c)
                         /\ \A v : RowTerms(c, v)' = RowTerms(c, v)
  <2>1. \A c \in Kids(m) : c \in Models /\ models'[c] = models[c]
    BY <1>1, <1>2, ProgramFacts
  <2> QED BY <2>1, RowsStay
<1>8. \A c \in Kids(m) : \A v \in PseudoValues(c) : OneValueEach(RowTerms(c, v))
  BY <1>7 DEF Lossless, Sound
<1>9. Sound(m)'
  <2>1. \A v \in PseudoValues(m)' : OneValueEach(RowTerms(m, v)')
    BY <1>3, <1>5
  <2> QED BY <1>3, <2>1 DEF Sound, OneValueEach
<1>10. run.rows # {} => AllDone(m)
  <2> SUFFICES ASSUME NEW r \in run.rows, NEW c \in Kids(m)
               PROVE  models[c].results # <<>>
    BY DEF AllDone
  <2>1. PICK at : Picks(r, m, at)
    BY <1>1, <1>4, RowPicks DEF InWork
  <2>2. at[c] \in 0 .. Len(models[c].results) - 1
    BY <2>1 DEF Picks, PseudoValues, PseudoValueCount
  <2> QED BY <2>2
<1>11. ASSUME NothingSpans, SubmodelsCombined, ExclusionsRespected
       PROVE  Covers(m)'
  <2> SUFFICES ASSUME models'[m].results # <<>>
               PROVE  /\ AllDone(m)'
                      /\ (\A c \in Kids(m) : \A v \in PseudoValues(c) :
                            \E w \in PseudoValues(m) : RowTerms(c, v) \subseteq RowTerms(m, w))'
    BY DEF Covers
  <2>1. run.rows # {} /\ AllDone(m)
    BY <1>3, <1>10
  <2>2. AllDone(m)'
    BY <1>6, <1>7, <2>1 DEF AllDone
  <2>3. ASSUME NEW c \in Kids(m), NEW v \in PseudoValues(c)
        PROVE  \E w \in PseudoValues(m)' : RowTerms(c, v) \subseteq RowTerms(m, w)'
    <3>1. PICK r \in run.rows : <<PseudoOf(c), v>> \in r
      BY <1>1, <1>11, <2>1, <2>3, EveryRowPicked
    <3>2. RowTerms(c, v) \subseteq Says(r)
      BY <1>5, <1>8, <2>3, <3>1
    <3> QED BY <1>3, <3>2
  <2> QED BY <1>6, <1>7, <2>2, <2>3
<1>12. ASSUME SeedFits
       PROVE  HoldsSeed(m)'
  <2>1. Seed' = Seed /\ \A n : Of(Seed, n)' = Of(Seed, n)
    BY <1>1, <1>2, PremisesStay
  <2> SUFFICES ASSUME models'[m].results # <<>>
               PROVE  \E v \in PseudoValues(m)' : Of(Seed, m) \subseteq RowTerms(m, v)'
    BY <2>1 DEF HoldsSeed
  <2>2. run.rows # {} /\ AllDone(m)
    BY <1>3, <1>10
  <2>3. SeedNext(m)
    BY <1>1, <1>12, <2>2 DEF AtWork
  <2>4. CASE Of(Seed, m) = {}
    <3>1. PICK r \in run.rows : TRUE
      BY <2>2
    <3> QED BY <1>3, <2>4, <3>1
  <2>5. ASSUME NEW r \in run.rows, Carries(r, m)
        PROVE  \E v \in PseudoValues(m)' : Of(Seed, m) \subseteq RowTerms(m, v)'
    <3>1. ASSUME NEW x \in Seed, x[1] \in Owned(m)
          PROVE  x \in Says(r)
      <4>1. x[1] \in OwnParams(m) \/ \E c \in Kids(m) : x[1] \in Owned(c)
        BY <1>1, <3>1, OwnedFacts
      <4>2. CASE x[1] \in OwnParams(m)
        <5>1. x \in r
          BY <2>5, <4>2 DEF Carries
        <5> QED BY <1>5, <4>2, <5>1
      <4>3. ASSUME NEW c \in Kids(m), x[1] \in Owned(c)
            PROVE  x \in Says(r)
        <5>1. x \in Of(Seed, c)
          BY <4>3 DEF Of
        <5>2. PICK v \in PseudoValues(c) : <<PseudoOf(c), v>> \in r /\ Of(Seed, c) \subseteq RowTerms(c, v)
          BY <2>5, <5>1 DEF Carries
        <5>3. RowTerms(c, v) \subseteq Says(r)
          BY <1>5, <1>8, <5>2
        <5> QED BY <5>1, <5>2, <5>3
      <4> QED BY <4>1, <4>2, <4>3
    <3>2. Of(Seed, m) \subseteq Says(r)
      BY <3>1 DEF Of
    <3> QED BY <1>3, <3>2
  <2> QED BY <2>2, <2>3, <2>4, <2>5 DEF SeedNext
<1>13. \A n \in Models : m \in Kids(n) => models[n].results = <<>>
  BY ParentFresh
<1> QED BY <1>1, <1>2, <1>9, <1>11, <1>12, <1>13, LosslessElsewhere

-----------------------------------------------------------------------------
(* The invariant is inductive *)

(* Nothing is lost before there are rows.                                  *)
LEMMA GenerationStartsCovers ==
  ASSUME program \in Programs, program' = program, SettingUp, PictGenerate
  PROVE  LosslessParts'
<1>1. /\ pc' = "walk" /\ PrepareForGeneration /\ DOMAIN models = Models
      /\ \A m \in Models : models[m].results = <<>> /\ IsModel(models[m])
  BY SetUpIsPlaced DEF PictGenerate, Standing, Wired
<1>2. \A m \in Models : models'[m].results = <<>>
  <2> SUFFICES ASSUME NEW m \in Models
               PROVE  models'[m].results = <<>>
    OBVIOUS
  <2>1. PICK excls, seeds :
          models'[m] = models[m]
            \/ models'[m] = [models[m] EXCEPT !.exclusions = excls, !.rowSeeds = seeds]
    BY <1>1 DEF PrepareForGeneration
  <2>2. [models[m] EXCEPT !.exclusions = excls, !.rowSeeds = seeds].results = models[m].results
    BY <1>1 DEF IsModel
  <2> QED BY <1>1, <2>1, <2>2
<1>3. Models' = Models
  BY TreeStays
<1>4. \A m \in Models : Sound(m)' /\ Covers(m)' /\ HoldsSeed(m)'
  BY <1>2, NothingToLose
<1>5. Lossless'
  BY <1>3, <1>4 DEF Lossless
<1> QED BY <1>1, <1>5 DEF LosslessParts

LEMMA NothingChangesCovers ==
  ASSUME LosslessInv, UNCHANGED <<treeVars, program>>
  PROVE  LosslessParts'
<1>1. program \in Programs /\ program' = program /\ UNCHANGED <<pc, parameters, models, task, calls, run>>
  BY DEF LosslessInv, LosslessParts, ApiInv, treeVars
<1>2. pc \in {"walk", "gcd", "rows"} => Wired
  BY DEF LosslessInv, LosslessParts, ApiInv, Walking, Standing
<1>3. Wired => Wired'
  BY <1>1, TreeStays DEF Wired
<1>4. Wired /\ Lossless => Lossless'
  BY <1>1, LosslessStays
<1>5. pc \in {"gcd", "rows"} => AtWork(Top.model)'
  <2>1. PICK m : m = Top.model
    OBVIOUS
  <2>2. Top.model' = m
    BY <1>1, <2>1 DEF Top
  <2>3. pc \in {"gcd", "rows"} => AtWork(m)
    BY <2>1 DEF LosslessInv, LosslessParts
  <2>4. pc \in {"gcd", "rows"} => AtWork(m)'
    BY <1>1, <1>2, <2>3, AtWorkStays
  <2> QED BY <2>2, <2>4
<1> QED BY <1>1, <1>2, <1>3, <1>4, <1>5 DEF LosslessInv, LosslessParts

LEMMA GenerationCovers ==
  ASSUME LosslessInv, PictGenerate \/ ((Generate(parameters) \/ TreeStep) /\ UNCHANGED clientVars)
  PROVE  LosslessParts'
<1>1. program \in Programs /\ program' = program
  BY DEF LosslessInv, LosslessParts, ApiInv, PictGenerate, clientVars
<1>2. CASE PictGenerate
  <2>1. SettingUp
    BY <1>2 DEF LosslessInv, LosslessParts, ApiInv, PictGenerate, Setup
  <2> QED BY <1>1, <1>2, <2>1, GenerationStartsCovers
<1>3. ASSUME NEW home, Walking(home), Lossless, Generate(parameters) \/ TreeStep,
             pc \in {"gcd", "rows"} => AtWork(Top.model)
      PROVE  LosslessParts'
  <2>1. PICK m : m = Top.model
    OBVIOUS
  <2>2. pc \in {"gcd", "rows"} => AtWork(m)
    BY <1>3, <2>1
  <2>3. Standing /\ Wired
    BY <1>3 DEF Walking, Standing
  <2>4. ASSUME calls' = calls
        PROVE  Top.model' = m
    BY <2>1, <2>4 DEF Top
  <2>5. CASE Generate(parameters)
    <3>1. pc' \in {"asserted", "undefined", "gcd"} /\ calls' = calls
      BY <2>5 DEF Generate
    <3>2. pc' = "gcd" => Lossless' /\ AtWork(m)'
      BY <1>1, <1>3, <2>1, <2>5, GenerateCovers
    <3>3. pc' = "gcd" => AtWork(Top.model)'
      BY <2>4, <3>1, <3>2
    <3> QED BY <3>1, <3>2, <3>3 DEF LosslessParts
  <2>6. CASE Descend
    <3>1. pc' = "walk" /\ UNCHANGED <<parameters, models, task>>
      BY <2>6 DEF Descend
    <3>2. Lossless'
      BY <1>1, <1>3, <2>3, <3>1, LosslessStays
    <3> QED BY <3>1, <3>2 DEF LosslessParts
  <2>7. CASE GcdReturns
    <3>1. pc' \in {"walk", "generated"} /\ UNCHANGED <<parameters, models, task>>
      BY <2>7 DEF GcdReturns, Return
    <3>2. Lossless'
      BY <1>1, <1>3, <2>3, <3>1, LosslessStays
    <3>3. Wired'
      BY <1>1, <2>3, <3>1, TreeStays DEF Wired
    <3> QED BY <3>1, <3>2, <3>3 DEF LosslessParts
  <2>8. CASE GcdBegins
    <3>1. pc' \in {"asserted", "undefined", "rows"} /\ calls' = calls /\ pc = "gcd"
      BY <2>8 DEF GcdBegins
    <3>2. pc' = "rows" => Lossless' /\ AtWork(m)'
      BY <1>1, <1>3, <2>1, <2>2, <2>8, <3>1, GcdBeginsCovers
    <3>3. pc' = "rows" => AtWork(Top.model)'
      BY <2>4, <3>1, <3>2
    <3> QED BY <3>1, <3>2, <3>3 DEF LosslessParts
  <2>9. CASE AddRow
    <3>1. pc' = "rows" /\ calls' = calls /\ pc = "rows"
      BY <2>9 DEF AddRow
    <3>2. Lossless' /\ AtWork(m)'
      BY <1>1, <1>3, <2>1, <2>2, <2>9, <3>1, AddRowCovers
    <3>3. AtWork(Top.model)'
      BY <2>4, <3>1, <3>2
    <3> QED BY <3>1, <3>2, <3>3 DEF LosslessParts
  <2>12. CASE BindSeed \/ BindCombination \/ PickValue
    <3>1. pc' \in {"asserted", "rows"} /\ calls' = calls /\ pc = "rows"
      BY <2>12 DEF BindSeed, BindCombination, PickValue, RowUnfinished, RowBegins
    <3>2. pc' = "rows" => Lossless' /\ AtWork(m)'
      BY <1>1, <1>3, <2>1, <2>2, <2>12, <3>1, RowStepCovers
    <3>3. pc' = "rows" => AtWork(Top.model)'
      BY <2>4, <3>1, <3>2
    <3> QED BY <3>1, <3>2, <3>3 DEF LosslessParts
  <2>10. CASE Stuck
    BY <2>10 DEF Stuck, LosslessParts
  <2>11. CASE GcdEnds
    <3>1. CASE pc' = "undefined"
      BY <3>1 DEF LosslessParts
    <3>2. CASE pc' # "undefined"
      <4>1. Standing' /\ Return
        BY <1>1, <1>3, <2>11, <3>2, GcdEndsFinishes
      <4>2. pc = "rows"
        BY <2>11 DEF GcdEnds
      <4>3. Lossless'
        BY <1>1, <1>3, <2>1, <2>2, <2>11, <3>2, <4>2, GcdEndsCovers
      <4>4. pc' \in {"walk", "generated"} /\ Wired'
        BY <4>1 DEF Return, Standing
      <4> QED BY <4>3, <4>4 DEF LosslessParts
    <3> QED BY <3>1, <3>2
  <2> QED BY <1>3, <2>5, <2>6, <2>7, <2>8, <2>9, <2>10, <2>11, <2>12 DEF TreeStep
<1>4. CASE Generate(parameters) \/ TreeStep
  <2>1. pc \in {"walk", "gcd", "rows"}
    BY <1>4 DEF Generate, TreeStep, Descend, GcdReturns, GcdBegins, RowBegins, RowUnfinished,
                BindSeed, BindCombination, PickValue, AddRow, Stuck, GcdEnds
  <2>2. Lossless /\ (pc \in {"gcd", "rows"} => AtWork(Top.model)) /\ \E home : Walking(home)
    BY <2>1 DEF LosslessInv, LosslessParts, ApiInv
  <2> QED BY <1>3, <1>4, <2>2
<1> QED BY <1>2, <1>4

(* Fetching and deleting leave the root's rows and those below alone, or   *)
(* delete the root.                                                        *)
LEMMA ClientCovers ==
  ASSUME LosslessInv,
         \/ PictGenerateReturns \/ PictResetResultFetching \/ PictGetNextResultRow
         \/ PictDeleteModel \/ PictDeleteTask
  PROVE  LosslessParts'
<1>1. program \in Programs /\ program' = program
  BY DEF LosslessInv, ApiInv, PictGenerateReturns, PictResetResultFetching,
         PictGetNextResultRow, PictDeleteModel, PictDeleteTask, clientVars, treeVars
<1>2. pc \in {"generated", "fetch"} /\ Root \in DOMAIN models /\ task.root = Root => Wired /\ Lossless
  BY DEF LosslessInv, LosslessParts
<1>3. ASSUME pc \in {"generated", "fetch"}, pc' \in {"fetch", "undefined"},
             UNCHANGED <<parameters, models, task>>
      PROVE  LosslessParts'
  <2>1. Wired => Wired'
    BY <1>1, <1>3, TreeStays DEF Wired
  <2>2. Wired /\ Lossless => Lossless'
    BY <1>1, <1>3, LosslessStays
  <2> QED BY <1>2, <1>3, <2>1, <2>2 DEF LosslessParts
<1>4. CASE PictGenerateReturns
  BY <1>3, <1>4 DEF PictGenerateReturns
<1>5. CASE PictResetResultFetching
  BY <1>3, <1>5 DEF PictResetResultFetching, Fetching, treeVars
<1>6. CASE PictGetNextResultRow
  <2>1. pc = "fetch" /\ UNCHANGED <<parameters, models, task>>
    BY <1>6 DEF PictGetNextResultRow, Fetching
  <2>2. pc' \in {"fetch", "undefined"}
    BY <1>6, <2>1 DEF PictGetNextResultRow
  <2> QED BY <1>3, <2>1, <2>2
<1>7. CASE PictDeleteModel
  <2>1. pc' = "fetch" /\ Wired /\ Root \in Models
    BY <1>2, <1>7 DEF PictDeleteModel, Fetching, Wired
  <2>2. Root \in SubtreeOf(Root)
    BY <1>1, <2>1, SubtreeIsBelow, BelowFacts
  <2>3. Root \notin DOMAIN models'
    BY <1>7, <2>2 DEF PictDeleteModel
  <2> QED BY <2>1, <2>3 DEF LosslessParts
<1>8. CASE PictDeleteTask
  <2>1. pc' = "fetch" /\ task'.root # Root
    BY <1>8 DEF PictDeleteTask, NoTask, NoModel, Root
  <2> QED BY <2>1 DEF LosslessParts
<1> QED BY <1>4, <1>5, <1>6, <1>7, <1>8

LEMMA SetupCovers ==
  ASSUME PictCreateModel \/ PictAddParameter \/ PictAttachChildModel
           \/ PictSetRootModel \/ PictAddExclusion \/ PictAddSeed
  PROVE  LosslessParts'
<1>1. pc' \in {"client", "asserted"}
  BY DEF PictCreateModel, PictAddParameter, PictAttachChildModel, PictSetRootModel,
         PictAddExclusion, PictAddSeed, Setup
<1> QED BY <1>1 DEF LosslessParts

(***************************************************************************)
(* Whatever the client set up, at every step of generation and after it:   *)
(* what the rows of a finished model say is functional, and includes the   *)
(* rows of its submodels and its part of the seed (model.cpp:534-571,      *)
(* 770-809, 1264-1336).                                                    *)
(***************************************************************************)
THEOREM NothingIsLost == Spec => []LosslessInv
<1>1. Init => LosslessInv
  BY ApiInvInitially DEF Init, LosslessInv, LosslessParts
<1>2. LosslessInv /\ [Next]_vars => LosslessInv'
  <2> SUFFICES ASSUME LosslessInv, [Next]_vars
               PROVE  LosslessInv'
    OBVIOUS
  <2>1. ApiInv'
    BY ApiInvInductive DEF LosslessInv, LosslessParts
  <2>2. LosslessParts'
    <3>1. CASE PictAllocateResultBuffer \/ PictFreeResultBuffer \/ UNCHANGED vars
      <4>1. UNCHANGED <<treeVars, program>>
        BY <3>1 DEF PictAllocateResultBuffer, PictFreeResultBuffer, vars, clientVars
      <4> QED BY <4>1, NothingChangesCovers
    <3> QED BY <3>1, SetupCovers, GenerationCovers, ClientCovers DEF Next
  <2> QED BY <2>1, <2>2 DEF LosslessInv, LosslessParts
<1> QED BY <1>1, <1>2, PTL DEF Spec

-----------------------------------------------------------------------------
(* What the client sees of it *)

(***************************************************************************)
(* As long as no exclusion relates two models, the rows obey them all and  *)
(* every submodel is in a combination of its parent, each row of each      *)
(* submodel is part of a row the client is given, for every tree           *)
(* (model.cpp:534-571, 770-809).                                           *)
(***************************************************************************)
THEOREM SubmodelRowsReachRoot == Spec => []SubmodelRowsSurvive
<1>1. LosslessInv => SubmodelRowsSurvive
  <2> SUFFICES ASSUME LosslessInv, Fetching, Results # <<>>, NothingSpans, SubmodelsCombined,
                      ExclusionsRespected
               PROVE  \A m \in SubtreeOf(Root) : \A k \in DOMAIN models[m].results :
                        \E n \in DOMAIN Results : TermsOf(m, k) \subseteq TermsOf(Root, n)
    BY DEF SubmodelRowsSurvive
  <2>1. program \in Programs /\ Wired /\ Lossless /\ Root \in Models
    BY DEF LosslessInv, LosslessParts, ApiInv, Fetching, Wired
  <2>2. \A m \in Models : Sound(m) /\ Covers(m)
    BY <2>1 DEF Lossless
  <2>3. SubtreeOf(Root) = Below(Root)
    BY <2>1, SubtreeIsBelow
  <2> DEFINE C == { m \in Models : /\ models[m].results # <<>>
                                   /\ \A v \in PseudoValues(m) : \E w \in PseudoValues(Root) :
                                        RowTerms(m, v) \subseteq RowTerms(Root, w) }
  <2>4. Root \in C
    BY <2>1 DEF Results
  <2>5. ASSUME NEW m \in C, NEW c \in Kids(m)
        PROVE  c \in C
    <3>1. c \in Models /\ models[c].results # <<>>
      BY <2>1, <2>2, <2>5, ProgramFacts DEF Covers, AllDone
    <3>2. ASSUME NEW v \in PseudoValues(c)
          PROVE  \E w \in PseudoValues(Root) : RowTerms(c, v) \subseteq RowTerms(Root, w)
      <4>1. PICK u \in PseudoValues(m) : RowTerms(c, v) \subseteq RowTerms(m, u)
        BY <2>2, <2>5 DEF Covers
      <4>2. PICK w \in PseudoValues(Root) : RowTerms(m, u) \subseteq RowTerms(Root, w)
        BY <2>5
      <4> QED BY <4>1, <4>2
    <3> QED BY <3>1, <3>2
  <2>6. Below(Root) \subseteq C
    <3>1. C \in SUBSET Models /\ ClosedDown(C)
      BY <2>5 DEF ClosedDown
    <3> HIDE DEF C
    <3> QED BY <2>4, <3>1 DEF Below
  <2>7. ASSUME NEW m \in Below(Root), NEW k \in DOMAIN models[m].results
        PROVE  \E n \in DOMAIN Results : TermsOf(m, k) \subseteq TermsOf(Root, n)
    <3>1. m \in Models /\ models[m].results \in Seq(ToSet(models[m].results))
      BY <2>2, <2>7 DEF Below, Sound
    <3>2. k - 1 \in PseudoValues(m)
      BY <3>1 DEF PseudoValues, PseudoValueCount
    <3>3. PICK w \in PseudoValues(Root) : RowTerms(m, k - 1) \subseteq RowTerms(Root, w)
      BY <2>6, <3>2
    <3>4. Results \in Seq(ToSet(Results))
      BY <2>1, <2>2 DEF Sound, Results
    <3>5. w + 1 \in DOMAIN Results /\ (w + 1) - 1 = w
      BY <3>3, <3>4 DEF PseudoValues, PseudoValueCount, Results
    <3>6. TermsOf(Root, w + 1) = RowTerms(Root, w)
      BY <3>5 DEF TermsOf
    <3> QED BY <3>3, <3>5, <3>6 DEF TermsOf
  <2> QED BY <2>3, <2>7
<1> QED BY <1>1, NothingIsLost, PTL

(***************************************************************************)
(* The one seed of a task is in some row the client is given, unless it    *)
(* contains an exclusion or what no parameter of the task can be, for      *)
(* every tree in which no exclusion relates two models                     *)
(* (pictapi.h:135-136, model.cpp:1264-1336).                               *)
(***************************************************************************)
THEOREM SeedReachesRoot == Spec => []SeedAppears
<1>1. LosslessInv => SeedAppears
  <2> SUFFICES ASSUME LosslessInv, Fetching, Results # <<>>, NothingSpans, Len(task.rowSeeds) = 1,
                      ~ \E e \in task.exclusions : e \subseteq Seed,
                      \A t \in Seed : IsKnown(t)
               PROVE  \E n \in DOMAIN Results : Seed \subseteq TermsOf(Root, n)
    BY DEF SeedAppears, Seed
  <2>1. program \in Programs /\ Wired /\ Lossless /\ Root \in Models
    BY DEF LosslessInv, LosslessParts, ApiInv, Fetching, Wired
  <2>2. SubtreeOf(Root) = Below(Root)
    BY <2>1, SubtreeIsBelow
  <2>3. \A t \in Seed : Possible(t)
    BY <2>2 DEF IsKnown, Possible
  <2>4. SeedFits
    BY <2>3 DEF SeedFits
  <2>5. PICK v \in PseudoValues(Root) : Of(Seed, Root) \subseteq RowTerms(Root, v)
    BY <2>1, <2>4 DEF Lossless, HoldsSeed, Results
  <2>6. Seed \subseteq Of(Seed, Root)
    <3>1. \A t \in Seed : t[1] \in Owned(Root)
      BY <2>3 DEF Possible, Owned
    <3> QED BY <3>1 DEF Of
  <2>7. Results \in Seq(ToSet(Results))
    BY <2>1 DEF Lossless, Sound, Results
  <2>8. v + 1 \in DOMAIN Results /\ (v + 1) - 1 = v
    BY <2>5, <2>7 DEF PseudoValues, PseudoValueCount, Results
  <2>9. TermsOf(Root, v + 1) = RowTerms(Root, v)
    BY <2>8 DEF TermsOf
  <2> QED BY <2>5, <2>6, <2>8, <2>9
<1> QED BY <1>1, NothingIsLost, PTL

=============================================================================
