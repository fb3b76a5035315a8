----------------------------- MODULE ModelTree ------------------------------
(***************************************************************************)
(* Task and Model: a tree of models is generated from the leaves up.  The  *)
(* rows of a submodel become the values of a pseudo-parameter of its       *)
(* parent; exclusions and seeds over the submodel's parameters are         *)
(* rewritten in terms of those values; after the parent's own generation   *)
(* the pseudo-parameters are resolved into the columns they stand for.     *)
(*                                                                         *)
(* Derivation is used through what it promises, for which Deriver is       *)
(* checked and proved: the closure of its exclusions; what it does not     *)
(* promise, on parameters linked before, is modelled by what it may read.  *)
(* gcd is here by its decisions: a row is built seed, combination and      *)
(* value at a time, each choice checked against as much as the code checks *)
(* it and no more.  Which of the allowed choices are the best, and how     *)
(* combinations count what they have, is left to Gcd.  The rows of a suite *)
(* are a set; their order is fixed when they become results.               *)
(*                                                                         *)
(* Parameters and models are objects: a number is the pointer to one.      *)
(***************************************************************************)
EXTENDS Integers, Sequences, FiniteSets, SequencesExt

CONSTANTS
  PseudoBase,      \* the pseudo-parameter of model m is PseudoBase + m;
                   \* bounds the numbers of parameters and values
  UndefinedValue   \* Parameter::UndefinedValue

ASSUME TreeAssumption == PseudoBase \in Nat /\ UndefinedValue \notin Nat

VARIABLES
  pc,          \* "client", "walk", "gcd", "rows", or how things went wrong
  parameters,  \* Parameter and PseudoParameter objects
  models,      \* Model objects
  task,        \* the Task: root model, exclusions, seeds
  calls,       \* activations of the recursive generate, innermost last
  run,         \* of the gcd in progress: open entries, rows, seeds left
  bound        \* m_currentValue of the parameters with m_bound, in the
               \* row that gcd is building

treeVars == <<pc, parameters, models, task, calls, run, bound>>

NewModel(order) ==
  [order |-> order, parameters |-> <<>>, submodels |-> <<>>,
   exclusions |-> {}, rowSeeds |-> <<>>, results |-> <<>>]

NoRun == [open |-> {}, rows |-> {}, seeds |-> <<>>]

-----------------------------------------------------------------------------
(* The engine's view of some of the parameters, given how many values each *)
(* has.                                                                    *)
Engine(counts) == INSTANCE Exclusions
  WITH Param <- DOMAIN counts, ValueCount <- counts

ValueCounts(params, known) == [p \in params |-> known[p].valueCount]

(* The counts and the exclusions are bound to values first, for TLC.       *)
ClosureOver(params, known, excls) ==
  UNION { Engine(ce[1])!ClosureOf(ce[2]) : ce \in {<<ValueCounts(params, known), excls>>} }

ParamsOf(terms) == { t[1] : t \in terms }

ValueOf(row, p) == (CHOOSE t \in row : t[1] = p)[2]

(* std::sort of at most sixteen items is stable in libstdc++. *)
Sorted(list, Before(_, _)) ==
  LET ahead(i) == { j \in DOMAIN list : \/ Before(list[j], list[i])
                                        \/ j < i /\ ~ Before(list[i], list[j]) }
  IN  [n \in DOMAIN list |->
         list[CHOOSE i \in DOMAIN list : Cardinality(ahead(i) \ {i}) = n - 1]]

ByOrder(list, known) == Sorted(list, LAMBDA p, q : known[p].order > known[q].order)

BySequence(list, known) == Sorted(list, LAMBDA p, q : known[p].sequence < known[q].sequence)

(* The list without the members of S. *)
Without(list, S) ==
  FoldLeft(LAMBDA acc, q : IF q \in S THEN acc ELSE Append(acc, q), <<>>, list)

PseudoOf(m) == PseudoBase + m
IsPseudo(p) == p >= PseudoBase
ModelOf(p)  == models[p - PseudoBase]

(* What value v of the pseudo-parameter of model m says of its parameters. *)
RowTerms(m, v) ==
  { <<models[m].parameters[i], models[m].results[v + 1][i]>> :
      i \in DOMAIN models[m].parameters }

LastRowForgotten(m) == Len(models[m].results) - 1  \* mutant

(* One value per row of the submodel. *)
PseudoValueCount(m) == Len(models[m].results)

PseudoValues(m) == 0 .. PseudoValueCount(m) - 1

-----------------------------------------------------------------------------
(* Task::PrepareForGeneration *)

(* The model and all below it; findParamInSubtree looks through these.     *)
SubtreeOf(root) ==
  LET subtree[m \in DOMAIN models] ==
        {m} \cup UNION { subtree[c] : c \in ToSet(models[m].submodels) }
  IN  subtree[root]

(* GetAllParameters *)
AllParameters(m) == UNION { ToSet(models[n].parameters) : n \in SubtreeOf(m) }

NoModel == -1

(* The first model, submodels before their parent, whose subtree has all   *)
(* parameters of the exclusion.                                            *)
FindMatchingNode(e, root) ==
  LET node[m \in DOMAIN models] ==
        LET below == { i \in DOMAIN models[m].submodels :
                         node[models[m].submodels[i]] # NoModel }
        IN  IF below # {} THEN node[models[m].submodels[Min(below)]]
            ELSE IF ParamsOf(e) \subseteq AllParameters(m) THEN m ELSE NoModel
  IN  node[root]

(***************************************************************************)
(* The exclusions are derived over the whole tree, then each goes to the   *)
(* lowest model that has its parameters; seeds go to every model.          *)
(***************************************************************************)
PrepareForGeneration ==
  LET derived == ClosureOver(AllParameters(task.root), parameters, task.exclusions)
  IN  /\ task' = [task EXCEPT !.exclusions = derived]
      /\ models' = [m \in DOMAIN models |->
           IF m \notin SubtreeOf(task.root) THEN models[m]
           ELSE [models[m] EXCEPT
                   !.exclusions = @ \cup { e \in derived : FindMatchingNode(e, task.root) = m },
                   !.rowSeeds = @ \o task.rowSeeds]]

-----------------------------------------------------------------------------
(* generateMixedOrder *)

Related(terms, m) == { t \in terms : t[1] \in ToSet(models[m].parameters) }

RewrittenOnce(terms, m) ==  \* mutant: only the first row that agrees
  LET related == Related(terms, m)
      agreeing == { v \in PseudoValues(m) : related \subseteq RowTerms(m, v) }
  IN  IF related = {} THEN {terms}
      ELSE { (terms \ related) \cup {<<PseudoOf(m), v>>} :
               v \in { x \in agreeing : \A y \in agreeing : x <= y } }

(* A set of terms in terms of the values of m's pseudo-parameter that      *)
(* agree with it, or as it is when it says nothing of m's parameters.      *)
Rewritten(terms, m) ==
  LET related == Related(terms, m)
      agreeing == { v \in PseudoValues(m) : related \subseteq RowTerms(m, v) }
  IN  IF related = {} THEN {terms}
      ELSE { (terms \ related) \cup {<<PseudoOf(m), v>>} : v \in agreeing }

(* mapExclusionsToPseudoParameters *)
MappedExclusions(excls, submodels) ==
  FoldLeft(LAMBDA acc, m : UNION { Rewritten(e, m) : e \in acc }, excls, submodels)

ExclusionsMapped(excls, submodels) ==
  \E i \in DOMAIN submodels :
    \E e \in MappedExclusions(excls, SubSeq(submodels, 1, i - 1)) :
      /\ Related(e, submodels[i]) # {}
      /\ Rewritten(e, submodels[i]) # {}

SeedsAsTheyAre(seeds, submodels) == seeds  \* mutant

(* The seed s for each value of m's pseudo-parameter that agrees with it,  *)
(* in the order of the values.                                             *)
SeedVariants(s, m) ==
  LET apart == { v \in PseudoValues(m) : ~ (Related(s, m) \subseteq RowTerms(m, v)) }
      agreeing == Without([i \in 1 .. PseudoValueCount(m) |-> i - 1], apart)
  IN  [i \in DOMAIN agreeing |-> (s \ Related(s, m)) \cup {<<PseudoOf(m), agreeing[i]>>}]

AllVariants(seeds, m) == FoldLeft(LAMBDA acc, s : acc \o SeedVariants(s, m), <<>>, seeds)

(* mapRowSeedsToPseudoParameters: the rewritten ones go to the end.        *)
MappedSeeds(seeds, submodels) ==
  LET related(acc, m) == { s \in ToSet(acc) : Related(s, m) # {} }
      kept(acc, m)  == Without(acc, related(acc, m))
      moved(acc, m) == Without(acc, ToSet(acc) \ related(acc, m))
  IN  FoldLeft(LAMBDA acc, m : kept(acc, m) \o AllVariants(moved(acc, m), m),
               seeds, submodels)

ConflictsIgnored(submodels) == {}  \* mutant

(* Two rows that give a parameter different values. *)
Apart(m, v, n, w) ==
  \E s \in RowTerms(m, v), t \in RowTerms(n, w) : s[1] = t[1] /\ s[2] # t[2]

(* excludeConflictingParamValues: rows of two submodels that share a       *)
(* parameter go together only when they give it the same value.            *)
Conflicts(submodels) ==
  UNION { UNION { { {<<PseudoOf(m), v>>, <<PseudoOf(n), w>>} :
                      w \in { x \in PseudoValues(n) : m # n /\ Apart(m, v, n, x) } } :
                  v \in PseudoValues(m) } :
          m \in ToSet(submodels), n \in ToSet(submodels) }

PseudosOf(m) == { PseudoOf(c) : c \in ToSet(models[m].submodels) }

(* deriveSubmodelExclusions: parameters in no exclusion change nothing,    *)
(* but one without values, whose buckets are all full, makes it derive the *)
(* empty exclusion.                                                        *)
Derived(m, excls, known) ==
  LET valueless == { p \in AllParameters(m) \cup PseudosOf(m) : known[p].valueCount = 0 }
  IN  ClosureOver(ParamsOf(UNION excls) \cup valueless, known, excls)

UncleanedAll(m) == AllParameters(m)  \* mutant: gcd cleans up no parameter

(* The parameters deriveSubmodelExclusions runs on that no gcd has cleaned *)
(* up: those of the model itself, and those of models below it for which   *)
(* gcd returned at once.                                                   *)
Uncleaned(m) ==
  ToSet(models[m].parameters) \cup
    UNION { ToSet(models[n].parameters) :
              n \in { k \in SubtreeOf(m) \ {m} : models[k].results = <<>>
                                                 /\ models[k].exclusions = {} } }

(* Of these, the ones whose m_exclusions points into the set of the        *)
(* deriver of PrepareForGeneration, which is gone.                         *)
StillLinked(m) == Uncleaned(m) \cap ParamsOf(UNION task.exclusions)

(* LinkExclusion compares each new exclusion with those linked before.     *)
FreedIsRead(m, excls) ==
  \E e \in excls : /\ \A d \in excls : d \subseteq e => d = e
                   /\ ParamsOf(e) \cap StillLinked(m) # {}

(* DeriveExclusions looks into the links of a parameter with many, unless  *)
(* a peformDelete before that has made them anew.                          *)
FreedMayBeRead(m) ==
  \E p \in StillLinked(m) :
    Cardinality({ e \in task.exclusions : p \in ParamsOf(e) }) >= parameters[p].valueCount

(* choose, at each order from the highest: the combinations of that order  *)
(* among the parameters of no lower order, except those of higher orders   *)
(* only.                                                                   *)
Combinations(params, known) ==
  { S \in SUBSET params : \E p \in S :
      /\ known[p].order = Cardinality(S)
      /\ \A q \in S : known[q].order >= Cardinality(S) }

Top == calls[Len(calls)]

Before(m) == [calls EXCEPT ![Len(calls)].left = Tail(@)]

(* generate( subModel ) *)
Descend ==
  /\ pc = "walk"
  /\ Top.left # <<>>
  /\ calls' = Append(Before(Top.model),
                     [model |-> Head(Top.left),
                      left |-> models[Head(Top.left)].submodels])
  /\ UNCHANGED <<pc, parameters, models, task, run, bound>>

(* mapExclusionsToPseudoParameters and excludeConflictingParamValues, and  *)
(* whether one of them made an exclusion.                                  *)
Mapped(m) ==
  MappedExclusions(models[m].exclusions, models[m].submodels) \cup Conflicts(models[m].submodels)

Derives(m) ==
  \/ ExclusionsMapped(models[m].exclusions, models[m].submodels)
  \/ Conflicts(models[m].submodels) # {}

Generated(m, before) ==
  LET self == models[m]
      pseudos == PseudosOf(m)
      known == [p \in DOMAIN before \cup pseudos |->
                  IF p \in pseudos
                    THEN [sequence |-> p, order |-> self.order, isResult |-> FALSE,
                          valueCount |-> PseudoValueCount(p - PseudoBase)]
                    ELSE before[p]]
      params == self.parameters \o [i \in DOMAIN self.submodels |->
                                      PseudoOf(self.submodels[i])]
  IN  /\ parameters' = known
      /\ models' = [models EXCEPT
           ![m].parameters = ByOrder(params, known),
           ![m].exclusions = IF Derives(m) THEN Derived(m, Mapped(m), known) ELSE Mapped(m),
           ![m].rowSeeds = MappedSeeds(@, self.submodels),
           ![m].results = <<>>]

(* model->Generate(), up to the call of gcd, on the parameters as they are *)
(* before it; choose asserts that an order is positive.                    *)
Generate(before) ==
  /\ pc = "walk"
  /\ Top.left = <<>>
  /\ Generated(Top.model, before)
  /\ \/ /\ Derives(Top.model) => ~ FreedIsRead(Top.model, Mapped(Top.model))
        /\ pc' = IF \E p \in ToSet(models'[Top.model].parameters) : parameters'[p].order < 1
                   THEN "asserted" ELSE "gcd"
     \/ /\ Derives(Top.model)
        /\ FreedIsRead(Top.model, Mapped(Top.model)) \/ FreedMayBeRead(Top.model)
        /\ pc' = "undefined"
  /\ UNCHANGED <<task, calls, run, bound>>

-----------------------------------------------------------------------------
(* gcd *)

Self     == models[Top.model]
MyParams == ToSet(Self.parameters)

(* One function, in a set so that TLC evaluates it once per step.          *)
MyCounts == { ValueCounts(MyParams, parameters) }

AllEntries(counts) ==
  UNION { Engine(counts)!Cells(S) : S \in Combinations(MyParams, parameters) }

Violates(terms) == \E e \in Self.exclusions : e \subseteq terms

Return ==
  /\ calls' = SubSeq(calls, 1, Len(calls) - 1)
  /\ pc' = IF Len(calls) = 1 THEN "generated" ELSE "walk"
  /\ run' = NoRun

(* if( m_parameters.empty() ) return, and if( maxRange <= 0 ) return: the  *)
(* pseudo-parameters stay unresolved.                                      *)
NothingToDo ==
  \/ MyParams = {}
  \/ Self.exclusions = {} /\ \A counts \in MyCounts : AllEntries(counts) = {}

GcdReturns ==
  /\ pc = "gcd"
  /\ NothingToDo
  /\ Return
  /\ UNCHANGED <<parameters, models, task, bound>>

ChosenCombos == Combinations(MyParams, parameters)

(* The exclusions that begin with a parameter in no combination make       *)
(* processExclusions read past the end of an empty vector; which parameter *)
(* comes first, and whether a smaller exclusion has given it a combination *)
(* by then, is open, except where they all are in none.  So it is with one *)
(* that is not of this model at all: no submodel with rows resolved it.    *)
Loose(e) == ParamsOf(e) \ UNION ChosenCombos

(* processExclusions and fixRowSeeds; an empty exclusion is asserted not   *)
(* to be there.                                                            *)
GcdBegins ==
  /\ pc = "gcd"
  /\ ~ NothingToDo
  /\ IF {} \in Self.exclusions
       THEN pc' = "asserted" /\ UNCHANGED <<models, run>>
       ELSE \/ /\ \A e \in Self.exclusions : Loose(e) # ParamsOf(e) /\ ParamsOf(e) \subseteq MyParams
               /\ \E counts \in MyCounts :
                    \E fixed \in Engine(counts)!FixedSeeds(Self.rowSeeds, Self.exclusions) :
                      /\ models' = [models EXCEPT ![Top.model].rowSeeds = fixed]
                      /\ run' = [open |-> { k \in AllEntries(counts) : ~ Violates(k) },
                                 rows |-> {}, seeds |-> fixed]
               /\ pc' = "rows"
            \/ /\ \E e \in Self.exclusions : Loose(e) # {}
               /\ pc' = "undefined" /\ UNCHANGED <<models, run>>
  /\ UNCHANGED <<parameters, task, calls, bound>>

(* An exclusion that lies in no combination gets one of its own, with no   *)
(* open entry.                                                             *)
AllCombinations ==
  ChosenCombos \cup { S \in { ParamsOf(e) : e \in Self.exclusions } :
                 \A c \in ChosenCombos : ~ (S \subseteq c) }

BoundParams == ParamsOf(bound)

(* while( GlobalZerosCount > 0 ): a row is begun. *)
RowBegins == pc = "rows" /\ bound = {} /\ run.open # {}

(* The front seed is bound; it leaves m_rowSeeds here when its row is      *)
(* complete.  Bind asserts that a parameter gets one value.                *)
BindSeed ==
  /\ RowBegins
  /\ run.seeds # <<>>
  /\ IF \E s, t \in Head(run.seeds) : s[1] = t[1] /\ s[2] # t[2]
       THEN pc' = "asserted" /\ UNCHANGED bound
       ELSE bound' = Head(run.seeds) /\ UNCHANGED pc
  /\ UNCHANGED <<parameters, models, task, calls, run>>

(* unbound > 0 *)
RowUnfinished ==
  \/ pc = "rows" /\ bound # {} /\ BoundParams # MyParams
  \/ RowBegins /\ run.seeds = <<>>

(* The work list: parameters that are the last unbound one of some         *)
(* combination.  Their order in it is left open.                           *)
LastParams ==
  { q \in MyParams \ BoundParams :
      \E c \in AllCombinations : Cardinality(c) > 1 /\ c \ BoundParams = {q} }

(* Combination::Feasible( value ): the entries of combinations that are    *)
(* not fully bound which are not EXCLUDED and agree with what is bound.    *)
FeasibleCells ==
  UNION { { k \in UNION { Engine(counts)!Cells(c) :
                            c \in { d \in AllCombinations : ~ (d \subseteq BoundParams) } } :
              /\ ~ Violates(k)
              /\ \A s \in k, t \in bound : s[1] = t[1] => s = t } :
          counts \in MyCounts }

(* An open entry if any is feasible, or else a covered one.  Nothing is    *)
(* asked about exclusions over the entry and what is bound already.        *)
BindCombination ==
  /\ RowUnfinished /\ LastParams = {}
  /\ \E k \in FeasibleCells :
       /\ FeasibleCells \cap run.open # {} => k \in run.open
       /\ bound' = bound \cup k
  /\ UNCHANGED <<pc, parameters, models, task, calls, run>>

(* PickValue: a value is ruled out by the combinations of which p is the   *)
(* last parameter.                                                         *)
RuledOut(p, v) ==
  \E c \in AllCombinations :
    /\ p \in c /\ c \subseteq BoundParams \cup {p}
    /\ Violates({ t \in bound \cup {<<p, v>>} : t[1] \in c })

Pickable(p) == { v \in 0 .. parameters[p].valueCount - 1 : ~ RuledOut(p, v) }

PickValue ==
  /\ RowUnfinished
  /\ \E p \in LastParams : \E v \in Pickable(p) : bound' = bound \cup {<<p, v>>}
  /\ UNCHANGED <<pc, parameters, models, task, calls, run>>

(* Every open entry the row has is covered now. *)
AddRow ==
  /\ pc = "rows" /\ bound # {} /\ BoundParams = MyParams
  /\ run' = [open  |-> { k \in run.open : ~ (k \subseteq bound) },
             rows  |-> run.rows \cup {bound},
             seeds |-> IF run.seeds = <<>> THEN <<>> ELSE Tail(run.seeds)]
  /\ bound' = {}
  /\ UNCHANGED <<pc, parameters, models, task, calls>>

(* No combination or no value is left to bind, and GenerationFailure. *)
Stuck ==
  /\ RowUnfinished
  /\ IF LastParams = {} THEN FeasibleCells = {} ELSE \E p \in LastParams : Pickable(p) = {}
  /\ pc' = "failed"
  /\ UNCHANGED <<parameters, models, task, calls, run, bound>>

-----------------------------------------------------------------------------
(* The end of gcd *)

Resolve(p, list) == Without(list, {p}) \o Without(ModelOf(p).parameters, ToSet(list))

(* resolvePseudoParams, from the last to the first: a pseudo-parameter     *)
(* gives way to those of its components the model does not have yet.  (The *)
(* list is bound to a value first, for TLC.)                               *)
Resolved(params) ==
  FoldRight(LAMBDA p, acc :
              IF ~ IsPseudo(p) THEN acc
              ELSE CHOOSE list \in { Resolve(p, l) : l \in {acc} } : TRUE,
            params, params)

(* The value of a column in a row: its own, or that of the last            *)
(* pseudo-parameter that has it, by way of the submodel's row.             *)
ColumnValue(q, row) ==
  IF q \in MyParams THEN ValueOf(row, q)
  ELSE LET from == { i \in DOMAIN Self.parameters :
                       /\ IsPseudo(Self.parameters[i])
                       /\ q \in ToSet(ModelOf(Self.parameters[i]).parameters) }
           p == Self.parameters[CHOOSE i \in from : \A j \in from : j <= i]
       IN  ValueOf(RowTerms(p - PseudoBase, ValueOf(row, p)), q)

ResultsOf(columns, rows) ==
  FoldSet(LAMBDA r, acc : Append(acc, [i \in DOMAIN columns |-> ColumnValue(columns[i], r)]),
          <<>>, rows)

ResultParams(columns) == { p \in ToSet(columns) : parameters[p].isResult }

MarkedNever(columns, results, exclusions) == results  \* mutant

(* markUndefinedValuesInResultParams: a result value stands only when the  *)
(* exclusions with no other result parameter leave it as the only one.     *)
Marked(columns, results, exclusions) ==
  LET resultTerms(e) == { t \in e : parameters[t[1]].isResult }
      matches(e, row) == \A t \in e \ resultTerms(e) :
                           row[parameters[t[1]].sequence + 1] = t[2]
      ruledOut(q, row) ==
        { v \in 0 .. parameters[q].valueCount - 1 :
            \E e \in exclusions : /\ <<q, v>> \in e
                                  /\ Cardinality(resultTerms(e)) = 1
                                  /\ matches(e, row) }
      keeps(q, row) == Cardinality(ruledOut(q, row)) = parameters[q].valueCount - 1
  IN  [n \in DOMAIN results |->
         [i \in DOMAIN columns |->
            IF ~ parameters[columns[i]].isResult \/ keeps(columns[i], results[n])
              THEN results[n][i] ELSE UndefinedValue]]

MustMark(columns) == Top.model = task.root /\ ResultParams(columns) # {}

(* The exclusions of the root that mention a pseudo-parameter, which       *)
(* resolvePseudoParams has just deleted.                                   *)
Stale == { e \in Self.exclusions : \E p \in ParamsOf(e) : IsPseudo(p) }

GcdEnds ==
  /\ pc = "rows"
  /\ bound = {} /\ run.open = {}
  /\ LET columns == BySequence(Resolved(Self.parameters), parameters)
         results == ResultsOf(columns, run.rows)
     IN  IF MustMark(columns) /\ Stale # {} /\ results # <<>>
           THEN pc' = "undefined" /\ UNCHANGED <<parameters, models, calls, run>>
           ELSE /\ models' = [models EXCEPT
                     ![Top.model].parameters = columns,
                     ![Top.model].results =
                        IF MustMark(columns)
                          THEN Marked(columns, results, Self.exclusions) ELSE results]
                /\ parameters' = [p \in { q \in DOMAIN parameters :
                                            ~ (IsPseudo(q) /\ q \in MyParams) } |->
                                    parameters[p]]
                /\ Return
  /\ UNCHANGED <<task, bound>>

TreeStep ==
  \/ Descend \/ GcdReturns \/ GcdBegins
  \/ BindSeed \/ BindCombination \/ PickValue \/ AddRow \/ Stuck \/ GcdEnds

(***************************************************************************)
(* Where the choices of gcd are checked against all that matters.  At one  *)
(* order of two or more each parameter is the last of some combination     *)
(* with any others, once enough are bound, so that none is bound without   *)
(* PickValue; seeds must bind enough, which one term does at order two.    *)
(***************************************************************************)
OneOrder(params, known, seeds) ==
  \A p, q \in params :
    \/ p = q
    \/ /\ known[p].order = known[q].order
       /\ known[p].order = 2 \/ (known[p].order > 2 /\ seeds = <<>>)

(* At orders one and two mixed, a pair is a combination of its own or part *)
(* of none that is larger, so that one of its parameters is the last.      *)
LowOrders(params, known) == \A p \in params : known[p].order <= 2

AtMostPair(e) == \A s, t, u \in e : s = t \/ t = u \/ s = u

(* No row of a model with these parameters has the exclusion. *)
Respected(e, params, known, seeds) ==
  OneOrder(params, known, seeds) \/ (LowOrders(params, known) /\ AtMostPair(e))
=============================================================================
