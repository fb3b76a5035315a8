----------------------------- MODULE GcdRunner ------------------------------
(***************************************************************************)
(* execute, GcdRunner and CGcdData: the command line from its arguments to *)
(* its tests.  A model with negative values is generated twice, without    *)
(* them and then, from a copy, with at most one per test.  Each run builds *)
(* a tree of at most two levels, in which a parameter may be part of       *)
(* several submodels, and drives it from the leaves up.                    *)
(*                                                                         *)
(* Regular generation only; printing and statistics are left out.          *)
(***************************************************************************)
EXTENDS ModelTree, ModelReader

CONSTANTS
  Commands   \* arguments, lines of the model file and rows of the seed file

(* What the readers of arguments and files make of their text. *)
Cell == STRING \X STRING
Item == [isReference : BOOLEAN, name : STRING, positive : BOOLEAN]

Line ==
  [kind : {"param"}, name : STRING, order : Int, isResult : BOOLEAN, values : Seq(Item)]
    \cup [kind : {"set"}, names : Seq(STRING), order : Int]
    \cup [kind : {"constraint"}, forbids : SUBSET (SUBSET Cell)]
    \cup [kind : {"comment"}]

(* A file has no more parameters than ModelTree has numbers for.           *)
ASSUME CommandAssumption ==
  \A c \in Commands :
    /\ c \in [args : Seq([switch : STRING, value : Int]), lines : Seq(Line),
              seedRows : Seq(SUBSET Cell)]
    /\ Len(c.lines) <= PseudoBase

VARIABLES
  command,   \* one of Commands, without the lines read so far
  stage,     \* "start", "reading", "positive", "negative", "exited"
  options,   \* what ParseArgs made of the arguments
  data,      \* CModelData of the current run
  copy,      \* modelData2: as it was before negative values were removed
  tests,     \* CResult::TestCases
  exit       \* the ErrorCode, once it is known

runnerVars == <<command, stage, options, data, copy, tests, exit>>
vars == <<treeVars, runnerVars>>

Root == 0

-----------------------------------------------------------------------------
(* ParseArgs: each option is a known one, comes once and has a value it    *)
(* can take.  Only the order goes on to matter below.                      *)
Unusable == 0
DefaultOptions == [order |-> 2, provided |-> {}, valid |-> TRUE]

parseArg(opts, arg) ==
  IF \/ ~ opts.valid
     \/ arg.switch \in opts.provided
     \/ arg.value = Unusable
    THEN [opts EXCEPT !.valid = FALSE]
    ELSE [order |-> IF arg.switch = "o" THEN arg.value ELSE opts.order,
          provided |-> opts.provided \cup {arg.switch}, valid |-> TRUE]

ParseArgs(args) == FoldLeft(parseArg, DefaultOptions, args)

ExitWith(code) ==
  /\ stage' = "exited" /\ exit' = code
  /\ UNCHANGED <<pc, parameters, models, task, calls, run, bound, command, data, copy, tests>>

WithoutNegatives(p) ==
  [p EXCEPT !.values = Without(@, { v \in ToSet(p.values) : ~ v.positive })]

RemoveNegativeValues(d) ==
  [d EXCEPT !.parameters = [i \in DOMAIN @ |-> WithoutNegatives(@[i])]]

(* Rows left empty are dropped. *)
ReadRowSeedFile(rows, d) ==
  [d EXCEPT !.rowSeeds = Without([n \in DOMAIN rows |-> SeedOf(rows[n], d)], {{}})]

(* execute: ParseArgs, ReadModel a line at a time, ReadRowSeedFile, and the *)
(* copy that gcdRunner.Generate() makes before it removes negative values. *)
Execute ==
  /\ stage = "start"
  /\ options' = ParseArgs(command.args)
  /\ IF ~ options'.valid THEN ExitWith("BadOption")
     ELSE stage' = "reading" /\ UNCHANGED <<treeVars, command, data, copy, tests, exit>>

ReadLine ==
  /\ stage = "reading" /\ command.lines # <<>> /\ data.wellFormed
  /\ data' = readLine(data, Head(command.lines))
  /\ command' = [command EXCEPT !.lines = Tail(@)]
  /\ UNCHANGED <<treeVars, stage, options, copy, tests, exit>>

ReadSeeds ==
  /\ stage = "reading" /\ (command.lines = <<>> \/ ~ data.wellFormed)
  /\ IF ~ (data.wellFormed /\ ValidateParams(data)) THEN ExitWith("BadModel")
     ELSE /\ copy' = ReadRowSeedFile(command.seedRows, data)
          /\ data' = RemoveNegativeValues(copy')
          /\ stage' = "positive"
          /\ UNCHANGED <<treeVars, command, tests, exit>>
  /\ UNCHANGED options

-----------------------------------------------------------------------------
(* TranslateToGCD *)

Indices(d) == 0 .. Len(d.parameters) - 1

InSubmodels(d) == UNION { ToSet(d.submodels[i].parameters) : i \in DOMAIN d.submodels }

(* With submodels, each parameter in none gets one of order one to itself. *)
SubmodelsOf(d) ==
  LET outstanding == Without([n \in DOMAIN d.parameters |-> n - 1], InSubmodels(d))
  IN  IF d.submodels = <<>> THEN <<>>
      ELSE d.submodels \o [n \in DOMAIN outstanding |->
                             [parameters |-> <<outstanding[n]>>, order |-> 1]]

InputParamCount(d) == Cardinality({ i \in DOMAIN d.parameters : ~ d.parameters[i].isResult })

(* fixModelAndSubmodelOrder *)
OrderLimit(d) ==
  IF d.submodels # <<>> THEN Len(SubmodelsOf(d)) ELSE InputParamCount(d)

FixedOrder(d) ==
  IF /\ "o" \notin options.provided \/ options.order = MaximumOrder
     /\ options.order > OrderLimit(d) /\ OrderLimit(d) > 0
    THEN OrderLimit(d) ELSE options.order

SubmodelOrder(submodel, d) ==
  IF submodel.order = UndefinedOrder
    THEN Min({Len(submodel.parameters), FixedOrder(d)}) ELSE submodel.order

OrdersRefused(d) ==
  \/ FixedOrder(d) > OrderLimit(d)
  \/ \E s \in ToSet(SubmodelsOf(d)) : SubmodelOrder(s, d) \notin 1 .. Len(s.parameters)

TranslatedModels(d) ==
  LET subs == SubmodelsOf(d)
  IN  [m \in 0 .. Len(subs) |->
         IF m = Root
           THEN [NewModel(FixedOrder(d)) EXCEPT
                   !.parameters = IF subs = <<>> THEN [n \in DOMAIN d.parameters |-> n - 1]
                                                 ELSE <<>>,
                   !.submodels = [n \in DOMAIN subs |-> n]]
           ELSE [NewModel(SubmodelOrder(subs[m], d)) EXCEPT
                   !.parameters = subs[m].parameters]]

(* A seed in terms of the parameters of this run. *)
Known(cell, d) ==
  cell[1] \in Names(d) /\ ValueOrdinal(d.parameters[IndexOf(d, cell[1])], cell[2]) # -1

TermOf(cell, d) ==
  LET i == IndexOf(d, cell[1]) IN <<i - 1, ValueOrdinal(d.parameters[i], cell[2])>>

Translated(cells, d) == { TermOf(c, d) : c \in { k \in cells : Known(k, d) } }

NegativeTerms(d) ==
  UNION { {i - 1} \X { j - 1 : j \in { k \in DOMAIN d.parameters[i].values :
                                       ~ d.parameters[i].values[k].positive } } :
          i \in DOMAIN d.parameters }

PairsOf(pairs) == { {st[1], st[2]} : st \in pairs }

(* Mutant: neighbours are not paired. *)
NegativePairsApart(d) ==
  PairsOf({ st \in NegativeTerms(d) \X NegativeTerms(d) : st[1][1] + 1 < st[2][1] })

(* addExclusionsForNegativeRun *)
NegativePairs(d) ==
  PairsOf({ st \in NegativeTerms(d) \X NegativeTerms(d) : st[1][1] < st[2][1] })

FirstOnly(cell, d) == IF Known(cell, d) THEN {TermOf(cell, d)} ELSE {}  \* mutant

(* interpretTerm: every value of the name, of which there may be several.  *)
Meant(cell, d) ==
  UNION { {i - 1} \X { j - 1 : j \in { k \in DOMAIN d.parameters[i].values :
                                       d.parameters[i].values[k].name = cell[2] } } :
          i \in { h \in DOMAIN d.parameters : d.parameters[h].name = cell[1] } }

(* What the constraints forbid of the values there are: a combination of   *)
(* names is one of values in every way to take its names.                  *)
Chosen(e, d) ==
  { f \in [e -> UNION { Meant(c, d) : c \in e }] : \A c \in e : f[c] \in Meant(c, d) }

ConstraintExclusions(d) ==
  UNION { { { f[c] : c \in e } : f \in Chosen(e, d) } : e \in d.constraints }

TranslateToGCD ==
  /\ pc = "client" /\ stage \in {"positive", "negative"}
  /\ IF OrdersRefused(data) THEN ExitWith("BadModel")
     ELSE IF ~ data.parsable THEN ExitWith("BadConstraints")
     ELSE /\ pc' = "translated"
          /\ parameters' = [p \in Indices(data) |->
               [sequence |-> p, order |-> UndefinedOrder,
                isResult |-> data.parameters[p + 1].isResult,
                valueCount |-> Len(data.parameters[p + 1].values)]]
          /\ models' = TranslatedModels(data)
          /\ task' = [root |-> Root,
                      exclusions |-> NegativePairs(data) \cup ConstraintExclusions(data),
                      rowSeeds |-> [n \in DOMAIN data.rowSeeds |->
                                      Translated(data.rowSeeds[n], data)]]
          /\ UNCHANGED <<calls, run, bound, command, stage, data, copy, tests, exit>>
  /\ UNCHANGED options

(* PrepareForGeneration, then CheckEntireParameterExcluded: the empty      *)
(* exclusion is built from one of every value of some parameter, and these *)
(* stay beside it.                                                         *)
Prepare ==
  /\ pc = "translated" /\ stage # "exited"
  /\ IF {} \in ClosureOver(AllParameters(Root), parameters, task.exclusions)
       THEN ExitWith("BadConstraints")
       ELSE /\ PrepareForGeneration
            /\ pc' = "walk"
            /\ calls' = <<[model |-> Root, left |-> models[Root].submodels]>>
            /\ UNCHANGED <<parameters, run, bound, command, stage, data, copy, tests, exit>>
  /\ UNCHANGED options

-----------------------------------------------------------------------------
(* generateResults *)

(* FixParamOrder, each time a model is about to be generated: parameters   *)
(* of other models get an order they do not have.                          *)
FixParamOrder(m) ==
  [p \in DOMAIN parameters |->
     IF IsPseudo(p) THEN parameters[p]
     ELSE [parameters[p] EXCEPT !.order =
             IF parameters[p].isResult THEN 1
             ELSE IF p \notin ToSet(models[m].parameters) THEN UndefinedOrder
             ELSE IF m = Root /\ data.parameters[p + 1].order # UndefinedOrder
               THEN data.parameters[p + 1].order ELSE models[m].order]]

GenerateModels ==
  /\ stage # "exited"
  /\ \/ pc = "walk" /\ \E fixed \in {FixParamOrder(Top.model)} : Generate(fixed)
     \/ TreeStep
  /\ UNCHANGED runnerVars

(* A GenerationError; with assertions on the program does not get here.    *)
GenerationFails ==
  /\ pc = "failed" /\ stage # "exited"
  /\ ExitWith("GenerationError")
  /\ UNCHANGED options

Unknown == [name |-> "?", positive |-> TRUE]

TestOf(row) ==
  [run |-> stage,
   values |-> [i \in DOMAIN row |-> IF row[i] = UndefinedValue THEN Unknown
                                    ELSE data.parameters[i].values[row[i] + 1]]]

IsNegative(test) == \E i \in DOMAIN test.values : ~ test.values[i].positive

(* translateResults: of the negative run only the negative tests count.    *)
translateResults ==
  { t \in { TestOf(models[Root].results[n]) : n \in DOMAIN models[Root].results } :
      stage = "negative" => IsNegative(t) }

(* Mutant: the data is asked after its negative values are gone. *)
NegativeRunForgotten == stage = "positive" /\ HasNegativeValues(data)

NegativeRunAgain == HasNegativeValues(copy)  \* mutant: whichever run it was

NegativeRunNeeded == stage = "positive" /\ HasNegativeValues(copy)

(* One run is over; the next starts from the copy.                         *)
EndRun ==
  /\ pc = "generated" /\ stage # "exited"
  /\ tests' = tests \cup translateResults
  /\ IF NegativeRunNeeded
       THEN stage' = "negative" /\ data' = copy /\ UNCHANGED exit
       ELSE stage' = "exited" /\ exit' = "Success" /\ UNCHANGED data
  /\ pc' = "client"
  /\ parameters' = <<>> /\ models' = <<>>
  /\ task' = [root |-> NoModel, exclusions |-> {}, rowSeeds |-> <<>>]
  /\ UNCHANGED <<calls, run, bound, command, options, copy>>

-----------------------------------------------------------------------------
Init ==
  /\ command \in Commands
  /\ stage = "start" /\ exit = "none" /\ tests = {}
  /\ options = DefaultOptions
  /\ data = EmptyModelData /\ copy = EmptyModelData
  /\ pc = "client"
  /\ parameters = <<>> /\ models = <<>>
  /\ task = [root |-> NoModel, exclusions |-> {}, rowSeeds |-> <<>>]
  /\ calls = <<>> /\ run = NoRun /\ bound = {}

Next ==
  \/ Execute \/ ReadLine \/ ReadSeeds \/ TranslateToGCD \/ Prepare \/ GenerateModels
  \/ GenerationFails \/ EndRun

Spec == Init /\ [][Next]_vars

(* The program is sequential and always takes its next step. *)
FairSpec == Spec /\ WF_vars(Next)

-----------------------------------------------------------------------------
(* Properties *)

(* The parameters model m is generated with, as far as orders go: what     *)
(* FixParamOrder makes of those of the file, and the pseudo-parameters.    *)
OrderIn(p, m, d) ==
  IF IsPseudo(p) THEN TranslatedModels(d)[m].order
  ELSE IF d.parameters[p + 1].isResult THEN 1
  ELSE IF m = Root /\ d.parameters[p + 1].order # UndefinedOrder
    THEN d.parameters[p + 1].order ELSE TranslatedModels(d)[m].order

GeneratedWith(m, d) ==
  [p \in ToSet(TranslatedModels(d)[m].parameters)
            \cup { PseudoOf(n) : n \in ToSet(TranslatedModels(d)[m].submodels) } |->
     [order |-> OrderIn(p, m, d)]]

(* The models in which rows obey an exclusion, and the root as to some.    *)
RespectedIn(e, m, d) ==
  Respected(e, DOMAIN GeneratedWith(m, d), GeneratedWith(m, d), d.rowSeeds)

RespectedEverywhere(e, d) == \A m \in DOMAIN TranslatedModels(d) : RespectedIn(e, m, d)

PairsRespected(m, d) == RespectedIn({}, m, d)

(***************************************************************************)
(* doc/pict.md:245 (only one out-of-range value in any test): no test of   *)
(* the positive run has a negative value and every test of the negative    *)
(* run has exactly one, although pairs of them are forbidden as exclusions *)
(* that submodels split up and rewrite (gcdmodel.cpp:542-575), as long as  *)
(* each model is generated where pairs are checked.                        *)
(***************************************************************************)
NegativesIn(test) == { i \in DOMAIN test.values : ~ test.values[i].positive }

OneNegativePerTest ==
  (\A m \in DOMAIN TranslatedModels(copy) : PairsRespected(m, copy)) =>
    \A t \in tests : Cardinality(NegativesIn(t)) = IF t.run = "negative" THEN 1 ELSE 0

(***************************************************************************)
(* model.cpp:546 (an exact duplicate): a parameter two submodels share has *)
(* one value in each row, so that on every submodel's input parameters a   *)
(* row of the root is a row of that submodel, whichever one resolved the   *)
(* column; the root needs to be generated where pairs are checked.         *)
(***************************************************************************)
InputTerms(terms) == { t \in terms : ~ parameters[t[1]].isResult }

SubmodelRowsAgree ==
  pc = "generated" /\ models[Root].results # <<>> /\ PairsRespected(Root, copy) =>
    \A m \in ToSet(models[Root].submodels), n \in DOMAIN models[Root].results :
      \E k \in PseudoValues(m) :
        InputTerms(RowTerms(m, k)) \subseteq InputTerms(RowTerms(Root, n - 1))

(***************************************************************************)
(* No test has what a constraint forbids, by the names in the file, where  *)
(* exclusions of that size are checked: value numbers differ between the   *)
(* two runs and columns come from submodels (gcd.cpp:159,                  *)
(* gcdmodel.cpp:254-299).                                                  *)
(***************************************************************************)
NamedValue(test, name) == test.values[IndexOf(copy, name)].name

Obeys(t, e) ==
  \E c \in e : \/ c[1] \notin Names(copy)
              \/ t.values[IndexOf(copy, c[1])] = Unknown
              \/ NamedValue(t, c[1]) # c[2]

ConstraintsHold ==
  \A e \in copy.constraints : RespectedEverywhere(e, copy) =>
    \A t \in tests : Obeys(t, e)

(***************************************************************************)
(* doc/pict.md:81 (it is better to eliminate disallowed combinations       *)
(* during the generation process): no test has what a constraint forbids,  *)
(* at the order PICT uses unless told otherwise.                           *)
(***************************************************************************)
NothingForbidden ==
  options = DefaultOptions => \A e \in copy.constraints, t \in tests : Obeys(t, e)

(* The input values, by parameter index, and the tests they allow.         *)
Inputs == { i \in DOMAIN copy.parameters : ~ copy.parameters[i].isResult }

Allowed ==
  { f \in [Inputs -> UNION { ToSet(copy.parameters[i].values) : i \in Inputs }] :
      /\ \A i \in Inputs : f[i] \in ToSet(copy.parameters[i].values)
      /\ Cardinality({ i \in Inputs : ~ f[i].positive }) <= 1
      /\ \A e \in copy.constraints : \E c \in e :
           \/ c[1] \notin Names(copy)
           \/ copy.parameters[IndexOf(copy, c[1])].isResult
           \/ f[IndexOf(copy, c[1])].name # c[2] }

Pairwise == options.order >= 2 /\ \A i \in Inputs : copy.parameters[i].order = UndefinedOrder

(***************************************************************************)
(* doc/pict.md:271 (all pairs of valid values are covered, and invalid     *)
(* values are paired only with valid ones): without submodels, a pair of   *)
(* input values that some allowed test has is in a test of one of the runs *)
(* (gcd.cpp:154-184).                                                      *)
(***************************************************************************)
PairsTested ==
  exit = "Success" /\ copy.submodels = <<>> /\ Pairwise =>
    \A f \in Allowed, i, j \in Inputs :
      \E t \in tests : t.values[i] = f[i] /\ t.values[j] = f[j]

(***************************************************************************)
(* A result is in a test exactly when the constraints leave one value for  *)
(* it, given the inputs of the test, if the test is one they allow         *)
(* (model.cpp:423-529).                                                    *)
(***************************************************************************)
ResultValuesImplied ==
  \A t \in tests, i \in DOMAIN copy.parameters :
    /\ copy.parameters[i].isResult /\ copy.submodels = <<>>
    /\ \A e \in copy.constraints : Obeys(t, e)
    => LET possible == { v \in ToSet(data.parameters[i].values) :
                           \A e \in copy.constraints : \E c \in e :
                             IF c[1] = copy.parameters[i].name THEN c[2] # v.name
                                                               ELSE NamedValue(t, c[1]) # c[2] }
       IN  IF Cardinality(possible) = 1 THEN t.values[i] \in possible
                                        ELSE t.values[i] = Unknown

(***************************************************************************)
(* doc/pict.md:271 once more, of one value: an invalid value that some     *)
(* allowed test has is in a test.                                          *)
(***************************************************************************)
InvalidValuesTested ==
  exit = "Success" =>
    \A f \in Allowed, i \in Inputs :
      ~ f[i].positive => \E t \in tests : t.values[i] = f[i]

(***************************************************************************)
(* doc/pict.md:227 (any parameter can belong to any number of submodels):  *)
(* the generator never runs out of values to pick (parameter.cpp:129-130). *)
(***************************************************************************)
NeverStuck == pc # "failed"

(* Whatever the input, the program ends, or aborts at an assertion.        *)
Ends == <>(stage = "exited" \/ pc \in {"asserted", "undefined"})
=============================================================================
