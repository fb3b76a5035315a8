# PICT in TLA+

PICT generates combinatorial test suites: given parameters with values, it
emits rows such that every combination of values of every *t* parameters (the
order) occurs in some row, except the combinations that exclusions forbid.
This directory models the engine behind it and checks and proves what makes
the generated suite right.

Paths below are relative to `src/`; "row" is one test case of the output.

## 1. Inventory

### How the parts interact

```
 command line            pictapi.h
  cmdline, mparser,         |
  ctokenizer, cparser,      |
  gcdexcl  (constraints     |
  -> exclusions)            |
      |                     |
  gcd.cpp / gcdmodel.cpp ---+--> Task
                                  |- deriveExclusions -> ExclusionDeriver
                                  |- Model tree: Generate (mixed order) per
                                  |    submodel, from the leaves up
                                  |      '-> Model::gcd -> Combination,
                                  |                        Parameter, WorkList
                                  '- result cursor (GetNextResultRow)
```

Everything is sequential. The only callback is the abort callback of a task,
asked once per row and once per step of exclusion derivation; the only
nondeterminism is `rand()`, seeded by the user, and the iteration order of sets
that are ordered by address.

### Components

| Component | State | Operations | What is hard | What makes it correct |
|---|---|---|---|---|
| **Generator** `api/model.cpp` (`gcd`), `combination.cpp`, `parameter.cpp`, `worklist.cpp` | one bit vector per combination (OPEN, COVERED, EXCLUDED), counters of open entries and bound parameters, `GlobalZerosCount`, bindings and pending marks of the row, the work list, one result column per parameter | `processExclusions`, `fixRowSeeds`, `Bind`, `AddBinding`, `PickValue`, choice of a combination, `generateRandomRow` | everything is counted incrementally, values are picked one by one without backtracking, seeds bind parameters in an order no combination chose | rows valid, all targets covered, counters true, no assertion fires, the search never gets stuck and ends |
| **Exclusions** `api/exclusion.cpp`, `trie.h` | sorted sets of terms | order, containment, prefix lookup | the lookup looks for subsets by permuting prefixes | finds an exclusion contained in another, if there is one |
| **ExclusionDeriver** `api/deriver.cpp` | exclusion set, trie, marks, work list of parameters, links from parameters, recursion over values | `DeriveExclusions`, `buildExclusion`, `markObsolete`, `peformDelete` | sets are modified while recursion holds iterators into them; which parameters are visited again depends on counters | valid rows unchanged, result closed, no dangling link, ends |
| **Model tree** `api/model.cpp` | submodels, pseudo-parameters whose values are rows of a submodel, exclusions and seeds per model | `Generate*`, `mapExclusionsToPseudo`, `mapRowSeedsToPseudo`, `resolvePseudoParams`, `excludeConflictingParamValues`, `markUndefinedValuesInResultParams` | exclusions over two submodels, orders that differ per parameter, columns of different numbering | the composed rows satisfy the exclusions of all levels |
| **Task, C API** `api/task.cpp`, `pictapi.cpp` | root model, exclusions, seeds, result cursor | create/attach/add/generate/fetch/delete | calls in any order, generation twice, results of a failed call | no stale pointer, the cursor hands out each row once |
| **Generation runs** `cli/gcd.cpp`, `gcdmodel.cpp` | model data, warnings, two result sets | positive run, negative run, translation | the negative run works on a changed copy of the model | one negative value per negative row, none in a positive one |
| **Constraint interpreter** `cli/gcdexcl.cpp` | syntax trees, exclusion lists | terms, relations, AND/OR/NOT to exclusions | negation on trees, contradictions dropped | the exclusions forbid exactly the rows the constraint is false for |
| **Constraint parser** `cli/ctokenizer.cpp`, `cparser.cpp` | token list, syntax tree | tokenizing, priorities, NOT elimination | the carry of NOT, implication | the tree keeps its truth |
| **Model and seed reader** `cli/mparser.cpp`, `cli/model.cpp` | parameters, aliases, submodels, seeds | reading, validation, result parameters | aliases, negative prefix, warnings | the engine gets the model that was written |
| **Command line, output, strings** `cli/cmdline.cpp`, `pict.cpp`, `common.cpp`, `strings.cpp` | options | parsing, printing, statistics, `patternMatch` | the wildcard matcher | sequential text processing |
| **Shared library, samples, tests** | - | - | - | documentation of what is expected |

The hazards, each with the line where it bites and the property that would
catch it, are in `PROJECT.json`.

## 2. Modules

| Module | Models | Extends / uses |
|---|---|---|
| `Exclusions` | terms, cells of a bit vector, containment, closed exclusion sets, `fixRowSeeds` | - |
| `Gcd` | one call of `Model::gcd` on one model | `Exclusions` |
| `CoveringSuite` | what a generator promises (abstract) | `Exclusions`; implemented by `Gcd` |
| `Deriver` | one call of `ExclusionDeriver::DeriveExclusions` | `Exclusions` |
| `ModelTree` | `Task::PrepareForGeneration`, `Model::Generate` over a tree, the end of `gcd` | `Exclusions`, an instance per parameter set |
| `PictApi` | `pictapi.h` with a client that calls it | `ModelTree` |
| `Strings` | `cli/strings.cpp` | - |
| `ConstraintTokenizer` | `cli/ctokenizer.cpp`, as operators of a position | `Strings` |
| `ConstraintParser` | `cli/cparser.cpp`: trees, NOT elimination, verification | `ConstraintTokenizer` |
| `ConstraintInterpreter` | `cli/gcdexcl.cpp`: from a text to exclusions, step by step | `ConstraintParser` |
| `ModelReader` | `cli/mparser.cpp`, `cli/model.cpp`: lines to model data | - |
| `GcdRunner` | `execute`, `GcdRunner`, `CGcdData`: two generation runs | `ModelTree`, `ModelReader` |
| `MCGcd`, `MCDeriver`, `MCApi`, `MCConstraints`, `MCGcdRunner` | instances for TLC | the above |
| `ExclusionProofs` | lemmas on terms, cells, orderings | `Exclusions` |
| `GcdProofs` | type correctness, bindings, assertions, counters, covered entries | `Gcd`, `ExclusionProofs` |
| `GcdSafetyProofs` | the search and what it delivers: queue, exact coverage, valid rows, never stuck, refinement of `CoveringSuite`, seeds, results | `GcdProofs` |
| `DeriverProofs` | theorems about derivation | `Deriver`, `ExclusionProofs` |
| `ModelTreeProofs` | lemmas on the operators of the tree: folds over lists, sorting, resolved rows, closures | `ModelTree` |
| `PictApiProofs` | theorems about the tree and the API: rows without exclusions, each fetched once | `PictApi`, `ModelTreeProofs` |
| `PictApiCoverProofs` | nothing is lost on the way up the tree: rows of submodels, seeds | `PictApiProofs` |
| `GcdRunnerProofs` | theorems about the tests of the command line: negative values, constraints, rows of submodels | `GcdRunner`, `ModelTreeProofs` |

### Data

A parameter is its sequence number, a term a pair `<<parameter, value index>>`.
An exclusion, a seed, an entry of a combination's bit vector (a *cell*) and a
row are sets of terms, so that "contains" is `\subseteq` throughout. The index
arithmetic of `Combination::AddBinding`, `Bind` and `Feasible` is modelled by
what it computes: the cell an assignment selects, and the cells that agree with
what is bound. Value names, types, weights in regular mode (they only break
ties, and `rand()` may break them any way) and formatting are left out.

### Gcd

| Code | Model |
|---|---|
| `m_bitmap` of all combinations | `opened`, `excluded` (what is in neither is COVERED) |
| `m_openCount`, `m_boundCount`, `GlobalZerosCount` | `openCount`, `boundCount`, `zeros`, kept by increments as in the code |
| `m_bound` with `m_currentValue`; `m_pending` | `row`; `pending` |
| `WorkList::m_rep` | `worklist` |
| the rest of a loop of `Bind` calls (a seed, a combination, a random row) | `todo`: one `Bind` is one step |
| `m_result` of the parameters; `m_results` | `columns`; `results` |
| the point `gcd` has reached | `pc` |

`ProcessExclusions`, `FixRowSeeds`, `StartRow` (with the seed of the row),
`BindNext`, `ChooseOpen`, `ChooseCovered`, `Pick`, `EndRow`, `DrawRow`,
`GiveUp`, `Finish` and `Cancel` follow the code from top to bottom.
`EmptyExclusion`, `NoChoice`, `NoValue` and `AssertFails` are its `assert()`s.
The Makefile build keeps them; a CMake Release build defines `NDEBUG`, and
`NoChoice` and `NoValue` are followed by a `GenerationFailure` there, hence
their own pc `"failed"`.

Ties between combinations, cells and values are broken by `rand()`, and a seed
is iterated in address order: both are `\E` over all outcomes. `Preview` and
`Approximate` are told apart by `Mode`.

### CoveringSuite

A suite grows by valid rows, each of which covers something new or completes a
seed; it may be delivered when everything the exclusions leave possible is
covered, and cancelled at any time. `PromiseKept` states that `Gcd` refines it,
with the complete columns as the suite. It refines it only where the call ends
well, so the run that checks it also checks `AssertionsHold` and `NeverFails`.
`GeneratorImplementsPromise` proves it for models of one order of two or more.

### Deriver

`stack` holds the activations of the recursive `buildExclusion`, one per value
of the parameter that is being resolved upon; a step takes one exclusion from
one bucket. Exclusions that became obsolete are only marked (`deleted`) until
the outermost activation returns, and `linked` is what the parameters'
iterators point to. Neither these nor the buckets may still hold an exclusion
when it is erased: `NoDanglingLink`.

### ModelTree

Derivation is used through what `Deriver` is checked for: it yields the closure
of its exclusions. That is what it promises on parameters that are linked to
nothing. `deriveSubmodelExclusions` runs a second deriver on parameters whose
`m_exclusions` may still point into the set of the first, which is gone;
`FreedIsRead` says when it looks there for certain (`LinkExclusion` compares a
new exclusion with the old ones) and `FreedMayBeRead` when it may
(`DeriveExclusions` puts the links of a parameter into buckets). Then `Generate`
may end in `pc` = "undefined", and must where the read is certain. `CleanUp` at
the end of a `gcd` removes the links of that model's parameters; `Uncleaned` are
those it has not reached.

`gcd` is here with the choices it makes, because what its rows obey depends on
what each choice is checked against. `bound` is the row under construction.
`BindSeed` binds a seed; `BindCombination`, when no parameter is the last
unbound one of a combination, binds an entry that agrees with the row and is not
excluded *within its own combination*; `PickValue` gives a last parameter a value
and looks at the combinations that this completes. A finished row (`AddRow`) may
therefore have an exclusion, as it may in the code. What is left out is how the
counters of `Gcd` find the best choice: any allowed one is taken, so that every
suite `Gcd` can make is among those here. `Stuck` is where no choice is left.

| Code | Model |
|---|---|
| `Parameter*`, `Model*` | numbers; the *i*-th parameter of model *m* is `PerModel * m + i`, its pseudo-parameter `PseudoBase + m` |
| `Parameter`, `PseudoParameter` objects | `parameters`, a function that loses the pseudo-parameters when they are deleted |
| `Model` objects | `models`: order, parameters, submodels, exclusions, seeds, results |
| recursion of `Generate` | `calls`, one entry per activation with the submodels left |
| locals of `gcd` | `run`: open entries, rows so far, seeds left |
| `m_bound`, `m_currentValue` | `bound`, the terms of the row so far |

`Descend` goes into a submodel; `Generate` adds the pseudo-parameters, maps
exclusions (`MappedExclusions`) and seeds (`MappedSeeds`), excludes conflicting
rows of submodels that share a parameter (`Conflicts`) and derives again where
the code does; `GcdBegins`, the steps of a row and `GcdEnds` are `gcd`, at whose end
`Resolved` and `ColumnValue` replace pseudo-parameters by columns and `Marked`
decides which results stand. `pc` = "asserted" and "undefined" mark an
assertion and a read of what was deleted or never there. `GcdBegins` has one more
of the latter: an exclusion whose first parameter is in no combination makes
`processExclusions` read past an empty vector (`Loose`), and so is one that names
a parameter the model does not have, because its submodel had no rows, taken as
undefined.

Which rows obey an exclusion is `Respected`: all parameters of the model have one
order of two, or of more without seeds, or their orders are one and two and the
exclusion has at most two terms. `RespectedEverywhere` asks that of each model an
exclusion may come to. A `$result` is of order one, so that a model with results
is in the second case, and its constraints of three terms are not claimed to
hold: they do not (`result_contradicted`).

### PictApi

One action per function of `pictapi.h`; `ret` and `left` are return values.
The client may call whatever the header does not forbid, in any order, and may
stop anywhere. `fetched` are the rows it has seen. It generates once.

### Constraint language

A text is a sequence of symbols, a symbol being a character or a word that
nothing looks into. White space between tokens is not represented. The tokenizer is
written as the recursive descent it is, each operator returning an error, a
position and tokens. The parser's two stacks are folded over the tokens.
`ConstraintInterpreter` steps through `ConvertToExclusions`: one token list,
one tree, one verified and one interpreted constraint at a time, so that the
renumbering after an erased constraint is visible. `written` is what the author
of the text means by it; no step reads it.

### ModelReader and GcdRunner

A line of a model file is what the reader makes of its text; a constraint
arrives as the combinations of value names it forbids, which is what
`ConstraintsHold` needs and what the previous modules establish. Two values of a
parameter may have one name (the reader only warns); a constraint is about both
(`Meant`, `ConstraintExclusions`), a seed about the first (`TermOf`). `GcdRunner` goes from the
arguments to an exit code: reading line by line, the copy of the model data,
the positive run, the negative run. `TranslatedModels`, `FixedOrder`,
`FixParamOrder`, `NegativePairs` are `TranslateToGCD` and what it calls. Tests
are kept with the run they come from and by value names, since value numbers
differ between the two runs.

## 3. What TLC checks

| Run | Question | Result |
|---|---|---|
| `gcd_pairs` | pairwise, seven closed exclusion sets, seven seed lists, aborts | all properties hold, the promise is refined, calls end |
| `gcd_triples` | order 3 on five parameters; no seed, a one-term seed, a two-term seed, a contradiction | coverage is true; safe from two-term seeds |
| `gcd_preview` | Preview mode with exclusions that are not closed, beside a parameter in no combination | only that parameter makes it give up; the loop ends |
| `gcd_approx` | Approximate mode, even weights, no seeds | valid rows, no assertion |
| `deriver` | every set of up to three exclusions over 2x2x3 values, every set of four or five pairs, two contradictions | result is the minimal closed set, valid rows never change |
| `constraints` | every clause form, up to three operators, IF/ELSE, lists of up to three constraints, and texts that lost a symbol | exclusions mean what the text means; errors and warnings have their cause |
| `api` | sixteen trees of up to five models, of one order and of mixed ones, set up and used in any order | exclusions that are respected hold and seeds appear across models, no row of a submodel is lost, each row is fetched once, freed exclusions are read only where `FreedNotRead` allows it |
| `command_line` | model files with negative values, submodels apart and sharing, results, own orders, and what is refused | one invalid value per negative test, respected constraints hold, pairs are tested, the program ends |
| `result_contradicted`, `shared_parameter`, `negative_value_lost`, `as_documented` | section 6 | violated, as explained there |

The properties, by what could go wrong:

- `CountersAgree`: the loop is ended and combinations are selected by counters
  that other classes maintain by increments.
- `BindingDiscipline`, `AssertionsHold`: a parameter is bound, about to be
  bound, or queued, never two of these.
- `LastParamsQueued`: a parameter that alone completes a combination goes
  through the work list, where its values are checked against exclusions.
- `NoInvalidRow`, `NeverFails`, `StuckForCause`, `SafeFromAmpleSeeds`: no excluded combination, without backtracking and
  without getting stuck. The last one is what holds at order 3: a seed has to
  bind order - 1 parameters. Where it does not hold, the search still gives up
  for a reason: no valid row extends what is bound, or a parameter is in no
  combination.
- `CoverageIsExact`, `PromiseKept`: an entry is open exactly while it is valid
  and in no row; at the end none is.
- `SeedRowsKeepSeeds`: one row per seed, in their order.
- `MeaningKept`, `WaitingOrSaturated`, `ClosedWhenDone`, `ClosureReached`,
  `NoDanglingLink` for the deriver (one derivation, from unlinked parameters). `ClosedWhenDone` is the link between the
  two: `Gcd` is run on closed exclusion sets because the deriver leaves those.
- `NoExcludedRow`, `SubmodelRowsSurvive`, `SeedAppears` (`api`): what a client
  said of parameters of several models still holds after it was rewritten in
  terms of rows of submodels, level by level. The first is about exclusions that
  are respected (section 2), the second about trees where all are.
  `SubmodelRowsSurvive` and
  `SeedAppears` are for trees without an exclusion across models: such an
  exclusion may forbid every row that contains a row of a submodel. Nor does
  either hold of every such tree. A submodel is in no combination where the
  orders ask for more parameters than there are; then only a seed can bind it,
  and generation ends well with the one row of the submodel that the seed names, so
  `SubmodelRowsSurvive` is for trees in which every submodel is combined
  (`SubmodelsCombined`; the last program of `MCApi` is one in which none is).
  And `fixRowSeeds` drops the terms of a seed that name no parameter or no value
  of the tree, without a word: such a seed need not appear (`IsKnown`).
- `FetchedEachOnce`: the cursor and the buffer.
- `FreedNotRead`: when each parameter is in a combination, the second derivation
  can only go wrong under a model that has submodels and a parameter of its own
  which an exclusion names. That it does go wrong there is section 5.
- `ExclusionsMeanConstraints`: for every row, being excluded and making a
  constraint false are the same, on texts the grammar and the parser read alike
  (`as_documented` has the others). `RefusedForCause`, `WarnsAboutTheOffender`,
  `StacksBalance` are about texts that are wrong in some way.
- `OneNegativePerTest`, `ConstraintsHold`, `PairsTested`, `ResultValuesImplied`,
  `SubmodelRowsAgree`: what a user of the program reads in its output, across
  two runs and several submodels. Those that rest on exclusions ask that the
  models concerned respect them: pairs, for invalid values and shared parameters.
  `ResultValuesImplied` is about tests that the constraints allow.
- `Terminates` for a generation and a derivation, `Ends` for the program.

### Bounds

- Three parameters of two values at order 2 have combinations that share one
  parameter and combinations an exclusion adds; a row has a first combination,
  a parameter picked from the work list, and a combination already covered.
  Order 3 needs parameters beyond the first combination: five, three of which
  have two values.
- The exclusion sets contain: none, a value, a pair, pairs that imply a third,
  and triples that no pairwise combination can express, so that
  `processExclusions` adds a combination. Seeds: partial, complete, contained
  in one another, equal, of unknown parameters and values, violating.
- `api`: two models show mapping, three show it twice, both side by side and in
  a chain; one parameter of one value makes a submodel with a single row. Five
  models on two levels without parameters of their own are derived twice on
  parameters that were cleaned up; the chain with an exclusion over two models is
  derived with parameters that were not.
- `constraints`: a numeric parameter, one with a negative value, one of strings
  and a result, with three, two, two and one values: every relation separates
  them. Three terms of different truth, and everything of up to three operators
  made of them, distinguish precedence, NOT and parentheses.
- `command_line`: two values are enough for an order, a negative and a positive
  value for a run to lose one. `PairsTested` holds for order 2 and above and
  without submodels, since with them only pairs of submodels' rows are promised.
- `MaxRows` = 20 exceeds every suite of the instances (`Terminates` would fail
  in a state where `StartRow` is cut off), except in Approximate mode, which
  may draw covered rows again and again: `gcd_approx` looks at the first five
  rows and claims nothing about the end.
- `deriver` has no bound: its inputs are all small exclusion sets. Two of them
  forbid every row: derivation goes on after it has found the empty exclusion,
  which counts as broader than what is then no longer derived.

`CHECK_DEADLOCK FALSE`: one behaviour is one call, one client or one program,
and it ends.

### Fairness

`FairSpec == Spec /\ WF_vars(Step)`: the thread that made the call keeps
running. No fairness for `Cancel`: nobody has to abort. Which tie is taken, or
which random row, is never assumed to be fair. In `GcdRunner`,
`FairSpec == Spec /\ WF_vars(Next)`: the program has one thread and waits for
nothing. `Ends` follows because each step of a row binds a parameter, and each
row uses up a seed or an open entry.

## 4. What is proved

TLAPS checks these for every parameter set, value counts, combinations,
exclusions and seeds that satisfy `ParamAssumption`, `GcdAssumption` and
`DeriverAssumption`. They say what the constants are (finite, natural numbers,
duplicate-free combinations, sets of terms), and that an excluded parameter is
in some combination, without which `processExclusions` reads past a vector.

The theorems about `PictApi` are for every set of programs that satisfies
`ProgramAssumption`: finitely many models, each with its own parameters, any
value counts (zero included), orders, exclusions and seeds, attached to a
parent of a smaller number and attached once. So what a client builds is a
forest, which the engine takes for granted: it deletes a submodel with its
parent. `PerModel` and `PseudoBase` only number the objects: they are large
enough for no two to share a number.

The theorems about `GcdRunner` are for every set of command lines that satisfies
`CommandAssumption`: any arguments, any lines in any order, well formed or not,
any seed file. It says what type the parts of a line have, and that a file has
no more lines than `PseudoBase` has numbers for its parameters.
`OrderAssumption` says of the two constants of `cli/model.h` what they are.

| Theorem | Statement | Under |
|---|---|---|
| `GcdProofs!TypeCorrect` | `Spec => []TypeOK` | - |
| `GcdProofs!BindingIsDisciplined` | `Spec => []BindingDiscipline` | `SoundInput` |
| `GcdProofs!NoAssertFires` | `Spec => []AssertionsHold` | `SoundInput` |
| `GcdProofs!CountersAreRight` | `Spec => []CountersAgree` | - |
| `GcdSafetyProofs!LastAreQueued` | `Spec => []LastParamsQueued` | - |
| `GcdSafetyProofs!CoverageIsRight` | `Spec => []CoverageIsExact` | - |
| `GcdSafetyProofs!GivesUpForCause` | `Spec => []StuckForCause` | - |
| `GcdSafetyProofs!SafeFromSeeds` | `Spec => []SafeFromAmpleSeeds` | `SafeInput` |
| `GcdSafetyProofs!RowsAreValid` | `Spec => []NoInvalidRow` | `SafeInput`, `AmpleInput` |
| `GcdSafetyProofs!SearchNeverFails` | `Spec => []NeverFails` | `SafeInput`, `AmpleInput` |
| `GcdSafetyProofs!GeneratorImplementsPromise` | `Spec => PromiseKept` | `SafeInput`, `AmpleInput` |
| `GcdSafetyProofs!SeedsStayInTheirRows` | `Spec => []SeedRowsKeepSeeds` | - |
| `GcdSafetyProofs!DrawnRowsAreValid` | `Spec => []NoInvalidRow` | Approximate mode, no known term in a seed |
| `DeriverProofs!DeriverTypeCorrect` | `Spec => []TypeOK` | - |
| `DeriverProofs!DerivationSound` | `Spec => []MeaningKept` | - |
| `DeriverProofs!LinksAreLive` | `Spec => []NoDanglingLink` | - |
| `DeriverProofs!NobodyIsForgotten` | `Spec => []WaitingOrSaturated` | - |
| `DeriverProofs!DerivedSetsAreClosed` | `Spec => []ClosedWhenDone` | - |
| `DeriverProofs!DerivationReachesClosure` | `Spec => []ClosureReached` | - |
| `PictApiProofs!RowsHaveNoExclusion` | `Spec => []NoExcludedRow` | - |
| `PictApiProofs!RowsFetchedOnce` | `Spec => []FetchedEachOnce` | - |
| `PictApiCoverProofs!SubmodelRowsReachRoot` | `Spec => []SubmodelRowsSurvive` | - |
| `PictApiCoverProofs!SeedReachesRoot` | `Spec => []SeedAppears` | - |
| `GcdRunnerProofs!OneNegativeInEachTest` | `Spec => []OneNegativePerTest` | - |
| `GcdRunnerProofs!TestsObeyConstraints` | `Spec => []ConstraintsHold` | - |
| `GcdRunnerProofs!RowsAreRowsOfSubmodels` | `Spec => []SubmodelRowsAgree` | - |

"-" means every mode and every input. The hypotheses are on constants:

- `SoundInput` excludes what the code asserts not to get: the empty exclusion,
  seeds with two values for a parameter, and Approximate mode (see 6).
- `SafeInput` is Regular mode as `Task::PrepareForGeneration` sets it up: sound
  input, exclusions that are closed because the deriver ran
  (`api/task.cpp:100`; `DerivedSetsAreClosed`), and all combinations of one order, two or more. That
  the order is at least two cannot be left out (section 6); a
  parameter with an order of its own is outside it, too.
- `AmpleInput` says that a seed has no known term, in which case it is dropped,
  or order - 1 of them at least. No seeds at all satisfy it, and at order two
  every seed does.

*Type correctness* is by one lemma per action. The step that needs thought is
`Bind`: its queue is an ordering of the parameters it finds last, and its
columns keep values that are in range.

*Bindings and assertions.* `AssertionsHold` is not inductive: that no
parameter is bound twice follows from where a parameter may be, which is
`BindingDiscipline`, and that all columns end up equally long from `unbound`
counting what is left. `BindInv` joins the two: the parameters bound, in
`todo` and in `worklist` are disjoint and marked pending, `unbound` is the
number of parameters not bound, and a column has one value more if its
parameter is bound in the current row.

*Counters.* `CountInv` adds to `CountersAgree` that no two combinations are
over the same parameters. This is what makes `GlobalZerosCount` right: a `Bind`
lowers it by the number of combinations it completes with an open entry, and
only distinct combinations have distinct entries (`CoveredOncePerHit`).
`processExclusions` keeps it because it adds a combination only for parameters
that no combination has together. The invariant does not need the bindings to
be disciplined: where they are not, `Bind` asserts before it counts.

*The queue.* `QueueInv`: pending parameters are the bound ones and those that
wait, and who alone can complete a combination is pending. `Bind` raises
`boundCount` and looks for last parameters in the same breath (`BindQueues`).

*Coverage.* `CoverInv` relates three things that are never compared in the
code: the bit vectors, the row under construction and the columns. A covered
entry is in the row or in a finished one (`Accounted`); the columns of bound
parameters are one value ahead (`InStep`) and that value is the one in the row
(`RowInColumns`). The delicate step is the start of a row, which forgets the
bindings of the last one: all its parameters must be bound by then, which
follows from `unbound` (`CountInv`) in regular mode and from the completeness
of random rows in Approximate mode (`StartRowCover`). `EntryInv` is the other
half: no open entry is in any row (`Uncovered`), and each exclusion is
expressed by EXCLUDED entries of some combination (`Prepared`). Together they
make coverage exact. They also show why the search gives up
(`GivesUpForCause`): every value of a parameter is ruled out only if each
violates an exclusion together with the row.

*Validity of rows.* Nothing in the code checks a row. The argument is about
the plan of a row, that is, what is bound plus what a running loop of `Bind`
calls will bind. `RowSafe`: the plan contains no exclusion and, once it has a
term, binds order - 1 parameters. Then each other parameter is the last one of
some combination within the plan and itself (`LastSomewhere`), so by `QueueInv`
it is picked from the work list, and never by a combination that is
chosen when the list is empty. `PickValue` refuses what an EXCLUDED entry rules
out; an exclusion that the value would violate is found because either it has
few enough parameters to be inside a combination of bound ones, or
`processExclusions` made a combination for it (`PickedIsSafe`). A value that
is not refused exists because the exclusions are closed: every valid partial
row extends by some value of each parameter, and an entry that rules out a
value stands for an exclusion that value completes (`ValueFound`). A row starts from an open entry, which
is valid and of the full order, or from a seed, which is ample by hypothesis.
Both bounds, `AmpleInput` and the order of two, are used exactly here.

*Refinement.* `PurposeInv` says what an unfinished row is for: it will contain a seed,
or a valid entry that no finished row contains (`Aimed`). When its last
parameter is bound, the row is appended to the finished ones (`BindFinishes`);
the abstract action asks for a valid row with such a purpose, which `SafeInv`
and `PurposeInv` give. All other steps leave the finished rows alone. The end
of the loop, `zeros = 0`, means by `CountInv` and `EntryInv` that nothing is
left to cover.

*Seeds.* `SeedInv`: after *m* rows the seeds left are those from *m* + 1 on,
and the rows finished so far have kept theirs. It is for any order in which
`fixRowSeeds` may keep seeds; that the set it starts from fixes their order is
`OneOrdering`.

*Approximate mode.* Without seeds the plan is one random row that was looked up
in the exclusions (`Drawn`).

*Derivation.* `DeriveInv` says that every exclusion in the collection is
implied by the given ones (`Implied`), that the live ones still make every row
invalid that the given ones do, and what a half-built exclusion means
(`SoundFrame`): at depth *i* it is impossible together with any of the values
0 .. *i* - 2 of the parameter. `MergedSound` is the step from *i* to *i* + 1;
at full depth a row has no other value left, so the result is implied. An
obsolete exclusion may go because what made it obsolete stays
(`AddImpliedDerive`). That loading drops only exclusions that contain another
is by well-foundedness of strict inclusion (`LeastExclusion`). `LinksAreLive`
comes from the same invariant.

*Closure.* A choice of one exclusion for every value of a parameter implies what
its exclusions say of the other parameters (`Choices`, `ImpliedBy`); a parameter
is `Settled` when every consistent result of a choice contains an exclusion of
the collection. `ClosureInv` adds to `DeriveInv` that an obsolete exclusion has
a broader live one, that no live one contains another, and that every parameter
but the waiting ones and the one being resolved upon is settled. Within the
recursion, `BuildInv` says that a choice whose result is still missing is
`Ahead`: some activation has merged only what the choice has and has not yet
taken the choice's exclusion from its bucket. An addition cannot unsettle a
parameter that its counters do not queue: with fewer exclusions than values some
value is in none (`TooFewToChoose`), and an exclusion without the parameter is
in no choice upon it (`ChoicesWithout`). At the end all are settled, which makes
the collection closed; `Completable` extends a partial row that violates no
exclusion to a valid row, one parameter at a time, so that what the collection
does not forbid is possible and its members are the minimal impossible ones.
The proof attempt corrected a property: once the empty exclusion has been
derived, an intermediate result that is still empty is dropped as known, and
with it what it would have become, so that a parameter may be settled by the
empty exclusion only.

Where a proof needs induction over a finite set (a largest subset, a set
between two others of given size, the one ordering of a set of numbers), it is
by a minimal element of the subsets under strict inclusion: `Largest`,
`Between`, `OneOrdering`.

*The tree.* An exclusion of the task ends up in the exclusions of some model,
its `home`: the lowest one whose subtree has all its parameters
(`findMatchingNode`). The generation of that model sees it in terms of
pseudo-parameters, and the models above know nothing of it, so that nothing
in the root's rows can be compared with the exclusion directly. `ApiInv` is an
invariant for each phase. While the client sets up (`SettingUp`), the models
made so far own exactly the parameters added to them. During generation
(`Walking(home)`) the activations of `generate` form a path from the root
(`Path`), and each model is in one of three states: not started (`Fresh`:
own parameters only, and the exclusions that went to it), done (`Finished`:
columns for every parameter of its subtree, and no row with an exclusion whose
home is in the subtree), or at the top of the path in its own `gcd`
(`InWork`). What is `InWork` needs the strengthening that makes the invariant
inductive: every row over own and pseudo-parameters that violates none of the
rewritten exclusions, once the pseudo-values in it are expanded into the rows
they stand for, contains no exclusion with a home in the subtree.

*A row in a tree.* That a finished row violates none of those exclusions is
`RowInWork` of `ModelTreeProofs`, which is about the row as it is built: what is
bound has one value for each parameter and contains no exclusion that the model
minds (`Fits`). A seed is one that `fixRowSeeds` left. A value is picked against
every exclusion that it completes (`ValuePicked`). The weak step is
`BindCombination`, which adds several values at once, checked against one
combination. At one order of two or more it can only begin a row: once enough is
bound (`EnoughBound`), each parameter is the last one of some combination
(`LastIsFound`). At orders one and two a pair that is excluded is a combination,
of which the second parameter would be the last (`CombinationBound`). Rewriting
keeps a pair a pair (`RewritingShortens`), so that the same holds of what becomes
of it in the models above. Where neither setting is given the theorems claim
nothing, and section 6 shows why.

The lemmas it rests on: `HomeExists` (a home is found for each derived
exclusion; the recursion of `findMatchingNode` has a value for every model, by
`RecursionExists`, over trees of any depth), `RewritingKeeps` (a row whose
expansion contains an exclusion contains what
`mapExclusionsToPseudoParameters` rewrites it to for one choice of
pseudo-values), `ClosureForbids` (a row of the parameters that contains an
exclusion contains a member of the closure, so that deriving again at
each level loses nothing; and `task.exclusions`, which derivation replaces, still
forbids whatever the client forbade), `ResolvedMembers` and `ColumnInRow` (the
loop that replaces pseudo-parameters ends with the parameters of the subtree,
and the column of a component has the values of the submodel's rows). After
generation `Rid` and `FetchedSoFar` are plain: what was fetched is what lies before the
cursor.

Seeds and orders enter the argument through `Respected` only.

*What reaches the root.* Both properties compare rows of the root with something
further down that the root has never seen, and neither is inductive.
`LosslessInv` is `ApiInv` and, for every model that has rows, three facts about
the model and its children alone: no row gives a parameter two values
(`Sound`), each row of a child is part of some row (`Covers`), and the model's
part of the seed is in some row (`HoldsSeed`). `Covers` goes down the tree by
transitivity, from the root to any model of the subtree. For the model at the
top of the path it says what `gcd` keeps until then (`AtWork`): an entry is
excluded, open, or in a row (`NothingMissed`); each seed that is left has all of
the task's (`SeedReady`), and from the first row on some row has it
(`SeedNext`).

Why a submodel's row survives (`EveryRowPicked`): the submodel is in a
combination, so some row picks each parameter of it. That row, with the
submodel's value replaced by the one in question, has an entry of that
combination which no exclusion rules out, because without exclusions across
models those of a model are over its own parameters (`HousedAtHome`,
`NothingMapped`), and the row violated none of them. So the entry is covered,
and a row has the value. Different submodels have no parameter in common, so
none of their rows conflict (`NoConflicts`).

Why a seed survives: `mapRowSeedsToPseudoParameters` replaces, child by child,
what a seed says of the child's parameters by those values of the
pseudo-parameter that agree with it. There is one, by `HoldsSeed` of the child,
and every variant still carries the whole seed (`SeedRewritten`, an induction
over the submodels by `UpTo`; `MappedSeedsOf` and `AllVariantsOf` relate the
sequences in the code to the sets of variants). `fixRowSeeds` removes seeds, but
never all of these: none violates an exclusion, and one that is contained in
no larger one stays (`FirstLargest`, `SeedIsLeft`). The first row is made of a
seed that is left.

*The runs of the command line.* Submodels of a file may share parameters, so
that there is no forest, and `ApiInv`, which is about models that own what they
have, says nothing here. But there are only two levels: a root, and submodels
that among them have every parameter of the file, because `TranslateToGCD` adds
one for each parameter that is in none. `RunnerInv` compares everything with
*whole rows*, which give each parameter of the file one value. While models are
generated (`Walking`) the rows of a submodel are valid by its own exclusions
(`LeafRight`), each exclusion of the task is in a submodel with all its
parameters or in the root (`Housed`), and what derivation made of the given
exclusions forbids as much (`GivenCovered`). For the root in its own `gcd`
(`RootInWork`) the invariant says that each row of pseudo-parameters which
violates nothing stands for a whole row that is free of all exclusions of the
task and contains, for each submodel, the row the pseudo-value names
(`StandsFor`). A pseudo-parameter's values do not fix a whole row by
themselves: two of them may give a shared parameter different values, which is
what `Conflicts` forbids, so that the rows fit together (`TogetherIsRow`). An
exclusion in the whole row is in the rows of one submodel, which are valid, or
was rewritten into one of the root's (`RewritingKeeps`). It is not needed that a submodel
is generated with exclusions that are closed for it, the weakness
`shared_parameter` shows: generation then fails, but makes no wrong row. The facts about
exclusions are for those that the models respect (`RespectedIn`): what an
exclusion becomes in the root is respected there if it is itself
(`PartsRespected`), and the conflicts of shared parameters are pairs.

At the end (`RootDone`) the columns of the file's parameters replace the
pseudo-parameters. A shared parameter has several candidates for its column, of
which one is taken; all agree, since each is in the same whole row
(`ColumnStands`). Marking then empties some cells of result parameters
(`RowIs`), which loses values but makes none. So each row of the root is, but
for undefined results, a whole row that has no given exclusion which is respected
and contains a row of every submodel. The three theorems follow: the last fact is
`SubmodelRowsAgree`; the pairs of negative values are among what is given, and a
whole row of the negative run with none is not made a test (`NegativesCounted`);
a combination of names that a constraint forbids is a given exclusion for each choice
of values by these names (`ConstraintKept`), in both runs, though the positive
one is of data that lacks values and the tests are judged by the copy.

Two things in the model were corrected on the way. It took a name in a
constraint for the first value of that name, as seeds do, where
`interpretTerm` takes every value (`FirstOnly` is the mutant that remains of it).
And `ConstraintsHold` now says that a result that is left undefined has no value,
so it satisfies any constraint.

`ModelTree` uses derivation through its promise, the theorem
`DerivationReachesClosure`, and ends where the second derivation may read what
the first has freed, so that the theorems say nothing of such programs from there
on. Of `gcd` it assumes nothing: the rows are what its choices allow, and the
settings in which they obey exclusions are premises of the properties
(`Respected`). So the theorems hold of every program and command line, and speak
of the exclusions and models that are in such a setting.

Every invariant the runs of `Gcd` and `Deriver` check is proved (`AssertionsHold`
except in Approximate mode), all but one of `PictApi` and three of the five of `GcdRunner`. Only model-checked are:

- liveness (`Terminates`, `Ends`), which is out of the prover's reach;
- the properties of `ConstraintInterpreter`. Its texts and trees are read by
  recursive operators, which no proof may reach, and what they compute for every
  text would need induction over data;
- `FreedNotRead`. It needs to know of each model of the tree whether its `gcd`
  came to its end, which `ApiInv` does not tell apart from having no rows;
- `PairsTested`. It compares the tests of both runs with all pairs of input
  values that *some* valid whole row has. A proof has to carry what each run has
  left open, in terms of the copy of the data, and to use that `gcd` is started
  with combinations for each pair; `RunnerInv` says what rows may be
  made and nothing of which are;
- `ResultValuesImplied`. Whether a result keeps its value is a matter of
  counting which of its other values the closure rules out in this row, and
  `RowIs` deliberately says nothing of when a cell is emptied.

## 5. What is not modelled

Listed with reasons under `components` in `PROJECT.json`. In short:

- Dead code: Fixed-order, Full, Flat and Random generation and
  `GenerateVirtualRoot` have no caller in either front end.
- What happens after an undefined read. The second derivation reads exclusions
  that the first has freed in the *first* `PictGenerate` already, where a model has
  both submodels and a parameter of its own that an exclusion names: a root with
  parameters A and B, a child with C, and the exclusion B=0, C=1. An address
  sanitizer reports the read in `LinkExclusion` (`api/generator.h:436`).
- A second `PictGenerate` of one task. It starts from seeds and exclusions that
  were added to the models before, and from the same links
  (`api/task.cpp:169`).
- Preview and Approximate generation of a tree. There `rowViolatesExclusion`
  indexes a row by sequence numbers, which a submodel's rows do not follow
  (`api/model.cpp:1233`). For one model both are in `Gcd`.
- Whether Approximate mode ends: it may draw valid rows forever
  (`api/model.cpp:185`).
- `Model::choose` as an algorithm: `Combinations` says which it makes.
- Text at the edges: how a line of a model file is cut into names, aliases and
  weights, encodings, printing, statistics, the usage message.
- The prefix lookup of `trie.h`, beyond what it decides.
- Examples, tests and the shared-library wrapper.

## 6. Disagreements between the code and what is said of it

Four runs show them; each was also reproduced with the built program.

- `result_contradicted`: with A: a0, a1, B: b0, b1, $R: r0 to r4 and
  `IF [A]="a1" AND [B]="b1" THEN [$R]="r0";` the program prints the test
  a1 b1 r4. Constraints are there to "eliminate disallowed combinations during
  the generation process" (`doc/pict.md:81`), and `api/pictapi.h:107` says
  exclusions "should not appear in the output". A result is of order one
  (`cli/gcdmodel.cpp:85`), so a row may begin with the open entry R=r4. Then the
  combination of A and B is chosen though it is covered, and its values are
  compared with its own entries only (`api/model.cpp:240`); after them no
  parameter is left whose value would be picked with all exclusions in view.
  `markUndefinedValuesInResultParams` keeps r4, since all other values are
  excluded one by one. `ConstraintsHold` says where this cannot happen, and is
  proved.
- `as_documented`: `doc/pict.md:468` and the comment at `cli/ctokenizer.cpp:202`
  give NOT a predicate or clause, which goes on over AND and OR; the parser binds
  NOT tighter (`cli/cparser.cpp:318`). `doc/pict.md:503` lets an asterisk stand for
  no character; a pattern that ends in two does not match where nothing is left
  (`cli/strings.cpp:208`). The one program of the run has both.
- `shared_parameter`: `doc/pict.md:227` lets a parameter belong to any number
  of submodels. `findMatchingNode` gives an exclusion to the first that has its
  parameters; a second one is generated with exclusions that are not closed for
  it, and `PickValue` finds every value ruled out.
- `negative_value_lost`: `doc/pict.md:271` promises each invalid value paired
  with all valid ones. With submodels the exclusions between invalid values are
  exclusions of rows, and an invalid value whose submodel meets one that has
  another invalid value in every row is in no test. No message says so.

Seen in passing runs as steps to `"failed"`, `"asserted"` or `"undefined"`:

- `gcd_triples`: short seeds may leave a parameter without any value (`NoValue`,
  `api/parameter.cpp:129`); contradictory exclusions reach `gcd` as the empty
  exclusion (`EmptyExclusion`, `api/model.cpp:1156`).
- `gcd_preview`: a parameter of order two among parameters of order one is in no
  combination, and none is left to choose (`NoChoice`, `api/model.cpp:283`); in
  `command_line` a parameter with an order of its own does this to the program.
- `api`: parameters of two models share sequence numbers
  (`api/pictapi.cpp:268`), and an exclusion over such two hits the assertion of
  `api/exclusion.cpp:41`. Adding an exclusion twice returns
  `PICT_OUT_OF_MEMORY`, with the first in effect. A buffer allocated before
  generation has room for the root's own parameters only. A single child at the
  default order leaves the root with no rows and `PICT_SUCCESS`. A root
  parameter of order 1 beside a child of order 2 generates well or not depending
  on the order of the calls.
- `command_line`: with submodels and a result, the exclusions of the root name
  deleted pseudo-parameters when results are marked (`api/model.cpp:464`).

Reproduced with the program, or met while reading, without a run:

- Seeds "have to appear in the output (if they do not violate any exclusions)"
  (`api/pictapi.h:135`), but the loop ends when nothing is open, whatever seeds
  are left (`api/model.cpp:115`).
- With `/o:1`, parameters A of three values and B and C of two, and constraints
  from which B=0, C=0 and A=2, B=1, C=1 are excluded, the program prints the row
  2 1 1: the same choice of a covered combination as above. A seed of one
  parameter at order 3 leads there as well. `SafeFromAmpleSeeds` delimits it for
  one order, and is proved.
- A constraint on a parameter of order two beside one of order one makes
  `processExclusions` read past an empty vector, and the program crash
  (`A: a0,a1`, `B @ 2: b0,b1`, `[B]<>"b0";` with `/o:1`; `api/model.cpp:1164`).

- In Approximate mode the random row is bound over the seed of the row, and
  `Bind` asserts (`api/parameter.cpp:29`); `gcd_approx` therefore has no seeds.
  `generateRandomRow` stops one value late (`api/model.cpp:996`): a last value of
  weight 2 or more gives an index past the end and an assertion.
- `fixRowSeeds` removes contained seeds before violating ones, so that a valid
  seed goes with a violating one that contains it (`api/model.cpp:1402`).
- A term `ELSE` without IF hits the assertion of `cli/cparser.cpp:230`;
  `IsNegative()` with a result as first parameter makes an empty operand stack:
  `StacksBalance` is about texts without these. The model reader takes
  a line for the first of the constraints only if it begins with `[`, `(` or IF,
  and one that begins with NOT for a parameter. Warnings quote another constraint after one
  with ELSE, and after a `;` in a string.
- `readParamSet` removes duplicates whatever the case, even with `/c`. The
  statistics count the positive run only.

## 7. Plan

Done: the generator, the deriver, the tree, the API, the constraint language,
the reader and the runs of the command line. Left, in this order:

1. `Choose`: `Model::choose` as a pure algorithm, against `Combinations`.
2. A second generation of one task, with the life of the deriver's links.
3. Preview and Approximate in a tree.

To prove next: `PairsTested`, by adding to `RunnerInv` what `LosslessInv` says of
a model at work (`NothingMissed`), and `ResultValuesImplied`.

## 8. Running

```
tlc -workers 2 -config gcd_pairs.cfg MCGcd
tlapm GcdSafetyProofs.tla
```

