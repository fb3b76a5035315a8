------------------------------ MODULE PictApi -------------------------------
(***************************************************************************)
(* The C API around a Task and its models: a client sets up a tree in any  *)
(* order, generates, fetches the rows one at a time and deletes what it    *)
(* made.  The client is the environment: it may stop at any point, and it  *)
(* keeps to pictapi.h where that says what a call needs.                   *)
(***************************************************************************)
EXTENDS ModelTree

CONSTANTS
  Programs,  \* what a client may set up: parameters per model as value
             \* counts and orders, links, exclusions, seeds
  PerModel   \* numbers set aside for the parameters of each model

(***************************************************************************)
(* Models are numbered from the root down and a model is attached once, so *)
(* that what a client builds is a tree, as the engine takes it to be: it   *)
(* deletes submodels with their parent.  PerModel and PseudoBase are large *)
(* enough for numbers to tell pointers apart.                              *)
(***************************************************************************)
ASSUME ProgramAssumption ==
  /\ PerModel \in Nat
  /\ \A prog \in Programs :
       /\ IsFiniteSet(DOMAIN prog.params) /\ DOMAIN prog.params \subseteq Nat
       /\ \A m \in DOMAIN prog.params :
            /\ prog.params[m] \in Seq([valueCount : Nat, order : Int])
            /\ Len(prog.params[m]) < PerModel /\ PerModel * (m + 1) <= PseudoBase
       /\ \A l \in prog.links :
            /\ {l.parent, l.child} \subseteq DOMAIN prog.params
            /\ l.parent < l.child /\ l.order \in Int
       /\ \A k, l \in prog.links : k.child = l.child => k = l

Root == 0    \* the model that becomes the root

VARIABLES
  program,   \* what this client is setting up
  buffer,    \* the result buffer: its size and contents
  cursor,    \* Task::m_currentResultRow
  ret,       \* the code the last call that has one returned
  left,      \* what the last PictGetNextResultRow returned
  fetched    \* the rows the client has seen since it started to fetch

clientVars == <<program, buffer, cursor, ret, left, fetched>>
vars == <<treeVars, clientVars>>

NoTask   == [root |-> NoModel, exclusions |-> {}, rowSeeds |-> <<>>]
NoBuffer == [size |-> -1, contents |-> <<>>]
NoCursor == 0
NotFetched == -1

(* The i-th parameter a client adds to model m. *)
ParamOf(m, i) == PerModel * m + i

Clashing(p, q) ==
  p # q /\ parameters[p].sequence = parameters[q].sequence

-----------------------------------------------------------------------------
(* Setting up *)

Setup == pc = "client"

PictCreateModel ==
  /\ Setup
  /\ \E m \in DOMAIN program.params \ DOMAIN models :
       models' = [n \in DOMAIN models \cup {m} |->
                    IF n = m THEN NewModel(0) ELSE models[n]]
  /\ UNCHANGED <<pc, parameters, task, calls, run, bound, clientVars>>

(* The sequence number is the place in the model, from 1. *)
PictAddParameter ==
  /\ Setup
  /\ \E m \in DOMAIN models :
       LET n == Len(models[m].parameters) + 1
           p == ParamOf(m, n)
       IN  /\ n <= Len(program.params[m])
           /\ parameters' = [q \in DOMAIN parameters \cup {p} |->
                IF q # p THEN parameters[q]
                ELSE [sequence |-> n, isResult |-> FALSE,
                      valueCount |-> program.params[m][n].valueCount,
                      order |-> program.params[m][n].order]]
           /\ models' = [models EXCEPT ![m].parameters = Append(@, p)]
  /\ UNCHANGED <<pc, task, calls, run, bound, clientVars>>

(* The child gets the order; the parent at least that. *)
PictAttachChildModel ==
  /\ Setup
  /\ \E link \in program.links :
       /\ {link.parent, link.child} \subseteq DOMAIN models
       /\ link.child \notin ToSet(models[link.parent].submodels)
       /\ models' = [models EXCEPT
            ![link.child].order = link.order,
            ![link.parent].order = IF @ < link.order THEN link.order ELSE @,
            ![link.parent].submodels = Append(@, link.child)]
  /\ UNCHANGED <<pc, parameters, task, calls, run, bound, clientVars>>

PictSetRootModel ==
  /\ Setup
  /\ Root \in DOMAIN models /\ task.root = NoModel
  /\ task' = [task EXCEPT !.root = Root]
  /\ UNCHANGED <<pc, parameters, models, calls, run, bound, clientVars>>

(***************************************************************************)
(* Terms are ordered by sequence number, which compareExclusionTerms       *)
(* asserts to tell parameters apart; those of two models may not.  Two     *)
(* exclusions of one size are compared up to their first difference.       *)
(***************************************************************************)
OrderedTerms(e) ==
  Sorted(FoldSet(LAMBDA t, acc : Append(acc, t), <<>>, e),
         LAMBDA s, t : \/ parameters[s[1]].sequence < parameters[t[1]].sequence
                       \/ s[1] = t[1] /\ s[2] < t[2])

ClashWithin(e) == \E s, t \in e : Clashing(s[1], t[1])

ClashBetween(e, f) ==
  /\ Cardinality(e) = Cardinality(f)
  /\ \E i \in DOMAIN OrderedTerms(e) :
       /\ \A j \in 1 .. i - 1 : OrderedTerms(e)[j] = OrderedTerms(f)[j]
       /\ Clashing(OrderedTerms(e)[i][1], OrderedTerms(f)[i][1])

PictAddExclusion ==
  /\ Setup
  /\ \E e \in program.exclusions :
       /\ ParamsOf(e) \subseteq DOMAIN parameters
       /\ IF ClashWithin(e) \/ \E f \in task.exclusions : ClashBetween(e, f)
            THEN pc' = "asserted" /\ UNCHANGED <<task, ret>>
            ELSE /\ task' = [task EXCEPT !.exclusions = @ \cup {e}]
                 /\ ret' = IF e \in task.exclusions THEN "PICT_OUT_OF_MEMORY"
                                                    ELSE "PICT_SUCCESS"
                 /\ UNCHANGED pc
  /\ UNCHANGED <<parameters, models, calls, run, bound, program, buffer, cursor, left, fetched>>

PictAddSeed ==
  /\ Setup
  /\ \E s \in program.seeds \ ToSet(task.rowSeeds) :
       /\ ParamsOf(s) \subseteq DOMAIN parameters
       /\ task' = [task EXCEPT !.rowSeeds = Append(@, s)]
       /\ ret' = "PICT_SUCCESS"
  /\ UNCHANGED <<pc, parameters, models, calls, run, bound, program, buffer, cursor, left, fetched>>

-----------------------------------------------------------------------------
(* Generating *)

(* "all structures are fully set up and models wired to the task" *)
FullySetUp ==
  /\ task.root = Root
  /\ DOMAIN models = DOMAIN program.params
  /\ \A m \in DOMAIN models :
       /\ Len(models[m].parameters) = Len(program.params[m])
       /\ \A link \in program.links :
            link.parent = m => link.child \in ToSet(models[m].submodels)

PictGenerate ==
  /\ Setup
  /\ FullySetUp
  /\ PrepareForGeneration
  /\ pc' = "walk"
  /\ calls' = <<[model |-> Root, left |-> models[Root].submodels]>>
  /\ UNCHANGED <<parameters, run, bound, clientVars>>

PictGenerateReturns ==
  /\ pc = "generated"
  /\ pc' = "fetch"
  /\ ret' = "PICT_SUCCESS"
  /\ UNCHANGED <<parameters, models, task, calls, run, bound, program, buffer, cursor, left, fetched>>

-----------------------------------------------------------------------------
(* Fetching *)

Fetching == pc = "fetch" /\ Root \in DOMAIN models /\ task.root = Root

Results == models[Root].results

PictGetTotalParameterCount == Len(models[Root].parameters)

(* As many values as the root has parameters now: before generation that   *)
(* leaves out those of the submodels.                                      *)
PictAllocateResultBuffer ==
  /\ Fetching \/ (Setup /\ FullySetUp)
  /\ buffer = NoBuffer
  /\ buffer' = [size |-> PictGetTotalParameterCount, contents |-> <<>>]
  /\ UNCHANGED <<treeVars, program, cursor, ret, left, fetched>>

PictFreeResultBuffer ==
  /\ buffer # NoBuffer
  /\ buffer' = NoBuffer
  /\ UNCHANGED <<treeVars, program, cursor, ret, left, fetched>>

PictResetResultFetching ==
  /\ Fetching
  /\ cursor' = 1
  /\ fetched' = <<>> /\ left' = NotFetched
  /\ UNCHANGED <<treeVars, program, buffer, ret>>

AdvancedPast == cursor + 2  \* mutant: the row is skipped

(* GetNextResultRow moves on unless it is at the end. *)
Advanced == IF cursor <= Len(Results) THEN cursor + 1 ELSE cursor

PictGetNextResultRow ==
  /\ Fetching
  /\ buffer # NoBuffer /\ cursor # NoCursor
  /\ cursor' = Advanced
  /\ left' = Len(Results) + 1 - cursor
  /\ IF cursor <= Len(Results)
       THEN IF Len(Results[cursor]) > buffer.size
              THEN pc' = "undefined" /\ UNCHANGED <<buffer, fetched>>
              ELSE /\ buffer' = [buffer EXCEPT !.contents = Results[cursor]]
                   /\ fetched' = Append(fetched, Results[cursor])
                   /\ UNCHANGED pc
       ELSE UNCHANGED <<pc, buffer, fetched>>
  /\ UNCHANGED <<parameters, models, task, calls, run, bound, program, ret>>

-----------------------------------------------------------------------------
(* Deleting *)

(* The parameters of the model itself, and all models below it. *)
PictDeleteModel ==
  /\ Fetching
  /\ parameters' = [p \in DOMAIN parameters \ ToSet(models[Root].parameters) |->
                      parameters[p]]
  /\ models' = [m \in DOMAIN models \ SubtreeOf(Root) |-> models[m]]
  /\ UNCHANGED <<pc, task, calls, run, bound, clientVars>>

PictDeleteTask ==
  /\ pc = "fetch"
  /\ task # NoTask
  /\ task' = NoTask
  /\ cursor' = NoCursor
  /\ UNCHANGED <<pc, parameters, models, calls, run, bound, program, buffer, ret, left, fetched>>

-----------------------------------------------------------------------------
(* PictCreateTask has been called. *)
Init ==
  /\ pc = "client"
  /\ program \in Programs
  /\ parameters = <<>> /\ models = <<>>
  /\ task = NoTask
  /\ calls = <<>> /\ run = NoRun /\ bound = {}
  /\ buffer = NoBuffer /\ cursor = NoCursor
  /\ ret = "none" /\ left = NotFetched /\ fetched = <<>>

Next ==
  \/ PictCreateModel \/ PictAddParameter \/ PictAttachChildModel
  \/ PictSetRootModel \/ PictAddExclusion \/ PictAddSeed
  \/ PictGenerate \/ ((Generate(parameters) \/ TreeStep) /\ UNCHANGED clientVars) \/ PictGenerateReturns
  \/ PictAllocateResultBuffer \/ PictFreeResultBuffer
  \/ PictResetResultFetching \/ PictGetNextResultRow
  \/ PictDeleteModel \/ PictDeleteTask

Spec == Init /\ [][Next]_vars

-----------------------------------------------------------------------------
(* Properties *)

Delivered == pc = "fetch" /\ Root \in DOMAIN models

(* The terms of row n of model m. *)
TermsOf(m, n) == RowTerms(m, n - 1)

OwnParams(m) == { ParamOf(m, i) : i \in DOMAIN program.params[m] }

(* The parameters a model is generated with, as far as orders go.          *)
WithSubmodels(m) ==
  [p \in OwnParams(m) \cup PseudosOf(m) |->
     [order |-> IF IsPseudo(p) THEN models[m].order ELSE parameters[p].order]]

(* Every model is generated where its rows have to obey this exclusion,    *)
(* and so whatever it becomes there.                                       *)
RespectedIn(e, m) ==
  Respected(e, DOMAIN WithSubmodels(m), WithSubmodels(m), task.rowSeeds)

RespectedEverywhere(e) == \A m \in DOMAIN models : RespectedIn(e, m)

(***************************************************************************)
(* pictapi.h:108-109 (an exclusion is what should not appear): however     *)
(* the client set up the tree, whatever model an exclusion went to and     *)
(* however often it was rewritten on the way up (model.cpp:1016-1099),     *)
(* once the pseudo-parameters are resolved no row contains one, though     *)
(* rows are never checked as a whole (model.cpp:220-350).                  *)
(***************************************************************************)
NoExcludedRow ==
  Delivered =>
    \A e \in task.exclusions : RespectedEverywhere(e) =>
      \A n \in DOMAIN Results : ~ (e \subseteq TermsOf(Root, n))

NothingSpans ==
  \A e \in task.exclusions : \E m \in DOMAIN models : ParamsOf(e) \subseteq OwnParams(m)

(* Every submodel is in a combination of its parent, which it is not where *)
(* the orders ask for more parameters than there are.                      *)
SubmodelsCombined ==
  \A m \in DOMAIN models : \A c \in ToSet(models[m].submodels) :
    \E S \in Combinations(DOMAIN WithSubmodels(m), WithSubmodels(m)) : PseudoOf(c) \in S

ExclusionsRespected == \A e \in task.exclusions : RespectedEverywhere(e)

(***************************************************************************)
(* Generation is lossless on the way up: as long as no exclusion relates   *)
(* two models and the rows obey them all, every row of every submodel that *)
(* is combined with anything is part of some row of the root, so what a    *)
(* submodel covers the whole task covers (model.cpp:534-571, 770-809).     *)
(***************************************************************************)
SubmodelRowsSurvive ==
  Fetching /\ Results # <<>> /\ NothingSpans /\ SubmodelsCombined /\ ExclusionsRespected =>
    \A m \in SubtreeOf(Root) : \A k \in DOMAIN models[m].results :
      \E n \in DOMAIN Results : TermsOf(m, k) \subseteq TermsOf(Root, n)

(* fixRowSeeds drops what is no value of a parameter of the task.          *)
IsKnown(term) ==
  \E m \in SubtreeOf(Root) : \E p \in OwnParams(m) :
    term \in {p} \X (0 .. parameters[p].valueCount - 1)

(***************************************************************************)
(* pictapi.h:135-136 (a seed has to appear if it violates no exclusion):   *)
(* the one seed of a task is in some row, though its terms reach the root  *)
(* only as values of pseudo-parameters (model.cpp:1264-1336).              *)
(***************************************************************************)
SeedAppears ==
  Fetching /\ Results # <<>> /\ NothingSpans /\ Len(task.rowSeeds) = 1 =>
    LET seed == Head(task.rowSeeds) IN
      \/ \E e \in task.exclusions : e \subseteq seed
      \/ \E t \in seed : ~ IsKnown(t)
      \/ \E n \in DOMAIN Results : seed \subseteq TermsOf(Root, n)

(***************************************************************************)
(* pictapi.h:240-250: calls until the return value is zero give every row  *)
(* exactly once, and a call after that leaves the buffer alone.            *)
(***************************************************************************)
FetchedEachOnce ==
  Delivered /\ cursor # NoCursor =>
    /\ Len(fetched) = cursor - 1 /\ IsPrefix(fetched, Results)
    /\ left = 0 => fetched = Results

(***************************************************************************)
(* A second deriver runs over parameters linked to the exclusions of the   *)
(* first, which is gone (task.cpp:169, model.cpp:1107).  What keeps it     *)
(* from reading those is CleanUp at the end of each gcd: generation is     *)
(* safe as long as each parameter is in a combination, so that each model  *)
(* gets as far as that, and no exclusion names a parameter of a model with *)
(* submodels.                                                              *)
(***************************************************************************)
EachCombines ==
  \A m \in DOMAIN models :
    UNION Combinations(DOMAIN WithSubmodels(m), WithSubmodels(m)) = DOMAIN WithSubmodels(m)

FreedNotRead ==
  calls # <<>> /\ EachCombines /\ pc = "undefined" =>
    \E m \in DOMAIN models :
      models[m].submodels # <<>> /\ OwnParams(m) \cap ParamsOf(UNION task.exclusions) # {}
=============================================================================
