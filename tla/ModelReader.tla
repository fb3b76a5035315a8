---------------------------- MODULE ModelReader -----------------------------
(***************************************************************************)
(* mparser.cpp: a model file in three sections (parameters, submodels,     *)
(* constraints) and a seed file become a CModelData.                       *)
(*                                                                         *)
(* A line is what the readers make of its text: its kind, its names, its   *)
(* order.  A value is its primary name and whether the negative prefix was *)
(* there; aliases and weights are left out, they neither allow nor forbid  *)
(* a test.  A constraint is the set of value combinations it forbids       *)
(* (ConstraintInterpreter), by name.                                       *)
(***************************************************************************)
EXTENDS Integers, Sequences, FiniteSets, SequencesExt

CONSTANTS
  UndefinedOrder,   \* UNDEFINED_ORDER
  MaximumOrder      \* MAXIMUM_ORDER; bounds the orders

ASSUME OrderAssumption ==
  UndefinedOrder \in Int /\ UndefinedOrder < 1 /\ MaximumOrder \in Nat \ {0}

NoOrder == UndefinedOrder

EmptyModelData ==
  [section |-> "parameters", parameters |-> <<>>, submodels |-> <<>>,
   constraints |-> {}, parsable |-> TRUE, wellFormed |-> TRUE, rowSeeds |-> <<>>]

Names(data) == { data.parameters[i].name : i \in DOMAIN data.parameters }

(* FindParameterByName: the first one, counted from 1. *)
IndexOf(data, name) ==
  CHOOSE i \in DOMAIN data.parameters :
    /\ data.parameters[i].name = name
    /\ \A j \in DOMAIN data.parameters : data.parameters[j].name = name => i <= j

(* GetValueOrdinal, -1 if there is none. *)
ValueOrdinal(parameter, name) ==
  LET same == { i \in DOMAIN parameter.values : parameter.values[i].name = name }
  IN  IF same = {} THEN -1
      ELSE (CHOOSE i \in same : \A j \in same : i <= j) - 1

-----------------------------------------------------------------------------
(* readParameter: a value may refer to an earlier parameter, whose values  *)
(* it stands for; an unknown one is a value of that name.                  *)
ValuesOf(line, data) ==
  FoldLeft(LAMBDA acc, item :
             IF item.isReference /\ item.name \in Names(data)
               THEN acc \o data.parameters[IndexOf(data, item.name)].values
               ELSE Append(acc, [name |-> item.name, positive |-> item.positive]),
           <<>>, line.values)

readParameter(line, data) ==
  [data EXCEPT !.wellFormed = @ /\ line.values # <<>>,
               !.parameters = Append(@, [name |-> line.name, isResult |-> line.isResult,
                                         order |-> IF line.order > 0 THEN line.order
                                                                     ELSE UndefinedOrder,
                                         values |-> ValuesOf(line, data)])]

(* readParamSet: one unknown name and the whole set is skipped; an order   *)
(* below one is an error.  Parameters are kept as indices, each once; the  *)
(* code sorts them by name, and nothing depends on that order.             *)
SortedUnique(names, data) ==
  FoldLeft(LAMBDA acc, i : IF \E n \in DOMAIN names : IndexOf(data, names[n]) = i
                             THEN Append(acc, i - 1) ELSE acc,
           <<>>, [i \in DOMAIN data.parameters |-> i])

readParamSet(line, data) ==
  IF line.kind # "set" \/ line.names = <<>> THEN [data EXCEPT !.wellFormed = FALSE]
  ELSE IF ~ (ToSet(line.names) \subseteq Names(data)) THEN data
  ELSE IF line.order # NoOrder /\ line.order < 1 THEN [data EXCEPT !.wellFormed = FALSE]
  ELSE [data EXCEPT !.submodels =
          Append(@, [parameters |-> SortedUnique(line.names, data), order |-> line.order])]

(* What does not parse as a constraint is found by the interpreter later.  *)
addConstraint(line, data) ==
  IF line.kind = "constraint" THEN [data EXCEPT !.constraints = @ \cup line.forbids]
                              ELSE [data EXCEPT !.parsable = FALSE]

Section(line, data) ==
  CASE line.kind = "constraint"                                 -> "constraints"
    [] line.kind = "set" /\ data.section = "parameters"         -> "submodels"
    [] OTHER                                                    -> data.section

readLine(data, line) ==
  LET here == [data EXCEPT !.section = Section(line, data)]
  IN  IF ~ data.wellFormed \/ line.kind = "comment" THEN data
      ELSE CASE here.section = "parameters"  -> readParameter(line, here)
             [] here.section = "submodels"   -> readParamSet(line, here)
             [] here.section = "constraints" -> addConstraint(line, here)

(* ValidateParams: names are unique, no parameter is all negative. *)
ValidateParams(data) ==
  /\ Cardinality(Names(data)) = Len(data.parameters)
  /\ \A i \in DOMAIN data.parameters :
       \E j \in DOMAIN data.parameters[i].values : data.parameters[i].values[j].positive

-----------------------------------------------------------------------------
(* ReadRowSeedFile, for one row: columns of unknown parameters, values the *)
(* parameter does not have and result values are skipped.                  *)
SeedOf(row, data) ==
  { cell \in row :
      /\ cell[1] \in Names(data)
      /\ LET parameter == data.parameters[IndexOf(data, cell[1])]
         IN  ~ parameter.isResult /\ ValueOrdinal(parameter, cell[2]) # -1 }

-----------------------------------------------------------------------------
HasNegativeValues(data) ==
  \E i \in DOMAIN data.parameters :
    \E j \in DOMAIN data.parameters[i].values : ~ data.parameters[i].values[j].positive
=============================================================================
