----------------------- MODULE ConstraintInterpreter ------------------------
(***************************************************************************)
(* ConstraintsInterpreter::ConvertToExclusions (cli/gcdexcl.cpp): the      *)
(* constraints of a model are tokenized, parsed, verified and turned into  *)
(* exclusions, one constraint per step.  An exclusion is a set of terms    *)
(* <<p, v>>: the v-th value (from 0) of the p-th parameter (from 1).       *)
(***************************************************************************)
EXTENDS ConstraintParser

CONSTANT Cases   \* the models with constraints a call may be given

VARIABLES
  phase,          \* where ConvertToExclusions stands
  position,       \* ConstraintsTokenizer::_currentPosition
  tokenLists,     \* those not yet made into trees
  constraints,    \* ConstraintsParser::_constraints, as they are erased
  constraintIndex,\* of the constraint verified next
  current,        \* the place in constraints verified or interpreted next
  warnings,       \* ErrInConstraint of the CSemanticWarnings
  error,          \* what was thrown, "none" if nothing
  solverWarnings, \* the terms that no value or every value satisfies
  gcdExclusions,
  written         \* ghost: what the author of the text means by it

convertVars == <<phase, position, tokenLists, constraints, constraintIndex,
                 current, warnings, error, solverWarnings, gcdExclusions>>
vars == <<modelData, predicates, written, convertVars>>

-----------------------------------------------------------------------------
(* Interpretation *)

IsRelationSatisfied(diff, relation) ==
  CASE relation = "Eq" -> diff = 0
    [] relation = "Ne" -> diff # 0
    [] relation = "Ge" -> diff >= 0
    [] relation = "Gt" -> diff > 0
    [] relation = "Le" -> diff <= 0
    [] relation = "Lt" -> diff < 0

IsStringRelationSatisfied(text, relation, other) ==
  LET cased(s) == Cased(s, modelData.CaseSensitive)
      matches  == PatternMatch(cased(other), cased(text))
  IN  CASE relation = "Like"    -> matches
        [] relation = "NotLike" -> ~ matches
        [] OTHER -> IsRelationSatisfied(
                      StringCompare(text, other, modelData.CaseSensitive), relation)

(* Only the first name of a value counts (GetNamesForComparisons).         *)
ValueSatisfiesRelation(p, value, relation, data) ==
  LET name == value.Names[1]
  IN  IF DataTypeOf(p) = "Number"
        THEN IsRelationSatisfied(StringToNumber(name) - data.Number, relation)
        ELSE IsStringRelationSatisfied(name, relation, data.Text)

(* A name as the CValue a parameter of p's type is compared with.          *)
ValueOfName(p, name) ==
  IF DataTypeOf(p) = "Number"
    THEN [DataType |-> "Number", Number |-> StringToNumber(name)]
    ELSE [DataType |-> "String", Text |-> name]

SatisfyingValues(term) ==
  LET p == term.Parameter
      in(i) == \E j \in DOMAIN term.Data :
                  ValueSatisfiesRelation(p, Params[p].Values[i], "Eq", term.Data[j])
  IN  { i \in DOMAIN Params[p].Values :
          CASE term.DataType = "Value" ->
                 ValueSatisfiesRelation(p, Params[p].Values[i],
                                        term.RelationType, term.Data)
            [] term.RelationType = "In"    -> in(i)
            [] term.RelationType = "NotIn" -> ~ in(i) }

InterpretTerm(term) ==
  LET p == term.Parameter
      q == term.Data
  IN  IF term.DataType = "ParameterName"
        THEN { {<<p, i - 1>>, <<q, j - 1>>} : <<i, j>> \in
                 { ij \in (DOMAIN Params[p].Values) \X (DOMAIN Params[q].Values) :
                     ValueSatisfiesRelation(p, Params[p].Values[ij[1]], term.RelationType,
                       ValueOfName(q, Params[q].Values[ij[2]].Names[1])) } }
        ELSE { {<<p, i - 1>>} : i \in SatisfyingValues(term) }

InterpretFunction(function) ==
  LET p == function.Data
  IN  { {<<p, i - 1>>} : i \in { j \in DOMAIN Params[p].Values :
          Params[p].Values[j].positive = (function.Function = "IsPositiveParam") } }

(* What interpretTerm leaves in _warnings.                                 *)
RECURSIVE UselessTerms(_)
UselessTerms(item) ==
  CASE item.Type = "Term" ->
         IF /\ item.DataType # "ParameterName"
            /\ SatisfyingValues(item) \in {{}, DOMAIN Params[item.Parameter].Values}
           THEN <<item>> ELSE <<>>
    [] item.Type = "Node" -> UselessTerms(item.LLink) \o UselessTerms(item.RLink)
    [] OTHER -> <<>>

(* Every exclusion of one side joined with every one of the other.         *)
CrossProduct(E, F) == { pair[1] \cup pair[2] : pair \in E \X F }

RECURSIVE InterpretSyntaxTreeItem(_)
InterpretSyntaxTreeItem(item) ==
  CASE item.Type = "Term"     -> InterpretTerm(item)
    [] item.Type = "Function" -> InterpretFunction(item)
    [] item.Type = "Node"     ->
         LET left  == InterpretSyntaxTreeItem(item.LLink)
             right == InterpretSyntaxTreeItem(item.RLink)
         IN  IF item.Oper = "And" THEN CrossProduct(left, right) ELSE left \cup right
    [] OTHER -> {}

InterpretConstraint(c) ==
  IF c.Condition = NoItem THEN InterpretSyntaxTreeItem(c.Term)
  ELSE CrossProduct(InterpretSyntaxTreeItem(c.Condition),
                    InterpretSyntaxTreeItem(c.Term))

(* One parameter with two values. *)
Contradicting(exclusion) ==
  \E s, t \in exclusion : s[1] = t[1] /\ s # t

(* CModelData::GetConstraintText, without the end marker it puts back.     *)
ConstraintTexts == Split(predicates, ";")

-----------------------------------------------------------------------------
(* The phases of ConvertToExclusions *)

Init ==
  /\ written \in Cases
  /\ modelData = written.model
  /\ predicates = written.text
  /\ phase = "tokenize"
  /\ position = 1
  /\ tokenLists = <<>>
  /\ constraints = <<>>
  /\ constraintIndex = 0
  /\ current = 1
  /\ warnings = <<>>
  /\ error = "none"
  /\ solverWarnings = <<>>
  /\ gcdExclusions = {}

input == <<modelData, predicates, written>>

Tokenize ==
  /\ phase = "tokenize"
  /\ position <= Len(predicates)
  /\ \E parsed \in {ParseConstraint(position)} :
       IF parsed.err = "none"
         THEN /\ tokenLists' = Append(tokenLists, parsed.out)
              /\ position' = parsed.pos
              /\ UNCHANGED <<phase, error>>
         ELSE /\ phase' = "syntax error"
              /\ error' = parsed.err
              /\ UNCHANGED <<tokenLists, position>>
  /\ UNCHANGED <<input, constraints, constraintIndex, current, warnings,
                 gcdExclusions, solverWarnings>>

Tokenized ==
  /\ phase = "tokenize"
  /\ position > Len(predicates)
  /\ phase' = "trees"
  /\ UNCHANGED <<input, position, tokenLists, constraints, constraintIndex,
                 current, warnings, error, gcdExclusions, solverWarnings>>

GenerateSyntaxTrees ==
  /\ phase = "trees"
  /\ tokenLists # <<>>
  /\ \E trees \in {SyntaxTrees(Head(tokenLists))} :
       /\ constraints' = constraints \o trees
       /\ phase' = IF \E i \in DOMAIN trees : Broken \in {trees[i].Condition, trees[i].Term}
                     THEN "asserted" ELSE phase
  /\ tokenLists' = Tail(tokenLists)
  /\ UNCHANGED <<input, position, constraintIndex, current, warnings, error,
                 gcdExclusions, solverWarnings>>

RemoveAllNOTs ==
  /\ phase = "trees"
  /\ tokenLists = <<>>
  /\ constraints' = [i \in DOMAIN constraints |-> RemoveNOTs(constraints[i])]
  /\ phase' = "verify"
  /\ UNCHANGED <<input, position, tokenLists, constraintIndex, current,
                 warnings, error, gcdExclusions, solverWarnings>>

IndexKept == constraintIndex  \* mutant: what is erased does not count

IndexAfterErase == constraintIndex + 1

(* The verification loop: what a warning erases still counts.              *)
Verify ==
  /\ phase = "verify"
  /\ current <= Len(constraints)
  /\ \E verdict \in {VerifyConstraint(constraints[current])} :
       \/ /\ verdict = "ok"
          /\ current' = current + 1
          /\ constraintIndex' = constraintIndex + 1
          /\ UNCHANGED <<phase, constraints, warnings, error>>
       \/ /\ verdict = "UnknownParameter"
          /\ warnings' = Append(warnings, constraintIndex)
          /\ constraints' = RemoveAt(constraints, current)
          /\ constraintIndex' = IndexAfterErase
          /\ UNCHANGED <<phase, current, error>>
       \/ /\ verdict \notin {"ok", "UnknownParameter"}
          /\ phase' = "invalid"
          /\ error' = verdict
          /\ UNCHANGED <<current, constraints, constraintIndex, warnings>>
  /\ UNCHANGED <<input, position, tokenLists, gcdExclusions, solverWarnings>>

Verified ==
  /\ phase = "verify"
  /\ current > Len(constraints)
  /\ phase' = "interpret"
  /\ current' = 1
  /\ UNCHANGED <<input, position, tokenLists, constraints, constraintIndex,
                 warnings, error, gcdExclusions, solverWarnings>>

Interpret ==
  /\ phase = "interpret"
  /\ current <= Len(constraints)
  /\ gcdExclusions' = gcdExclusions \cup InterpretConstraint(constraints[current])
  /\ solverWarnings' = solverWarnings \o UselessTerms(constraints[current].Condition)
                                     \o UselessTerms(constraints[current].Term)
  /\ current' = current + 1
  /\ UNCHANGED <<input, phase, position, tokenLists, constraints,
                 constraintIndex, warnings, error>>

RemoveContradictingExclusions ==
  /\ phase = "interpret"
  /\ current > Len(constraints)
  /\ gcdExclusions' = { e \in gcdExclusions : ~ Contradicting(e) }
  /\ phase' = "done"
  /\ UNCHANGED <<input, position, tokenLists, constraints, constraintIndex,
                 current, warnings, error, solverWarnings>>

Next ==
  \/ Tokenize \/ Tokenized
  \/ GenerateSyntaxTrees \/ RemoveAllNOTs
  \/ Verify \/ Verified
  \/ Interpret \/ RemoveContradictingExclusions

Spec == Init /\ [][Next]_vars

-----------------------------------------------------------------------------
(* Properties *)

(* A written constraint says of every row whether it may be: "halves" has  *)
(* one entry for a constraint, two for one with ELSE, each with the rows   *)
(* it forbids, whether it names an unknown parameter ("unknown"), and      *)
(* whether it compares what may not be compared ("wrong").                 *)
Rows ==
  { r \in [DOMAIN Params -> UNION { DOMAIN Params[p].Values : p \in DOMAIN Params }] :
      \A p \in DOMAIN Params : r[p] \in DOMAIN Params[p].Values }

Violates(row, exclusion) == \A t \in exclusion : row[t[1]] = t[2] + 1

Halves == FlattenSeq([i \in DOMAIN written.constraints |->
                        written.constraints[i].halves])

(***************************************************************************)
(* The rows that contain an exclusion are exactly the rows that a written  *)
(* constraint forbids, constraints on unknown parameters apart: through    *)
(* precedence, parentheses, NOT pushed down the tree (cparser.cpp:344),    *)
(* ELSE, comparison of values and joining of exclusions (gcdexcl.cpp:312). *)
(* What a text means is what doc/pict.md:455-505 says of it.               *)
(***************************************************************************)
ExclusionsMeanConstraints ==
  phase = "done" /\ written.wellFormed =>
    \A r \in Rows :
      (\E e \in gcdExclusions : Violates(r, e))
        <=> \E i \in DOMAIN Halves : ~ Halves[i].unknown /\ r \in Halves[i].forbids

(***************************************************************************)
(* Constraints that follow the grammar of doc/pict.md are never a syntax   *)
(* error, and are refused exactly when one of them breaks a typing rule    *)
(* (ctokenizer.cpp:115, cparser.cpp:493).                                  *)
(***************************************************************************)
RefusedForCause ==
  written.wellFormed =>
    /\ phase # "syntax error"
    /\ phase = "invalid" => \E i \in DOMAIN Halves : Halves[i].wrong
    /\ phase = "done" => \A i \in DOMAIN Halves : ~ Halves[i].wrong

(***************************************************************************)
(* The constraint a warning quotes (gcdexcl.cpp:579) is one that names an  *)
(* unknown parameter, and each of those is warned about.  Not so after a   *)
(* constraint with ELSE, which counts as two, or after a ; in a string.    *)
(***************************************************************************)
WarnsAboutTheOffender ==
  LET C == written.constraints
      unknown == { i \in DOMAIN C : \E h \in DOMAIN C[i].halves : C[i].halves[h].unknown }
  IN  phase \in {"interpret", "done"} /\ written.wellFormed
      /\ (\A i \in DOMAIN C : Len(C[i].halves) = 1) =>
        { ConstraintTexts[warnings[w] + 1] : w \in DOMAIN warnings }
          = { C[i].text : i \in unknown }

(***************************************************************************)
(* No operator lacks its operands and one item remains in the end: the     *)
(* assert of cparser.cpp:230, on texts as they should be and on texts with *)
(* a symbol lost, as far as the tokenizer lets them through.  Not so for   *)
(* an ELSE without IF, and not for IsNegative() when the first parameter   *)
(* is a result.                                                            *)
(***************************************************************************)
StacksBalance == phase # "asserted"
=============================================================================
