-------------------------- MODULE ConstraintParser --------------------------
(***************************************************************************)
(* ConstraintsParser: from token lists to syntax trees without NOT nodes,  *)
(* and the checks of names and types (cli/cparser.cpp, cli/ccommon.h).     *)
(*                                                                         *)
(* A CSyntaxTreeItem is a term or function token, a node [Oper, LLink,     *)
(* RLink], NoItem for nullptr, or Broken where the code has read an empty  *)
(* stack or failed assert( 1 == operands.size() ).                         *)
(***************************************************************************)
EXTENDS ConstraintTokenizer

NoItem == [Type |-> "None"]
Broken == [Type |-> "Broken"]

Node(oper, left, right) ==
  [Type |-> "Node", Oper |-> oper, LLink |-> left, RLink |-> right]

Priority == [Not |-> 3, And |-> 2, Or |-> 1]

-----------------------------------------------------------------------------
(* Building a tree *)

(***************************************************************************)
(* The two stacks of constructSyntaxTreeItem; ok is FALSE once something   *)
(* was popped from an empty one.                                           *)
(***************************************************************************)
EmptyStacks == [operands |-> <<>>, operators |-> <<>>, ok |-> TRUE]

PushOperand(s, item) ==
  [s EXCEPT !.operands = Append(@, item), !.ok = @ /\ item # Broken]

ProcessOneLogicalOper(s) ==
  LET oper  == Last(s.operators)
      arity == IF oper = "Not" THEN 1 ELSE 2
      n     == Len(s.operands)
      rest  == [s EXCEPT !.operators = Front(@),
                         !.operands = SubSeq(@, 1, n - arity)]
  IN  IF n < arity THEN [rest EXCEPT !.operands = <<>>, !.ok = FALSE]
      ELSE PushOperand(rest,
             Node(oper, s.operands[n - arity + 1],
                  IF oper = "Not" THEN NoItem ELSE s.operands[n]))

(* mutant: an operator on the stack that binds as tight is processed too   *)
RECURSIVE PushOperatorLeft(_, _)
PushOperatorLeft(s, oper) ==
  IF s.operators # <<>> /\ Priority[oper] <= Priority[Last(s.operators)]
    THEN PushOperatorLeft(ProcessOneLogicalOper(s), oper)
    ELSE [s EXCEPT !.operators = Append(@, oper)]

(* The operators on the stack that bind tighter are processed first.       *)
RECURSIVE PushOperator(_, _)
PushOperator(s, oper) ==
  IF s.operators # <<>> /\ Priority[oper] < Priority[Last(s.operators)]
    THEN PushOperator(ProcessOneLogicalOper(s), oper)
    ELSE [s EXCEPT !.operators = Append(@, oper)]

RECURSIVE ProcessAll(_)
ProcessAll(s) ==
  IF s.operators = <<>> THEN s ELSE ProcessAll(ProcessOneLogicalOper(s))

MatchingClose(tokens) ==
  LET count(j, type) ==
        Cardinality({ i \in 2 .. j - 1 : tokens[i].Type = type })
  IN  CHOOSE j \in DOMAIN tokens \ {1} :
        /\ tokens[j].Type = "ParenthesisClose"
        /\ count(j, "ParenthesisOpen") = count(j, "ParenthesisClose")
        /\ \A i \in 2 .. j - 1 : tokens[i].Type = "ParenthesisClose" =>
             count(i, "ParenthesisOpen") # count(i, "ParenthesisClose")

RECURSIVE Scan(_, _), ConstructSyntaxTreeItem(_, _)

Scan(tokens, s) ==
  IF tokens = <<>> THEN s
  ELSE LET token == Head(tokens) IN
    CASE token.Type \in {"Term", "Function"} ->
           Scan(Tail(tokens), PushOperand(s, token))
      [] token.Type = "LogicalOper" ->
           Scan(Tail(tokens), PushOperator(s, token.Oper))
      [] token.Type = "ParenthesisOpen" ->
           LET close == MatchingClose(tokens)
               inner == ConstructSyntaxTreeItem(SubSeq(tokens, 2, close - 1), FALSE)
           IN  Scan(SubSeq(tokens, close + 1, Len(tokens)), PushOperand(s, inner))
      [] OTHER -> Scan(Tail(tokens), s)

(* The one item left of the two stacks, negated or not. *)
TreeOf(s, negate) ==
  IF ~ s.ok \/ Len(s.operands) # 1 THEN Broken
  ELSE IF negate THEN Node("Not", s.operands[1], NoItem)
  ELSE s.operands[1]

ConstructSyntaxTreeItem(tokens, negate) ==
  TreeOf(ProcessAll(Scan(tokens, EmptyStacks)), negate)

(***************************************************************************)
(* GenerateSyntaxTrees, for one token list.  Exclusions say what must not  *)
(* be: the condition together with the negation of the term; for ELSE,     *)
(* both negated.                                                           *)
(***************************************************************************)
SyntaxTrees(tokens) ==
  LET then == SelectInSeq(tokens, LAMBDA t : t.Type = "KeywordThen")
      else == SelectInSeq(tokens, LAMBDA t : t.Type = "KeywordElse")
      last == IF else = 0 THEN Len(tokens) ELSE else - 1
      tree(a, b, negate) == ConstructSyntaxTreeItem(SubSeq(tokens, a, b), negate)
  IN  IF tokens[1].Type # "KeywordIf"
        THEN <<[Condition |-> NoItem, Term |-> tree(1, Len(tokens), TRUE)]>>
      ELSE <<[Condition |-> tree(2, then - 1, FALSE),
              Term      |-> tree(then + 1, last, TRUE)]>>
           \o IF else = 0 THEN <<>>
              ELSE <<[Condition |-> tree(2, then - 1, TRUE),
                      Term      |-> tree(else + 1, Len(tokens), TRUE)]>>

-----------------------------------------------------------------------------
(* Removing NOT nodes *)

Opposite ==
  [Eq |-> "Ne", Ne |-> "Eq", Lt |-> "Ge", Le |-> "Gt", Gt |-> "Le", Ge |-> "Lt",
   In |-> "NotIn", NotIn |-> "In", Like |-> "NotLike", NotLike |-> "Like"]

OppositeFunction ==
  [IsNegativeParam |-> "IsPositiveParam", IsPositiveParam |-> "IsNegativeParam"]

DualForgotten == [And |-> "And", Or |-> "Or"]  \* mutant: only the leaves flip

Dual == [And |-> "Or", Or |-> "And"]

(* De Morgan, with the negation carried down to the leaves. *)
RECURSIVE RemoveBranchNOTs(_, _)
RemoveBranchNOTs(item, carryOver) ==
  CASE item.Type = "Term" ->
         IF carryOver THEN [item EXCEPT !.RelationType = Opposite[@]] ELSE item
    [] item.Type = "Function" ->
         IF carryOver THEN [item EXCEPT !.Function = OppositeFunction[@]] ELSE item
    [] item.Type = "Node" ->
         IF item.Oper = "Not" THEN RemoveBranchNOTs(item.LLink, ~ carryOver)
         ELSE Node(IF carryOver THEN Dual[item.Oper] ELSE item.Oper,
                   RemoveBranchNOTs(item.LLink, carryOver),
                   RemoveBranchNOTs(item.RLink, carryOver))
    [] OTHER -> item

RemoveNOTs(constraint) ==
  [Condition |-> RemoveBranchNOTs(constraint.Condition, FALSE),
   Term      |-> RemoveBranchNOTs(constraint.Term, FALSE)]

-----------------------------------------------------------------------------
(* Names and types *)

(* getParameterDataType: a number if the first name of every value is.     *)
DataTypeOf(p) ==
  IF \A i \in DOMAIN Params[p].Values :
       TextContainsNumber(Params[p].Values[i].Names[1])
    THEN "Number" ELSE "String"

ItselfNever(term) == FALSE  \* mutant: names are not compared

ComparedToItself(term) == Params[term.Parameter].Name = Params[term.Data].Name

(* The first check to fail decides between a warning and an error.         *)
VerifyTerm(term) ==
  LET like   == term.RelationType \in {"Like", "NotLike"}
      is(d)  == term.DataType = d
      type   == DataTypeOf(term.Parameter)
  IN  IF term.Parameter = 0 THEN "UnknownParameter"
      ELSE IF like /\ type = "Number"
        THEN "LIKECannotBeUsedForNumericParameters"
      ELSE IF like /\ is("Value") /\ term.Data.DataType = "Number"
        THEN "LIKECannotBeUsedWithNumericValues"
      ELSE IF is("Value") /\ type # term.Data.DataType
        THEN "ParameterComparedToValueOfDifferentType"
      ELSE IF is("ParameterName") /\ term.Data = 0 THEN "UnknownParameter"
      ELSE IF is("ParameterName") /\ type # DataTypeOf(term.Data)
        THEN "ParametersOfDifferentTypesCompared"
      ELSE IF is("ParameterName") /\ ComparedToItself(term)
        THEN "ParameterComparedToItself"
      ELSE IF is("ValueSet") /\ \E i \in DOMAIN term.Data : type # term.Data[i].DataType
        THEN "ParameterValueSetTypeMismatch"
      ELSE "ok"

VerifyFunction(function) ==
  IF function.Data = 0 /\ function.DataText # <<>> THEN "UnknownParameter" ELSE "ok"

(* verifySyntaxTreeItem: left before right. *)
RECURSIVE VerifySyntaxTreeItem(_)
VerifySyntaxTreeItem(item) ==
  CASE item.Type = "Term"     -> VerifyTerm(item)
    [] item.Type = "Function" -> VerifyFunction(item)
    [] item.Type = "Node"     ->
         LET left == VerifySyntaxTreeItem(item.LLink)
         IN  IF left # "ok" THEN left ELSE VerifySyntaxTreeItem(item.RLink)
    [] OTHER -> "ok"

VerifyConstraint(constraint) ==
  LET condition == VerifySyntaxTreeItem(constraint.Condition)
  IN  IF condition # "ok" THEN condition ELSE VerifySyntaxTreeItem(constraint.Term)
=============================================================================
