------------------------ MODULE ConstraintTokenizer -------------------------
(***************************************************************************)
(* ConstraintsTokenizer: recursive descent over the text of the            *)
(* constraints.  A parsing function is an operator of the position it      *)
(* starts at; its result is [err, pos, out]: the SyntaxErrorType thrown    *)
(* ("none" if it returns), _currentPosition, and the tokens it appended.   *)
(* Parameters are their index in the model, 0 standing for nullptr.        *)
(***************************************************************************)
EXTENDS Strings, SequencesExt

VARIABLES
  modelData,   \* CModelData: the Parameters and CaseSensitive
  predicates   \* CModelData::ConstraintPredicates, the text

Good(p, out)   == [err |-> "none", pos |-> p, out |-> out]
Fail(error, p) == [err |-> error, pos |-> p, out |-> <<>>]

(* The rest of a function after a call that returned r, or threw.           *)
Then(r, Rest(_)) ==
  IF r.err # "none" THEN r ELSE [Rest(r) EXCEPT !.out = r.out \o @]

(* What a caller makes of the tokens r has. *)
With(r, Out(_)) == IF r.err # "none" THEN r ELSE Good(r.pos, Out(r.out))

Mark(type)     == [Type |-> type]
OperToken(op)  == [Type |-> "LogicalOper", Oper |-> op]

-----------------------------------------------------------------------------
(* Lexical level *)

Params == modelData.Parameters

(* isNextSubstring: whatever the case, a keyword is. *)
At(p, words) ==
  /\ p + Len(words) - 1 <= Len(predicates)
  /\ ToUpper(SubSeq(predicates, p, p + Len(words) - 1)) = words

(* A keyword that must come next, or the error. *)
Expect(p, word, error) ==
  IF At(p, <<word>>) THEN Good(p + 1, <<>>) ELSE Fail(error, p)

FindParamByName(name) ==
  SelectInSeq(Params, LAMBDA param :
                        SameText(name, param.Name, modelData.CaseSensitive))

SpecialCharacters == {"\\", "\"", "]"}

(* getString: everything up to the terminator, escapes undone. *)
RECURSIVE GetString(_, _)
GetString(p, terminator) ==
  LET symbol(c, n) == Then(Good(p + n, <<c>>), LAMBDA r : GetString(r.pos, terminator))
  IN  IF p > Len(predicates) THEN Fail("UnexpectedEndOfString", p)
      ELSE IF predicates[p] = terminator THEN Good(p, <<>>)
      ELSE IF predicates[p] # "\\" THEN symbol(predicates[p], 1)
      ELSE IF p = Len(predicates) THEN Fail("UnexpectedEndOfString", p)
      ELSE IF predicates[p + 1] \notin SpecialCharacters
        THEN Fail("UnknownSpecialChar", p)
      ELSE symbol(predicates[p + 1], 2)

(* The same as a whole: out is the one text between the markers. *)
Enclosed(p, terminator, error) ==
  Then(With(GetString(p, terminator), LAMBDA text : <<text>>),
       LAMBDA r : Expect(r.pos, terminator, error))

GetNumber(p) ==
  IF p <= Len(predicates) /\ predicates[p] \in DOMAIN NumberOf
    THEN Good(p + 1, <<[DataType |-> "Number", Number |-> NumberOf[predicates[p]]]>>)
    ELSE Fail("NotNumericValue", p)

GetValue(p) ==
  IF At(p, <<"\"">>)
    THEN With(Enclosed(p + 1, "\"", "UnexpectedEndOfString"),
              LAMBDA out : <<[DataType |-> "String", Text |-> out[1]]>>)
    ELSE GetNumber(p)

RECURSIVE GetValueSet(_)
GetValueSet(p) ==
  Then(GetValue(p),
       LAMBDA r : IF At(r.pos, <<",">>) THEN GetValueSet(r.pos + 1) ELSE Good(r.pos, <<>>))

(* In the order they are tried: a relation after its own prefix would      *)
(* never be found.                                                         *)
Relations ==
  << << "Eq", <<"=">> >>, << "Ne", <<"<", ">">> >>, << "Le", <<"<", "=">> >>,
     << "Ge", <<">", "=">> >>, << "Gt", <<">">> >>, << "Lt", <<"<">> >>,
     << "In", <<"IN">> >>, << "Like", <<"LIKE">> >>,
     << "NotIn", <<"NOT", "IN">> >>, << "NotLike", <<"NOT", "LIKE">> >> >>

GetRelationType(p) ==
  LET i == SelectInSeq(Relations, LAMBDA r : At(p, r[2]))
  IN  IF i = 0 THEN Fail("UnknownRelation", p)
      ELSE Good(p + Len(Relations[i][2]), <<Relations[i][1]>>)

GetParameterName(p) ==
  Then(Expect(p, "[", "NoParameterNameOpen"),
       LAMBDA r : Enclosed(r.pos, "]", "NoParameterNameClose"))

-----------------------------------------------------------------------------
(* The grammar *)

GetFunction(p, type) ==
  With(Then(Expect(p + 1, "(", "FunctionNoParenthesisOpen"),
            LAMBDA r : Enclosed(r.pos, ")", "FunctionNoParenthesisClose")),
       LAMBDA out : <<[Type |-> "Function", Function |-> type,
                       Data |-> FindParamByName(out[1]), DataText |-> out[1]]>>)

(* The right side of a relation. *)
GetOperand(p, relation) ==
  IF relation \in {"In", "NotIn"}
    THEN Then(With(Then(Expect(p, "{", "NoValueSetOpen"), LAMBDA r : GetValueSet(r.pos)),
                   LAMBDA out : <<[DataType |-> "ValueSet", Data |-> out]>>),
              LAMBDA r : Expect(r.pos, "}", "NoValueSetClose"))
  ELSE IF At(p, <<"[">>)
    THEN With(GetParameterName(p),
              LAMBDA out : <<[DataType |-> "ParameterName", Data |-> FindParamByName(out[1])]>>)
  ELSE With(GetValue(p), LAMBDA out : <<[DataType |-> "Value", Data |-> out[1]]>>)

(* Out of its name, its relation and what that relates it to. *)
Term(parts) ==
  <<[Type         |-> "Term",
     Parameter    |-> FindParamByName(parts[1]),
     RelationType |-> parts[2],
     DataType     |-> parts[3].DataType,
     Data         |-> parts[3].Data]>>

ParseTerm(p) ==
  IF At(p, <<"ISNEGATIVE">>) THEN GetFunction(p, "IsNegativeParam")
  ELSE IF At(p, <<"ISPOSITIVE">>) THEN GetFunction(p, "IsPositiveParam")
  ELSE With(Then(GetParameterName(p),
                 LAMBDA n : Then(GetRelationType(n.pos),
                                 LAMBDA r : GetOperand(r.pos, r.out[1]))),
            Term)

GetLogicalOper(p) ==
  IF At(p, <<"AND">>) THEN "And" ELSE IF At(p, <<"OR">>) THEN "Or" ELSE "Unknown"

RECURSIVE ParseClause(_), ParseCondition(_)

ParseClause(p) ==
  Then(ParseCondition(p),
       LAMBDA c : IF GetLogicalOper(c.pos) = "Unknown" THEN Good(c.pos, <<>>)
                  ELSE Then(Good(c.pos + 1, <<OperToken(GetLogicalOper(c.pos))>>),
                            LAMBDA o : ParseClause(o.pos)))

(* A clause between what is before it, one symbol, and a closing keyword.  *)
OpenedBy(p, token) == Then(Good(p + 1, <<token>>), LAMBDA r : ParseClause(r.pos))

Closed(r, keyword, error, type) ==
  Then(r, LAMBDA c : With(Expect(c.pos, keyword, error), LAMBDA out : <<Mark(type)>>))

ParseCondition(p) ==
  IF At(p, <<"(">>)
    THEN Closed(OpenedBy(p, Mark("ParenthesisOpen")), ")", "NoEndParenthesis",
                "ParenthesisClose")
  ELSE IF At(p, <<"NOT">>) THEN OpenedBy(p, OperToken("Not"))
  ELSE ParseTerm(p)

(***************************************************************************)
(* doPostParseExpansions: IsNegative() is a disjunction and IsPositive() a *)
(* conjunction over the parameters that are not results.  The operator is  *)
(* left out before the model's first parameter, not before the first one   *)
(* that is expanded.                                                       *)
(***************************************************************************)
Expanded(token) ==
  LET oper == OperToken(IF token.Function = "IsNegativeParam" THEN "Or" ELSE "And")
      one(i) == [token EXCEPT !.Data = i, !.DataText = Params[i].Name]
      item(i) == IF Params[i].IsResultParameter THEN <<>>
                 ELSE IF i = 1 THEN <<one(i)>>
                 ELSE <<oper, one(i)>>
  IN  IF token.Type = "Function" /\ token.DataText = <<>>
        THEN <<Mark("ParenthesisOpen")>>
             \o FlattenSeq([i \in DOMAIN Params |-> item(i)])
             \o <<Mark("ParenthesisClose")>>
        ELSE <<token>>

DoPostParseExpansions(tokens) ==
  FlattenSeq([i \in DOMAIN tokens |-> Expanded(tokens[i])])

(***************************************************************************)
(* parseConstraint: IF clause THEN clause, or a clause; either may be      *)
(* followed by ELSE clause; the end marker must come next.                 *)
(***************************************************************************)
ParseIf(p) ==
  IF At(p, <<"IF">>)
    THEN Closed(OpenedBy(p, Mark("KeywordIf")), "THEN", "NoKeywordThen", "KeywordThen")
    ELSE Good(p, <<>>)

ParseElse(p) ==
  IF At(p, <<"ELSE">>) THEN OpenedBy(p, Mark("KeywordElse")) ELSE Good(p, <<>>)

ParseConstraint(p) ==
  With(Then(Then(Then(ParseIf(p), LAMBDA r : ParseClause(r.pos)),
                 LAMBDA r : ParseElse(r.pos)),
            LAMBDA r : Expect(r.pos, ";", "NoConstraintEnd")),
       DoPostParseExpansions)
=============================================================================
