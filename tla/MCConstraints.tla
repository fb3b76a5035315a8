--------------------------- MODULE MCConstraints ----------------------------
(***************************************************************************)
(* Instances of ConstraintInterpreter: constraints over a numeric          *)
(* parameter, one with a negative value, one of strings and a result       *)
(* parameter.  A clause comes with the rows that satisfy it, built along   *)
(* with its text from the meaning doc/pict.md gives the operators.         *)
(***************************************************************************)
EXTENDS ConstraintInterpreter

Letters == <<"1", "2", "3", "7", "-1", "A", "B", "R", "S", "X", "Y", "Z",
             "[", "\\", "]", "s", "x", "y", "\"", "(", ")", ",", ";", "<", "=",
             ">", "?", "*", "{", "}", "IF", "if", "THEN", "ELSE", "NOT", "AND",
             "OR", "IN", "LIKE", "ISNEGATIVE", "ISPOSITIVE">>
Rank    == [c \in ToSet(Letters) |-> CHOOSE i \in DOMAIN Letters : Letters[i] = c]
Numbers == [c \in {"1", "2", "3", "7", "-1"} |->
              CASE c = "1" -> 1 [] c = "2" -> 2 [] c = "3" -> 3
                [] c = "7" -> 7 [] c = "-1" -> -1]
Capitals == [c \in {"s", "x", "y", "if"} |->
              CASE c = "s" -> "S" [] c = "x" -> "X" [] c = "y" -> "Y" [] c = "if" -> "IF"]

Value(names)    == [Names |-> names, positive |-> TRUE]
Negative(names) == [Names |-> names, positive |-> FALSE]

(* 3 has the alias 7, which no constraint sees.                            *)
ParamA == [Name |-> <<"A">>, IsResultParameter |-> FALSE,
           Values |-> << Value(<< <<"1">> >>), Value(<< <<"2">> >>),
                         Value(<< <<"3">>, <<"7">> >>) >>]
ParamB == [Name |-> <<"B">>, IsResultParameter |-> FALSE,
           Values |-> << Value(<< <<"2">> >>), Negative(<< <<"-1">> >>) >>]
ParamS == [Name |-> <<"S">>, IsResultParameter |-> FALSE,
           Values |-> << Value(<< <<"x">> >>), Value(<< <<"x", "y", "y">> >>) >>]
ParamR == [Name |-> <<"R">>, IsResultParameter |-> TRUE,
           Values |-> << Value(<< <<"]">> >>) >>]

Model(caseSensitive) ==
  [CaseSensitive |-> caseSensitive, Parameters |-> <<ParamA, ParamB, ParamS, ParamR>>]

AllRows == { <<a, b, s, 1>> : a \in 1 .. 3, b \in 1 .. 2, s \in 1 .. 2 }
ValueA == <<1, 2, 3>>
ValueB == <<2, -1>>

-----------------------------------------------------------------------------
(* Clauses *)

Clause(text, rows) == [text |-> text, rows |-> rows, unknown |-> FALSE, wrong |-> FALSE]

OnA(relation, n, Holds(_)) ==
  Clause(<<"[", "A", "]">> \o relation \o <<n>>, { r \in AllRows : Holds(ValueA[r[1]]) })

Comparisons ==
  { OnA(<<"=">>, "2", LAMBDA a : a = 2),  OnA(<<"<", ">">>, "2", LAMBDA a : a # 2),
    OnA(<<"<">>, "2", LAMBDA a : a < 2),  OnA(<<"<", "=">>, "2", LAMBDA a : a <= 2),
    OnA(<<">">>, "2", LAMBDA a : a > 2),  OnA(<<">", "=">>, "2", LAMBDA a : a >= 2),
    OnA(<<"=">>, "7", LAMBDA a : FALSE) }

OnS(text, rows) == Clause(<<"[", "S", "]">> \o text, rows)
S(values) == { r \in AllRows : r[3] \in values }
Quoted(s) == <<"\"">> \o s \o <<"\"">>

Strings1 ==
  { OnS(<<"=">> \o Quoted(<<"x", "y", "y">>), S({2})),
    OnS(<<">">> \o Quoted(<<"x">>), S({2})),
    OnS(<<"=">> \o Quoted(<<"\\", "]">>), {}),
    OnS(<<"LIKE">> \o Quoted(<<"x", "?", "?">>), S({2})),
    OnS(<<"LIKE">> \o Quoted(<<"*", "y">>), S({2})),
    OnS(<<"LIKE">> \o Quoted(<<"*", "x", "*">>), S({1, 2})),
    OnS(<<"LIKE">> \o Quoted(<<"*", "?", "y">>), S({2})),
    OnS(<<"NOT", "LIKE">> \o Quoted(<<"x">>), S({2})) }

IsNegativeB == { r \in AllRows : ValueB[r[2]] < 0 }

Others ==
  { Clause(<<"[", "A", "]", "IN", "{", "1", ",", "3", "}">>, { r \in AllRows : r[1] # 2 }),
    Clause(<<"[", "A", "]", "NOT", "IN", "{", "1", ",", "3", "}">>, { r \in AllRows : r[1] = 2 }),
    Clause(<<"[", "A", "]", "<", "=", "[", "B", "]">>,
           { r \in AllRows : ValueA[r[1]] <= ValueB[r[2]] }),
    Clause(<<"ISNEGATIVE", "(", "B", ")">>, IsNegativeB),
    Clause(<<"ISPOSITIVE", "(", "B", ")">>, AllRows \ IsNegativeB),
    Clause(<<"ISNEGATIVE", "(", ")">>, IsNegativeB),
    Clause(<<"ISPOSITIVE", "(", ")">>, AllRows \ IsNegativeB) }

Unknown == [Clause(<<"[", "Z", "]", "=", "1">>, {}) EXCEPT !.unknown = TRUE]
UnknownRight == [Clause(<<"[", "A", "]", "=", "[", "Z", "]">>, {}) EXCEPT !.unknown = TRUE]
UnknownFunction == [Clause(<<"ISNEGATIVE", "(", "Z", ")">>, {}) EXCEPT !.unknown = TRUE]

Wrong(text) == [Clause(text, {}) EXCEPT !.wrong = TRUE]
Mistakes ==
  { Wrong(<<"[", "A", "]", "=">> \o Quoted(<<"x">>)), Wrong(<<"[", "S", "]", "=", "1">>),
    Wrong(<<"[", "A", "]", "LIKE">> \o Quoted(<<"x">>)),
    Wrong(<<"[", "S", "]", "LIKE", "1">>),
    Wrong(<<"[", "A", "]", "=", "[", "S", "]">>), Wrong(<<"[", "A", "]", "=", "[", "A", "]">>),
    Wrong(<<"[", "A", "]", "IN", "{", "1", ",">> \o Quoted(<<"x">>) \o <<"}">>) }

Terms == Comparisons \cup Strings1 \cup Others \cup Mistakes
           \cup {Unknown, UnknownRight, UnknownFunction}

Joined(c, word, d, rows) ==
  [text |-> c.text \o <<word>> \o d.text, rows |-> rows,
   unknown |-> c.unknown \/ d.unknown, wrong |-> c.wrong \/ d.wrong]
And(c, d) == Joined(c, "AND", d, c.rows \cap d.rows)
Or(c, d)  == Joined(c, "OR", d, c.rows \cup d.rows)
Not(c)    == [c EXCEPT !.text = <<"NOT">> \o @, !.rows = AllRows \ @]
Paren(c)  == [c EXCEPT !.text = <<"(">> \o @ \o <<")">>]

(* Three terms that differ in their rows, and everything of up to three    *)
(* operators the grammar makes of them.                                    *)
Few == { OnA(<<"=">>, "2", LAMBDA a : a = 2),
         OnS(<<"=">> \o Quoted(<<"x">>), S({1})),
         Clause(<<"ISNEGATIVE", "(", ")">>, IsNegativeB) }
Two == { c \in Few : c.text[1] = "[" }

Literals == Few \cup { Not(c) : c \in Few } \cup { Not(Not(c)) : c \in Few }

(* A NOT before an operator is in parentheses: without, see NotScope.      *)
Firm == Few \cup { Paren(Not(c)) : c \in Few }
Flat  == { And(c, d) : c \in Firm, d \in Literals } \cup { Or(c, d) : c \in Firm, d \in Literals }
Mixed == { Or(And(c, d), e) : c, d, e \in Few } \cup { Or(c, And(d, e)) : c, d, e \in Few }
           \cup { And(And(c, d), e) : c, d, e \in Few }
Nested == { And(Paren(Or(c, d)), e) : c, d, e \in Few }
            \cup { Not(Paren(f)) : f \in Flat } \cup { And(c, Not(Paren(Or(d, e)))) : c, d, e \in Few }
            \cup { Paren(And(Paren(Or(c, Not(d))), Not(Paren(And(d, e))))) : c, d, e \in Few }

-----------------------------------------------------------------------------
(* Constraints *)

Half(rows, c, d) ==
  [forbids |-> rows, unknown |-> c.unknown \/ d.unknown, wrong |-> c.wrong \/ d.wrong]

Always(c) == [text |-> c.text, halves |-> <<Half(AllRows \ c.rows, c, c)>>]

If(c, d) == [text   |-> <<"IF">> \o c.text \o <<"THEN">> \o d.text,
             halves |-> <<Half(c.rows \ d.rows, c, d)>>]

IfElse(c, d, e) ==
  [text   |-> <<"if">> \o c.text \o <<"THEN">> \o d.text \o <<"ELSE">> \o e.text,
   halves |-> <<Half(c.rows \ d.rows, c, d), Half((AllRows \ c.rows) \ e.rows, c, e)>>]

Ended(cs) == FlattenSeq([i \in DOMAIN cs |-> cs[i].text \o <<";">>])

Written(cs, caseSensitive) ==
  [model |-> Model(caseSensitive), text |-> Ended(cs), constraints |-> cs,
   wellFormed |-> TRUE]

Constraints ==
  { Always(c) : c \in Terms \cup Literals \cup Flat \cup Mixed \cup Nested }
    \cup { If(c, d) : c \in Few, d \in Terms \cup Flat }
    \cup { If(c, d) : c \in Nested, d \in Two }
    \cup { IfElse(c, d, e) : c \in Two, d \in Terms, e \in Few }
    \cup { IfElse(c, d, e) : c \in Flat, d \in Few, e \in Two }

(* Several constraints, of which some are skipped.                         *)
Lists ==
  LET some == { Always(Unknown), If(UnknownFunction, Unknown) }
                \cup { Always(c) : c \in Few } \cup { If(c, UnknownRight) : c \in Two }
                \cup { IfElse(c, d, Unknown) : c, d \in Two }
  IN  { <<c, d>> : c, d \in some } \cup { <<c, d, e>> : c, d, e \in some }

(* Names and strings in the wrong case.                                    *)
LowerCase(caseSensitive) ==
  { [Clause(<<"[", "s", "]", "=">> \o Quoted(<<"x">>), S({1}))
       EXCEPT !.unknown = caseSensitive],
    OnS(<<"=">> \o Quoted(<<"X">>), IF caseSensitive THEN {} ELSE S({1})),
    OnS(<<"LIKE">> \o Quoted(<<"X", "*">>), IF caseSensitive THEN {} ELSE S({1, 2})) }

WellFormed ==
  { Written(<<c>>, FALSE) : c \in Constraints } \cup { Written(cs, FALSE) : cs \in Lists }
    \cup UNION { { Written(<<Always(c)>>, cs) : c \in LowerCase(cs) } : cs \in BOOLEAN }

(* A symbol lost anywhere. *)
Damaged ==
  LET some == { Written(<<IfElse(c, Or(c, Not(Paren(And(d, c)))), e)>>, FALSE) :
                  c \in Two, d \in Terms, e \in Two }
  IN  UNION { { [w EXCEPT !.text = RemoveAt(@, i), !.wellFormed = FALSE, !.constraints = <<>>] :
                  i \in DOMAIN w.text } : w \in some }

AllCases == WellFormed \cup Damaged

(***************************************************************************)
(* Two constraints by what doc/pict.md says of them.  NOT is followed by a *)
(* predicate (line 468), by a whole clause in ctokenizer.cpp:202, and so   *)
(* denies all of it; an asterisk is a series of characters of any length,  *)
(* which can be zero (line 503), and so are two.                           *)
(***************************************************************************)
NotScope == Not(And(OnA(<<"=">>, "2", LAMBDA a : a = 2),
                    Clause(<<"ISNEGATIVE", "(", "B", ")">>, IsNegativeB)))
TwoStars == OnS(<<"LIKE">> \o Quoted(<<"x", "*", "*">>), S({1, 2}))

AsDocumented == { Written(<<Always(Paren(NotScope)), Always(TwoStars)>>, FALSE) }
=============================================================================
