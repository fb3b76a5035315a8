---------------------------- MODULE MCGcdRunner -----------------------------
(***************************************************************************)
(* Instances of GcdRunner: model files of two to four parameters with      *)
(* negative values, submodels apart and sharing parameters, results, seeds *)
(* and constraints, and files and arguments that are refused.              *)
(***************************************************************************)
EXTENDS GcdRunner

Minus1 == -1

V(name)     == [isReference |-> FALSE, name |-> name, positive |-> TRUE]
Neg(name)   == [isReference |-> FALSE, name |-> name, positive |-> FALSE]
SameAs(par) == [isReference |-> TRUE, name |-> par, positive |-> TRUE]

Param(name, values) ==
  [kind |-> "param", name |-> name, order |-> NoOrder, isResult |-> FALSE, values |-> values]
Result(name, values) == [Param(name, values) EXCEPT !.isResult = TRUE]
Set(names, order) == [kind |-> "set", names |-> names, order |-> order]
Comment == [kind |-> "comment"]
Forbid(cells) == [kind |-> "constraint", forbids |-> {cells}]

Order(n) == [switch |-> "o", value |-> n]
CaseSensitive == [switch |-> "c", value |-> 1]

Pict(args, lines, seedRows) == [args |-> args, lines |-> lines, seedRows |-> seedRows]

A == Param("A", <<V("a0"), V("a1")>>)
B == Param("B", <<V("b0"), V("b1")>>)
C == Param("C", <<V("c0"), V("c1")>>)
D == Param("D", <<V("d0"), V("d1")>>)
ANeg == Param("A", <<Neg("an"), V("a0")>>)
BNeg == Param("B", <<V("b0"), V("b1"), Neg("bn")>>)
CNeg == Param("C", <<V("c0"), Neg("cn")>>)
DNeg == Param("D", <<V("d0"), Neg("dn")>>)
R == Result("$R", <<V("r0"), V("r1")>>)
R3 == Result("$R", <<V("r0"), V("r1"), V("r2")>>)
R5 == Result("$R", <<V("r0"), V("r1"), V("r2"), V("r3"), V("r4")>>)

(* Two runs, seeds by name, a constraint on an invalid value. *)
Negative ==
  { Pict(<<>>, <<ANeg, BNeg, Forbid({<<"A", "an">>, <<"B", "b1">>})>>,
         <<{<<"A", "an">>, <<"B", "b0">>}, {<<"B", "b1">>, <<"X", "x">>}>>),
    Pict(<<>>, <<ANeg, Comment, B, Param("C", <<SameAs("A"), SameAs("X")>>),
                 Forbid({<<"A", "a0">>, <<"B", "b0">>})>>, <<>>),
    Pict(<<Order(1)>>, <<ANeg, BNeg, CNeg, Set(<<"A", "B">>, 2)>>, <<>>) }

(* An invalid value whose submodel meets one with an invalid value in      *)
(* every row.                                                              *)
LostNegative ==
  { Pict(<<>>, <<ANeg, B, CNeg, DNeg, Set(<<"A", "B">>, 1), Set(<<"C", "D">>, 1)>>, <<>>) }

Shared ==
  { Pict(<<>>, <<A, B, C, Set(<<"A", "B">>, 1), Set(<<"B", "C">>, 1)>>, <<>>),
    Pict(<<CaseSensitive>>,
         <<A, B, C, Set(<<"A", "B">>, NoOrder), Set(<<"B">>, NoOrder), Set(<<"A", "X">>, 1),
           Forbid({<<"A", "a0">>, <<"C", "c0">>})>>, <<{<<"A", "a0">>, <<"C", "c1">>}>>) }

(* The exclusions of the first submodel are missing in the second.         *)
SharedStuck ==
  { Pict(<<>>, <<A, B, D, Set(<<"A", "B">>, 1), Set(<<"A", "B", "D">>, 2),
                 Forbid({<<"A", "a0">>, <<"B", "b0">>}), Forbid({<<"A", "a0">>, <<"D", "d0">>}),
                 Forbid({<<"B", "b0">>, <<"D", "d1">>})>>, <<>>) }

Results ==
  { Pict(<<>>, <<A, B, R, Forbid({<<"A", "a0">>, <<"$R", "r0">>}),
                 Forbid({<<"A", "a1">>, <<"B", "b1">>, <<"$R", "r1">>})>>,
         <<{<<"$R", "r0">>, <<"A", "a1">>}>>),
    Pict(<<>>, <<A, B, R3, Forbid({<<"A", "a0">>, <<"$R", "r0">>}),
                 Forbid({<<"A", "a1">>, <<"B", "b1">>, <<"$R", "r1">>}),
                 Forbid({<<"A", "a1">>, <<"B", "b1">>, <<"$R", "r2">>})>>, <<>>),
    Pict(<<>>, <<Param("A", <<V("a0"), V("a1"), V("a0")>>), B,
                 Forbid({<<"A", "a0">>, <<"B", "b1">>})>>, <<{<<"A", "a0">>}>>),
    Pict(<<>>, <<A, B, R, Set(<<"A", "B">>, 1), Forbid({<<"A", "a0">>, <<"$R", "r0">>})>>, <<>>) }

(* IF [A] = "a1" AND [B] = "b1" THEN [$R] = "r0", with five results, so    *)
(* that a row is begun with a result of which nothing else is open.        *)
ResultContradicted ==
  { Pict(<<>>, <<A, B, R5>>
               \o [n \in 1 .. 4 |->
                     Forbid({<<"A", "a1">>, <<"B", "b1">>, <<"$R", R5.values[n + 1].name>>})],
         <<>>) }

Refused ==
  { Pict(<<Order(0)>>, <<A, B>>, <<>>),
    Pict(<<CaseSensitive, [switch |-> "f", value |-> Unusable]>>, <<A, B>>, <<>>),
    Pict(<<Order(2), Order(1)>>, <<A, B>>, <<>>),
    Pict(<<Order(3)>>, <<A, B>>, <<>>),
    Pict(<<>>, <<A, B, Set(<<"A", "B">>, 3)>>, <<>>),
    Pict(<<>>, <<A, B, Set(<<"A", "B">>, 0)>>, <<>>),
    Pict(<<>>, <<A, B, Set(<<"A">>, 1), C>>, <<>>),
    Pict(<<>>, <<A, B, Forbid({<<"A", "a0">>}), C>>, <<>>),
    Pict(<<>>, <<A, Param("B", <<Neg("bn")>>)>>, <<>>),
    Pict(<<>>, <<A, A>>, <<>>),
    Pict(<<>>, <<A, B, Forbid({<<"A", "a0">>}), Forbid({<<"A", "a1">>})>>, <<>>) }

(* Parameters with an order of their own, and the maximal order.           *)
OwnOrders ==
  { Pict(<<Order(MaximumOrder)>>, <<A, B, C>>, <<>>),
    Pict(<<Order(1)>>, <<A, [B EXCEPT !.order = 2], [C EXCEPT !.order = 2]>>, <<>>),
    Pict(<<Order(1)>>, <<A, [B EXCEPT !.order = 2]>>, <<>>) }

(* Three names in a constraint where one order makes sure of it, and where *)
(* a parameter is in no combination.                                       *)
Constrained ==
  { Pict(<<>>, <<A, B, C, Forbid({<<"A", "a0">>, <<"B", "b0">>, <<"C", "c0">>})>>, <<>>),
    Pict(<<Order(1)>>, <<A, [B EXCEPT !.order = 2], Forbid({<<"A", "a0">>, <<"B", "b0">>})>>,
         <<>>) }

MCCommands ==
  UNION {Negative, LostNegative, Shared, SharedStuck, Results, Refused, OwnOrders,
         Constrained}
=============================================================================
