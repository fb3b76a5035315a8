------------------------------- MODULE MCApi --------------------------------
(***************************************************************************)
(* Instances of PictApi: trees of up to five models with one to three      *)
(* parameters each.  Parameters of two models that are to share an         *)
(* exclusion differ in their place in the model, except where the clash is *)
(* what the program is for.                                                *)
(***************************************************************************)
EXTENDS PictApi

P(values, order) == [valueCount |-> values, order |-> order]
Link(parent, child, order) == [parent |-> parent, child |-> child, order |-> order]

Minus1 == -1

A == ParamOf(1, 1)
B == ParamOf(1, 2)
C == ParamOf(2, 1)
D == ParamOf(2, 2)
R == ParamOf(0, 1)

Not(p, v) == {<<p, v>>}
NotBoth(p, v, q, w) == {<<p, v>>, <<q, w>>}

(* Two children under a root without parameters of its own. *)
Siblings ==
  [params |-> 0 :> <<>> @@ 1 :> <<P(2, 2), P(2, 2)>> @@ 2 :> <<P(2, 1)>>,
   links |-> {Link(0, 1, 2), Link(0, 2, 2)}, exclusions |-> {}, seeds |-> {}]

MCPrograms ==
  { [Siblings EXCEPT !.exclusions = {NotBoth(B, 0, C, 0)}, !.seeds = {Not(A, 0)}],
    [Siblings EXCEPT !.exclusions = {NotBoth(A, 0, B, 0)}, !.seeds = {NotBoth(A, 0, C, 0)}],
    [Siblings EXCEPT !.exclusions = {NotBoth(A, 0, C, 0)}],
    [Siblings EXCEPT !.exclusions = {Not(A, 0), Not(C, 0)}],
    [Siblings EXCEPT !.exclusions = {Not(A, 0), Not(A, 1)}],
    (* everything of order one *)
    [Siblings EXCEPT !.params[1] = <<P(2, 1), P(2, 1)>>,
                     !.links = {Link(0, 1, 1), Link(0, 2, 1)},
                     !.seeds = {NotBoth(A, 0, C, 0), Not(B, 1)}],
    (* two pairs, whose rows are paired again *)
    [params |-> 0 :> <<>> @@ 1 :> <<P(1, 2), P(2, 2)>> @@ 2 :> <<P(2, 2), P(2, 2)>>,
     links |-> {Link(0, 1, 2), Link(0, 2, 1)}, exclusions |-> {NotBoth(B, 0, C, 1)},
     seeds |-> {}],
    (* one model of three parameters, and exclusions that imply another *)
    [params |-> 0 :> <<P(2, 2), P(2, 2), P(2, 2)>>, links |-> {},
     exclusions |-> {NotBoth(ParamOf(0, 1), 0, ParamOf(0, 2), 0),
                     NotBoth(ParamOf(0, 1), 1, ParamOf(0, 3), 0),
                     NotBoth(ParamOf(0, 1), 1, ParamOf(0, 2), 1) \cup Not(ParamOf(0, 3), 1)},
     seeds |-> {Not(ParamOf(0, 2), 0)}],
    (* two orders, so that a pair is bound after what it is excluded with *)
    [params |-> 0 :> <<P(2, 2), P(2, 2), P(2, 1)>>, links |-> {},
     exclusions |-> {NotBoth(R, 0, ParamOf(0, 2), 0) \cup Not(ParamOf(0, 3), 0)},
     seeds |-> {}],
    (* a parameter in no combination *)
    [params |-> 0 :> <<P(2, 1), P(2, 2)>>, links |-> {},
     exclusions |-> {NotBoth(R, 0, ParamOf(0, 2), 0)}, seeds |-> {}],
    (* two levels without parameters of their own above three leaves *)
    [params |-> 0 :> <<>> @@ 1 :> <<>> @@ 2 :> <<P(2, 1)>> @@ 3 :> <<P(1, 2), P(2, 2)>>
                @@ 4 :> <<P(1, 2), P(1, 2), P(2, 2)>>,
     links |-> {Link(0, 1, 2), Link(1, 2, 2), Link(1, 3, 2), Link(0, 4, 2)},
     exclusions |-> {NotBoth(C, 0, ParamOf(3, 2), 1), NotBoth(C, 1, ParamOf(4, 3), 1)},
     seeds |-> {}],
    (* a chain, where the middle one is derived with a parameter of its own *)
    [params |-> 0 :> <<P(2, 2)>> @@ 1 :> <<P(1, 2), P(2, 2)>> @@ 2 :> <<P(2, 1)>>,
     links |-> {Link(0, 1, 2), Link(1, 2, 2)}, exclusions |-> {NotBoth(B, 0, C, 1)},
     seeds |-> {NotBoth(R, 1, C, 0)}],
    (* the same without exclusions *)
    [params |-> 0 :> <<P(2, 2)>> @@ 1 :> <<P(2, 2)>> @@ 2 :> <<P(2, 1)>>,
     links |-> {Link(0, 1, 2), Link(1, 2, 2)}, exclusions |-> {},
     seeds |-> {NotBoth(R, 1, C, 0)}],
    (* an only child at the default order of two *)
    [params |-> 0 :> <<>> @@ 1 :> <<P(2, 1), P(2, 1)>>,
     links |-> {Link(0, 1, 2)}, exclusions |-> {}, seeds |-> {}],
    (* the same beside a parameter of order one *)
    [params |-> 0 :> <<P(2, 1)>> @@ 1 :> <<P(2, 1)>>,
     links |-> {Link(0, 1, 2)}, exclusions |-> {}, seeds |-> {Not(A, 1)}],
    (* a submodel that no combination reaches, for lack of parameters *)
    [params |-> 0 :> <<P(1, 1)>> @@ 1 :> <<P(2, 1)>>,
     links |-> {Link(0, 1, 2)}, exclusions |-> {}, seeds |-> {Not(A, 1)}] }
=============================================================================
