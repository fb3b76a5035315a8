----------------------------- MODULE MCDeriver ------------------------------
(***************************************************************************)
(* Instances of Deriver: every set of up to three exclusions of two        *)
(* parameters of two values and one of three, and larger sets of pairs.    *)
(***************************************************************************)
EXTENDS Deriver

Three == 0 .. 2
TwoTwoThree == [p \in Three |-> IF p = 2 THEN 3 ELSE 2]

Written == { e \in SUBSET Term : e # {} /\ Consistent(e) }

UpToThree == { {a, b, c} : a, b, c \in Written }

(* More exclusions, all of two terms: several parameters get resolved upon *)
(* one after the other, and again.                                         *)
Pairs == { e \in Written : Cardinality(e) = 2 }

FourOrFivePairs == { E \in SUBSET Pairs : Cardinality(E) \in 4 .. 5 }

(* Two values exclude a parameter altogether, and more is to be derived.   *)
Contradictions ==
  { {{<<0, 0>>}, {<<0, 1>>}, {<<1, 0>>}, {<<1, 1>>, <<2, 0>>}},
    {{<<2, 0>>, <<0, 0>>}, {<<2, 1>>}, {<<2, 2>>}, {<<0, 1>>, <<1, 0>>}, {<<0, 1>>, <<1, 1>>}} }

ManyExclusions == UpToThree \cup FourOrFivePairs \cup Contradictions
=============================================================================
