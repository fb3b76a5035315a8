------------------------------- MODULE MCGcd --------------------------------
(***************************************************************************)
(* Instances of Gcd: three to five parameters of one or two values (0, 1,  *)
(* 2, ... are A, B, C, ...), with the combinations Model::choose makes.    *)
(***************************************************************************)
EXTENDS Gcd

Three == 0 .. 2
Four  == 0 .. 3

TwoValues3 == [p \in Three |-> 2]
TwoValues4 == [p \in Four |-> 2]
Position3  == [p \in Three |-> p]
Position4  == [p \in Four |-> p]
Even3      == [p \in Three |-> <<1, 1>>]
Even4      == [p \in Four |-> <<1, 1>>]

Pairs3 == <<{1, 2}, {0, 2}, {0, 1}>>

Not(p, v) == {<<p, v>>}
NotBoth(p, v, q, w) == {<<p, v>>, <<q, w>>}

-----------------------------------------------------------------------------
(* Closed exclusion sets: none, a pair, two pairs that imply a third, a    *)
(* value, a triple, a triple and a pair that share terms.                  *)

ClosedSets ==
  { ClosureOf(E) : E \in
      { {},
        {NotBoth(0, 0, 1, 0)},
        {NotBoth(0, 0, 1, 0), NotBoth(1, 1, 2, 0)},
        {Not(0, 0)},
        {Not(2, 1), NotBoth(0, 0, 1, 0)},
        {NotBoth(0, 0, 1, 0) \cup Not(2, 0)},
        {NotBoth(0, 0, 1, 0) \cup Not(2, 0), NotBoth(0, 1, 1, 0)} } }

NoSeeds == {<<>>}

(* Partial, complete, contained, equal, foreign and out-of-range seeds.    *)
SeedLists ==
  LET a == Not(0, 0)
      ab == NotBoth(0, 0, 1, 1)
      full == {<<0, 1>>, <<1, 0>>, <<2, 1>>}
  IN  { <<a>>, <<ab, a>>, <<full, Not(2, 0)>>, <<a \cup {<<1, 2>>}, a>>,
        <<{<<9, 0>>}, full>>, <<NotBoth(0, 0, 1, 0), NotBoth(1, 1, 2, 0)>> }

NoneOrSeeds == NoSeeds \cup SeedLists

(* Five parameters A..E at order 3, of which A, C and D have two values.   *)
Five == 0 .. 4
TwoOfACD   == [p \in Five |-> IF p \in {0, 2, 3} THEN 2 ELSE 1]
EvenACD    == [p \in Five |-> IF p \in {0, 2, 3} THEN <<1, 1>> ELSE <<1>>]
Position5  == [p \in Five |-> p]
Triples5   == <<{2, 3, 4}, {1, 3, 4}, {0, 3, 4}, {1, 2, 4}, {0, 2, 4},
                {0, 1, 4}, {1, 2, 3}, {0, 2, 3}, {0, 1, 3}, {0, 1, 2}>>

(* A pair of values; pairs that imply another; three values and one more;  *)
(* what deriving leaves of C = 0 and C = 1 both excluded.                  *)
Contradicted == {Not(2, 0), Not(2, 1), {}}

TripleSets ==
  {Contradicted} \cup
  { ClosureOf(E) : E \in { {NotBoth(0, 0, 2, 0)},
                           {NotBoth(0, 0, 2, 0), NotBoth(2, 1, 3, 1)},
                           {NotBoth(0, 0, 2, 0) \cup Not(3, 0), Not(3, 1)} } }

(* At order 3 a seed of one term is too short to steer the search; nobody  *)
(* looks for a parameter that a seed of the API gives two values.          *)
LoneSeed   == { <<Not(0, 0)>> }
TwiceA     == { <<NotBoth(0, 0, 0, 1)>> }
TripleSeeds == NoSeeds \cup LoneSeed \cup TwiceA \cup { <<NotBoth(0, 0, 3, 1)>> }

-----------------------------------------------------------------------------
(* Preview and Approximate get the exclusions as the user wrote them: only *)
(* Regular mode derives the implied ones.                                  *)

RawSets ==
  { {}, {NotBoth(0, 0, 1, 0), NotBoth(1, 1, 2, 0)},
    {NotBoth(0, 0, 1, 0) \cup Not(2, 0), NotBoth(0, 0, 1, 0) \cup Not(2, 1)} }

-----------------------------------------------------------------------------
(* What an API caller may ask for, but the command line would not.         *)

(* A, of order 2 before three parameters of order 1, is in no combination  *)
(* (PictAddParameter takes an order per parameter): only seeds bind it.    *)
OnesNoA == <<{3}, {2}, {1}>>

(* Pairs that leave B = 0 without a value of C; pairs that imply another;  *)
(* triples: each adds a combination.                                       *)
RawSetsBCD ==
  { {}, {NotBoth(1, 0, 2, 0), NotBoth(1, 0, 2, 1)},
    {NotBoth(1, 0, 2, 0), NotBoth(2, 1, 3, 0)},
    {NotBoth(1, 0, 2, 0) \cup Not(3, 0), NotBoth(1, 0, 2, 0) \cup Not(3, 1)} }

SeedsOfA ==
  LET full(a, b, c, d) == {<<0, a>>, <<1, b>>, <<2, c>>, <<3, d>>}
  IN  { <<>>, <<NotBoth(0, 0, 3, 1)>>,
        <<full(0, 1, 0, 1), full(1, 0, 1, 0)>>,
        <<NotBoth(0, 0, 1, 0), NotBoth(0, 1, 1, 1), Not(0, 0)>>,
        <<Not(0, 0), NotBoth(0, 1, 3, 0), NotBoth(0, 1, 2, 0), NotBoth(0, 1, 1, 1)>> }
=============================================================================
