----------------------------- MODULE Exclusions -----------------------------
(***************************************************************************)
(* Terms, cells and exclusions: the data the whole engine works on.        *)
(*                                                                         *)
(* A parameter is its GetSequence() number.  A term <<p, v>> is the        *)
(* ExclusionTerm / RowSeedTerm pair (Parameter*, int).  An exclusion, a    *)
(* row seed, a cell of a combination's bit vector and a row of the result  *)
(* are all sets of terms, so that "contains" is set inclusion everywhere.  *)
(***************************************************************************)
EXTENDS Integers, FiniteSets, Sequences

CONSTANTS
  Param,        \* the parameters of one model, as their sequence numbers
  ValueCount    \* Parameter::m_valueCount

ASSUME ParamAssumption ==
  /\ Param # {} /\ IsFiniteSet(Param) /\ Param \subseteq Nat
  /\ ValueCount \in [Param -> Nat \ {0}]

Values(p) == 0 .. ValueCount[p] - 1

Term == UNION { {p} \X Values(p) : p \in Param }

ParamsOf(terms) == { t[1] : t \in terms }

(* No parameter is given two values. *)
Consistent(terms) == \A s, t \in terms : s[1] = t[1] => s = t

(* The terms that concern the parameters in S. *)
Project(terms, S) == { t \in terms : t[1] \in S }

(***************************************************************************)
(* The entries of the bit vector of a combination over S, one per          *)
(* assignment of values to S: what the index arithmetic of                 *)
(* Combination::AddBinding computes and Combination::Bind inverts.         *)
(***************************************************************************)
Cells(S) ==
  LET assignments == { f \in [S -> UNION { Values(p) : p \in S }] :
                         \A p \in S : f[p] \in Values(p) }
  IN  { { <<p, f[p]>> : p \in S } : f \in assignments }

(* Complete assignments: what one row of the output is. *)
Rows == Cells(Param)

(* contained( a, b ): every term of a is a term of b. *)
Contained(a, b) == a \subseteq b

(* rowViolatesExclusion and seedViolatesExclusion are this test. *)
ViolatesAny(terms, exclusions) == \E e \in exclusions : Contained(e, terms)

(***************************************************************************)
(* The orderings of a set by a key.  The order in which a loop visits a    *)
(* container decides the order of the work list.                           *)
(***************************************************************************)
Ordered(S, key) ==
  { s \in [1 .. Cardinality(S) -> S] :
      \A i, j \in 1 .. Cardinality(S) : i < j => key[s[i]] < key[s[j]] }

AnyOrder(S) ==
  { s \in [1 .. Cardinality(S) -> S] :
      \A i, j \in 1 .. Cardinality(S) : s[i] = s[j] => i = j }

(* What is left of a list when only the places in keep stay (the set has   *)
(* one member).                                                            *)
Kept(list, keep) ==
  { [n \in 1 .. Cardinality(keep) |-> list[index[n]]] :
      index \in Ordered(keep, [i \in keep |-> i]) }

(***************************************************************************)
(* fixRowSeeds: drop the terms this model does not know, then the empty    *)
(* seeds and those another seed contains (the first of equal ones stays),  *)
(* then those that violate an exclusion.                                   *)
(***************************************************************************)
KnownTermsAll(seeds) == seeds  \* mutant: unknown terms stay

KnownTerms(seeds) == [i \in DOMAIN seeds |-> seeds[i] \cap Term]

Redundant(seeds, i) ==
  \/ seeds[i] = {}
  \/ \E j \in DOMAIN seeds \ {i} :
        /\ Contained(seeds[i], seeds[j])
        /\ seeds[i] = seeds[j] => j < i

FixedSeeds(seeds, E) ==
  LET known == KnownTerms(seeds)
      keep  == { i \in DOMAIN known :
                   ~ Redundant(known, i) /\ ~ ViolatesAny(known[i], E) }
  IN  Kept(known, keep)

(***************************************************************************)
(* What the engine needs from the exclusion deriver: an assignment that    *)
(* violates no exclusion can be completed, one parameter at a time,        *)
(* without ever violating one.                                             *)
(***************************************************************************)
Partials == UNION { Cells(S) : S \in SUBSET Param }

Closed(exclusions) ==
  \A a \in Partials :
     ~ ViolatesAny(a, exclusions) =>
       \A p \in Param \ ParamsOf(a) :
         \E v \in Values(p) : ~ ViolatesAny(a \cup {<<p, v>>}, exclusions)

(* The least closed set with the same valid rows, by its definition: the   *)
(* minimal assignments that no valid row extends.                          *)
ClosureOf(exclusions) ==
  LET valid   == { r \in Rows : ~ ViolatesAny(r, exclusions) }
      dead    == { a \in Partials : \A r \in valid : ~ Contained(a, r) }
  IN  { a \in dead : \A b \in dead : Contained(b, a) => b = a }
=============================================================================
