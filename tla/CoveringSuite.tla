--------------------------- MODULE CoveringSuite ----------------------------
(***************************************************************************)
(* What the generator promises (pictapi.h, doc/pict.md), without saying    *)
(* how: a suite of valid rows, each there for a reason, that covers every  *)
(* combination the exclusions leave possible.  Gcd.tla implements it.      *)
(***************************************************************************)
EXTENDS Exclusions, Sequences

CONSTANTS
  Combos    \* the parameter sets whose combinations are to be covered

VARIABLES
  exclusions,   \* what no row may contain
  seeds,        \* rows the user asked to start from
  suite,        \* the rows so far
  status        \* "running", "done" or "cancelled"

Targets ==
  { k \in UNION { Cells(Combos[c]) : c \in DOMAIN Combos } :
      ~ ViolatesAny(k, exclusions) }

Covered(k) == \E n \in DOMAIN suite : Contained(k, suite[n])

Init == suite = <<>> /\ status = "running"

(* A row covers something new, or completes a seed. *)
Useful(r) ==
  \/ \E k \in Targets : Contained(k, r) /\ ~ Covered(k)
  \/ \E i \in DOMAIN seeds :
        seeds[i] \cap Term # {} /\ Contained(seeds[i] \cap Term, r)

AddRow ==
  /\ status = "running"
  /\ \E r \in Rows :
       /\ ~ ViolatesAny(r, exclusions)
       /\ Useful(r)
       /\ suite' = Append(suite, r)
  /\ UNCHANGED <<exclusions, seeds, status>>

Deliver ==
  /\ status = "running"
  /\ \A k \in Targets : Covered(k)
  /\ status' = "done"
  /\ UNCHANGED <<exclusions, seeds, suite>>

(* The abort callback. *)
Cancel ==
  /\ status = "running"
  /\ status' = "cancelled"
  /\ UNCHANGED <<exclusions, seeds, suite>>

Next == AddRow \/ Deliver \/ Cancel

Spec == Init /\ [][Next]_<<exclusions, seeds, suite, status>>
=============================================================================
