------------------------------ MODULE Deriver -------------------------------
(***************************************************************************)
(* ExclusionDeriver: the exclusions implied by those of the user are made  *)
(* explicit before generation.  A parameter all of whose values occur in   *)
(* exclusions is resolved upon: one exclusion per value, consistent with   *)
(* each other, together exclude what they say of the other parameters.     *)
(*                                                                         *)
(* buildExclusion is recursive, one level per value; "stack" holds its     *)
(* activations, and a step takes one exclusion of one bucket.  Obsolete    *)
(* exclusions are only marked while a parameter is being resolved upon,    *)
(* since the buckets point to them.  The trie m_lookup holds exactly the   *)
(* members of m_exclusions.                                                *)
(***************************************************************************)
EXTENDS Exclusions, Sequences

CONSTANTS
  ExclusionChoices, \* the Task::m_exclusions a derivation may be given
  MayAbort          \* whether an abort callback is installed

ASSUME DeriverAssumption ==
  /\ \A E \in ExclusionChoices : \A e \in E : e \subseteq Term /\ Consistent(e)
  /\ MayAbort \in BOOLEAN

VARIABLES
  pc,        \* "load", "loop", "build", or how DeriveExclusions ended
  given,     \* Task::m_exclusions
  excls,     \* ExclusionDeriver::m_exclusions
  deleted,   \* those that markDeleted was called for
  linked,    \* those the parameters point to (Parameter::m_exclusions)
  worklist,  \* m_worklist
  param,     \* m_currentParam
  buckets,   \* per value of param, the exclusions that mention it
  stack      \* activations of buildExclusion, innermost last

vars == <<pc, given, excls, deleted, linked, worklist, param, buckets, stack>>

-----------------------------------------------------------------------------
(* compareExclusions: the order of an ExclIterCollection. *)
TermLess(s, t) == s[1] < t[1] \/ (s[1] = t[1] /\ s[2] < t[2])

Precedes(e, f) ==
  \E t \in (e \ f) \cup (f \ e) :
    /\ \A u \in (e \ f) \cup (f \ e) : u = t \/ TermLess(t, u)
    /\ IF t \in e THEN \E u \in f : TermLess(t, u)
                  ELSE \A u \in e : ~ TermLess(t, u)

IsFirst(e, bucket) == \A f \in bucket : f = e \/ Precedes(e, f)

(* alreadyInCollection: the trie is asked for prefixes of all permutations, *)
(* which finds every member whose terms are among those of excl; its root,  *)
(* the empty exclusion, is only looked at for the empty list.               *)
AlreadyInCollection(excl, E) ==
  \E e \in E : Contained(e, excl) /\ (e = {} => excl = {})

(* consistent: no other parameter gets two values. *)
ConsistentWith(built, e) == Consistent(built \cup { t \in e : t[1] # param })

ExclusionCount(p, E) == Cardinality({ e \in E : p \in ParamsOf(e) })

(* Mutant: one exclusion more than there are values is asked for. *)
ResolvableLate(S, E) == { p \in S : ExclusionCount(p, E) > ValueCount[p] }

(* The parameters of S with enough exclusions to be resolved upon. *)
Resolvable(S, E) == { p \in S : ExclusionCount(p, E) >= ValueCount[p] }

Waiting == { worklist[i] : i \in DOMAIN worklist }

InSequence(S) == Ordered(S, [p \in S |-> p])

-----------------------------------------------------------------------------
(* Task::deriveExclusions fills the deriver, smaller exclusions first;     *)
(* then the parameters are linked and the work list initialised.           *)
Load ==
  /\ pc = "load"
  /\ excls' = { e \in given : ~ AlreadyInCollection(e, { d \in given :
                                  Cardinality(d) < Cardinality(e) }) }
  /\ linked' = excls'
  /\ worklist' \in InSequence(Resolvable(Param, excls'))
  /\ pc' = "loop"
  /\ UNCHANGED <<given, deleted, param, buckets, stack>>

Bucket(p, v) == { e \in linked : <<p, v>> \in e }

Coverable(p) == \A v \in Values(p) : Bucket(p, v) # {}

(* Mutant: the parameter is not taken off the work list. *)
SkipParamInPlace ==
  /\ pc = "loop" /\ worklist # <<>>
  /\ ~ Coverable(Head(worklist))
  /\ UNCHANGED vars

(* A value that is in no exclusion leaves nothing to derive. *)
SkipParam ==
  /\ pc = "loop" /\ worklist # <<>>
  /\ ~ Coverable(Head(worklist))
  /\ worklist' = Tail(worklist)
  /\ UNCHANGED <<pc, given, excls, deleted, linked, param, buckets, stack>>

Activation(built, left) == [built |-> built, left |-> left]

StartParam ==
  /\ pc = "loop" /\ worklist # <<>>
  /\ Coverable(Head(worklist))
  /\ param' = Head(worklist)
  /\ worklist' = Tail(worklist)
  /\ buckets' = [v \in Values(param') |-> Bucket(param', v)]
  /\ stack' = <<Activation({}, buckets'[0])>>
  /\ pc' = "build"
  /\ UNCHANGED <<given, excls, deleted, linked>>

Finish ==
  /\ pc = "loop" /\ worklist = <<>>
  /\ pc' = "done"
  /\ UNCHANGED <<given, excls, deleted, linked, worklist, param, buckets, stack>>

-----------------------------------------------------------------------------
(* buildExclusion *)

Depth    == Len(stack)
Top      == stack[Depth]
CallerAndSelf == SubSeq(stack, 1, Depth)  \* mutant: the frame is not popped
Caller   == SubSeq(stack, 1, Depth - 1)
InBucket == pc = "build" /\ Depth <= ValueCount[param]
CompleteEarly == pc = "build" /\ Depth = ValueCount[param]  \* mutant: off by one
Complete == pc = "build" /\ Depth = ValueCount[param] + 1

(* What the next exclusion of the bucket makes of the one being built. *)
Merged(e) == Top.built \cup { t \in e : t[1] # param }

Useless(e) ==
  \/ e \in deleted
  \/ ~ ConsistentWith(Top.built, e)
  \/ AlreadyInCollection(Merged(e), excls)

Advanced(e) == Append(Caller, Activation(Top.built, Top.left \ {e}))

SkipExclusion ==
  /\ InBucket
  /\ \E e \in Top.left :
       /\ IsFirst(e, Top.left)
       /\ Useless(e)
       /\ stack' = Advanced(e)
  /\ UNCHANGED <<pc, given, excls, deleted, linked, worklist, param, buckets>>

MergeExclusion ==
  /\ InBucket
  /\ \E e \in Top.left :
       /\ IsFirst(e, Top.left)
       /\ ~ Useless(e)
       /\ LET next == IF Depth < ValueCount[param] THEN buckets[Depth] ELSE {}
          IN  stack' = Append(Advanced(e), Activation(Merged(e), next))
  /\ UNCHANGED <<pc, given, excls, deleted, linked, worklist, param, buckets>>

NoneObsolete(excl) == {}  \* mutant of markObsolete

(* markObsolete: the empty exclusion would make all others obsolete. *)
Obsolete(excl) == { e \in excls : excl # {} /\ e # excl /\ Contained(excl, e) }

(* One exclusion per value has been merged: the result is added, unless    *)
(* the set has it, and may make parameters worth another visit.            *)
AddImplied ==
  /\ Complete
  /\ IF Top.built \in excls
       THEN UNCHANGED <<excls, deleted, linked, worklist>>
       ELSE /\ excls' = excls \cup {Top.built}
            /\ deleted' = deleted \cup Obsolete(Top.built)
            /\ linked' = linked \cup {Top.built}
            /\ \E s \in InSequence(Resolvable(ParamsOf(Top.built), linked') \ Waiting) :
                 worklist' = worklist \o s
  /\ stack' = Caller
  /\ UNCHANGED <<pc, given, param, buckets>>

Return ==
  /\ InBucket /\ Top.left = {} /\ Depth > 1
  /\ stack' = Caller
  /\ UNCHANGED <<pc, given, excls, deleted, linked, worklist, param, buckets>>

RelinkedNever == linked  \* mutant: the links are kept

Relinked == IF deleted = {} THEN linked ELSE excls \ deleted

(* The outermost call returns and peformDelete cleans up: only now the     *)
(* obsolete exclusions go, and the parameters are linked anew.             *)
EndParam ==
  /\ InBucket /\ Top.left = {} /\ Depth = 1
  /\ excls' = excls \ deleted
  /\ deleted' = {}
  /\ linked' = Relinked
  /\ stack' = <<>>
  /\ pc' = "loop"
  /\ UNCHANGED <<given, worklist, param, buckets>>

(* AbortGeneration() is asked whenever buildExclusion is entered. *)
Entered == Complete \/ (InBucket /\ Top.left = buckets[Depth - 1])

Cancel ==
  /\ MayAbort
  /\ Entered
  /\ pc' = "cancelled"
  /\ UNCHANGED <<given, excls, deleted, linked, worklist, param, buckets, stack>>

-----------------------------------------------------------------------------
Init ==
  /\ pc = "load"
  /\ given \in ExclusionChoices
  /\ excls = {} /\ deleted = {} /\ linked = {}
  /\ worklist = <<>>
  /\ param = 0
  /\ buckets = <<>>
  /\ stack = <<>>

Step ==
  \/ Load \/ SkipParam \/ StartParam \/ Finish
  \/ SkipExclusion \/ MergeExclusion \/ AddImplied \/ Return \/ EndParam

Next == Step \/ Cancel

Spec == Init /\ [][Next]_vars

(* The thread that called DeriveExclusions keeps running; nobody has to    *)
(* abort it.                                                               *)
FairSpec == Spec /\ WF_vars(Step)

-----------------------------------------------------------------------------
(* Properties *)

(* The state is of the shapes the C++ declarations give it, and the stack  *)
(* is never deeper than one level per value and one for the result.        *)
TypeOK ==
  /\ pc \in {"load", "loop", "build", "done", "cancelled"}
  /\ given \subseteq SUBSET Term
  /\ excls \subseteq SUBSET Term
  /\ deleted \subseteq SUBSET Term
  /\ linked \subseteq SUBSET Term
  /\ worklist \in Seq(Param)
  /\ pc = "build" =>
       /\ param \in Param
       /\ buckets \in [Values(param) -> SUBSET SUBSET Term]
       /\ stack \in Seq([built : SUBSET Term, left : SUBSET SUBSET Term])
       /\ Depth \in 1 .. ValueCount[param] + 1

ValidRows(E) == { r \in Rows : ~ ViolatesAny(r, E) }

(***************************************************************************)
(* Deriving never changes which rows are valid: every exclusion added is   *)
(* implied by those given, and every exclusion marked obsolete is implied  *)
(* by one that is not (deriver.cpp:175-245).                               *)
(***************************************************************************)
MeaningKept ==
  pc # "load" =>
    /\ ValidRows(excls) = ValidRows(given)
    /\ ValidRows(excls \ deleted) = ValidRows(given)

(***************************************************************************)
(* Between two parameters, one that is not waiting has nothing left to     *)
(* say: whatever follows from its exclusions is in the collection already, *)
(* or something broader is; the empty exclusion is broader than all.  The  *)
(* counters that decide who waits compare numbers of exclusions and values *)
(* only (deriver.cpp:235-243).                                             *)
(***************************************************************************)
Saturated(p) ==
  \A f \in [Values(p) -> excls] :
    (\A v \in Values(p) : <<p, v>> \in f[v]) =>
      LET implied == UNION { { t \in f[v] : t[1] # p } : v \in Values(p) }
      IN  Consistent(implied) => ViolatesAny(implied, excls)

WaitingOrSaturated ==
  pc \in {"loop", "done"} =>
    \A p \in Param \ Waiting : Saturated(p)

(***************************************************************************)
(* When it is done, an assignment that violates no exclusion can be        *)
(* completed: what Model::gcd relies on when it picks values one by one.   *)
(***************************************************************************)
ClosedWhenDone == pc = "done" => Closed(excls)

(* And what it leaves are the minimal exclusions, or a contradiction.      *)
ClosureReached ==
  pc = "done" =>
    IF ValidRows(given) = {} THEN {} \in excls ELSE excls = ClosureOf(given)

(***************************************************************************)
(* Within one derivation, from parameters that are linked to nothing, no   *)
(* parameter and no bucket points to an exclusion that is gone             *)
(* (deriver.cpp:82-90, 128-166).                                           *)
(***************************************************************************)
NoDanglingLink ==
  /\ linked \subseteq excls
  /\ pc \in {"loop", "done"} => linked = excls
  /\ pc = "build" =>
       /\ \A v \in Values(param) : buckets[v] \subseteq excls
       /\ \A i \in 1 .. Depth : stack[i].left \subseteq excls

(* Derivation ends. *)
Terminates == <>(pc \in {"done", "cancelled"})
=============================================================================
