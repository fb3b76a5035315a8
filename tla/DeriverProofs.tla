--------------------------- MODULE DeriverProofs ----------------------------
(***************************************************************************)
(* Theorems about Deriver, for every model and every set of exclusions:    *)
(* the state keeps its types, derivation never changes which rows are      *)
(* valid, no iterator outlives the exclusion it points to, and what it     *)
(* ends with is the closure: whatever the exclusions imply is forbidden by *)
(* one of them, and none contains another.                                 *)
(***************************************************************************)
EXTENDS Deriver, ExclusionProofs

Frame == [built : SUBSET Term, left : SUBSET SUBSET Term]

-----------------------------------------------------------------------------
(* The stack *)

LEMMA CallerShape ==
  ASSUME stack \in Seq(Frame), stack # <<>>
  PROVE  /\ Depth \in Nat \ {0} /\ Top \in Frame
         /\ Caller \in Seq(Frame)
         /\ Len(Caller) = Depth - 1
         /\ \A i \in 1 .. Depth - 1 : Caller[i] = stack[i] /\ stack[i] \in Frame
<1>1. Depth \in Nat \ {0} /\ Top \in Frame
  BY DEF Depth, Top
<1>2. \A i \in 1 .. Depth - 1 : stack[i] \in Frame
  BY <1>1 DEF Depth
<1> QED BY <1>1, <1>2, SubSeqProperties DEF Caller

LEMMA AppendShape ==
  ASSUME NEW s \in Seq(Frame), NEW f \in Frame
  PROVE  /\ Append(s, f) \in Seq(Frame)
         /\ Len(Append(s, f)) = Len(s) + 1
         /\ \A i \in 1 .. Len(s) : Append(s, f)[i] = s[i]
         /\ Append(s, f)[Len(s) + 1] = f
OBVIOUS

LEMMA ActivationShape ==
  ASSUME NEW built \in SUBSET Term, NEW left \in SUBSET SUBSET Term
  PROVE  /\ Activation(built, left) \in Frame
         /\ Activation(built, left).built = built
         /\ Activation(built, left).left = left
BY DEF Activation, Frame

LEMMA InSequenceShape ==
  ASSUME NEW S \in SUBSET Param, NEW s \in InSequence(S)
  PROVE  s \in Seq(Param)
<1>1. IsFiniteSet(S)
  BY SubsetsOfParamFinite
<1>2. \A p \in S : [q \in S |-> q][p] \in Int
  BY ParamAssumption
<1> QED BY <1>1, <1>2, OrderedShape, SeqMonotonic DEF InSequence

-----------------------------------------------------------------------------
(* Type correctness *)

LEMMA InitType == Init => TypeOK
BY DeriverAssumption DEF Init, TypeOK

LEMMA LoadType == TypeOK /\ Load => TypeOK'
<1> SUFFICES ASSUME TypeOK, Load PROVE TypeOK'
  OBVIOUS
<1>1. Resolvable(Param, excls') \in SUBSET Param
  BY DEF Resolvable
<1>2. worklist' \in Seq(Param)
  BY <1>1, InSequenceShape DEF Load
<1>3. excls' \subseteq given
  BY DEF Load
<1> QED BY <1>2, <1>3 DEF Load, TypeOK

LEMMA StartParamType == TypeOK /\ StartParam => TypeOK'
<1> SUFFICES ASSUME TypeOK, StartParam PROVE TypeOK'
  OBVIOUS
<1>1. worklist' \in Seq(Param) /\ param' \in Param
  BY DEF StartParam, TypeOK
<1>2. ValueCount[param'] \in Nat \ {0}
  BY <1>1, ParamAssumption
<1>3. \A v \in Values(param') : Bucket(param', v) \in SUBSET SUBSET Term
  BY DEF Bucket, TypeOK
<1>4. buckets' \in [Values(param') -> SUBSET SUBSET Term] /\ 0 \in Values(param')
  BY <1>2, <1>3 DEF StartParam, Values
<1>5. stack' = <<Activation({}, buckets'[0])>>
  BY DEF StartParam
<1>6. Activation({}, buckets'[0]) \in Frame
  BY <1>4, ActivationShape
<1>7. stack' \in Seq(Frame) /\ Len(stack') = 1
  BY <1>5, <1>6
<1>8. Depth' \in 1 .. ValueCount[param'] + 1
  BY <1>2, <1>7 DEF Depth
<1> QED BY <1>1, <1>4, <1>7, <1>8 DEF StartParam, TypeOK, Frame

(* What the inner steps start from.                                        *)
LEMMA BuildShape ==
  ASSUME TypeOK, pc = "build"
  PROVE  /\ param \in Param /\ ValueCount[param] \in Nat \ {0}
         /\ stack \in Seq(Frame) /\ stack # <<>>
         /\ Depth \in Nat \ {0} /\ Top \in Frame
         /\ Top.built \subseteq Term /\ Top.left \subseteq SUBSET Term
<1>1. /\ param \in Param /\ stack \in Seq(Frame) /\ Depth \in 1 .. ValueCount[param] + 1
  BY DEF TypeOK, Frame
<1>2. ValueCount[param] \in Nat \ {0}
  BY <1>1, ParamAssumption
<1>3. stack # <<>>
  BY <1>1, <1>2 DEF Depth
<1>4. Depth \in Nat \ {0} /\ Top \in Frame
  BY <1>1, <1>3, CallerShape
<1> QED BY <1>1, <1>2, <1>3, <1>4 DEF Frame

(* A step that takes an exclusion e of the bucket of the top activation.   *)
LEMMA AdvancedShape ==
  ASSUME TypeOK, pc = "build", NEW e \in Top.left
  PROVE  /\ Advanced(e) \in Seq(Frame)
         /\ Len(Advanced(e)) = Depth
         /\ \A i \in 1 .. Depth - 1 : Advanced(e)[i] = stack[i]
         /\ Advanced(e)[Depth].built = Top.built
         /\ Advanced(e)[Depth].left \subseteq Top.left
         /\ Merged(e) \subseteq Term
<1>1. /\ stack \in Seq(Frame) /\ stack # <<>> /\ Depth \in Nat \ {0}
      /\ Top.built \subseteq Term /\ Top.left \subseteq SUBSET Term
  BY BuildShape
<1>2. /\ Caller \in Seq(Frame) /\ Len(Caller) = Depth - 1
      /\ \A i \in 1 .. Depth - 1 : Caller[i] = stack[i]
  BY <1>1, CallerShape
<1> DEFINE f == Activation(Top.built, Top.left \ {e})
<1>3. f \in Frame /\ f.built = Top.built /\ f.left = Top.left \ {e}
  BY <1>1, ActivationShape
<1>4. Advanced(e) = Append(Caller, f)
  BY DEF Advanced
<1> HIDE DEF f
<1>5. /\ Advanced(e) \in Seq(Frame)
      /\ Len(Advanced(e)) = Len(Caller) + 1
      /\ \A i \in 1 .. Len(Caller) : Advanced(e)[i] = Caller[i]
      /\ Advanced(e)[Len(Caller) + 1] = f
  BY <1>2, <1>3, <1>4, AppendShape
<1>6. Merged(e) \subseteq Term
  BY <1>1 DEF Merged
<1>7. Len(Caller) + 1 = Depth
  BY <1>1, <1>2
<1> QED BY <1>1, <1>2, <1>3, <1>5, <1>6, <1>7

LEMMA SkipExclusionType == TypeOK /\ SkipExclusion => TypeOK'
<1> SUFFICES ASSUME TypeOK, SkipExclusion PROVE TypeOK'
  OBVIOUS
<1>1. pc = "build"
  BY DEF SkipExclusion, InBucket
<1>2. PICK e \in Top.left : stack' = Advanced(e)
  BY DEF SkipExclusion
<1>3. stack' \in Seq(Frame) /\ Len(stack') = Depth
  BY <1>1, <1>2, AdvancedShape
<1>4. Depth' = Depth
  BY <1>3 DEF Depth
<1> QED BY <1>1, <1>3, <1>4 DEF SkipExclusion, TypeOK, Frame

LEMMA MergeExclusionType == TypeOK /\ MergeExclusion => TypeOK'
<1> SUFFICES ASSUME TypeOK, MergeExclusion PROVE TypeOK'
  OBVIOUS
<1>1. pc = "build" /\ Depth <= ValueCount[param]
  BY DEF MergeExclusion, InBucket
<1>2. ValueCount[param] \in Nat \ {0} /\ Depth \in Nat \ {0}
  BY <1>1, BuildShape
<1> DEFINE next == IF Depth < ValueCount[param] THEN buckets[Depth] ELSE {}
<1>3. PICK e \in Top.left : stack' = Append(Advanced(e), Activation(Merged(e), next))
  BY DEF MergeExclusion
<1>4. next \in SUBSET SUBSET Term
  <2>1. Depth < ValueCount[param] => Depth \in Values(param)
    BY <1>2 DEF Values
  <2> QED BY <1>1, <2>1 DEF TypeOK
<1>5. Advanced(e) \in Seq(Frame) /\ Len(Advanced(e)) = Depth /\ Merged(e) \in SUBSET Term
  BY <1>1, AdvancedShape
<1>6. Activation(Merged(e), next) \in Frame
  BY <1>4, <1>5, ActivationShape
<1>7. stack' \in Seq(Frame) /\ Len(stack') = Depth + 1
  BY <1>3, <1>5, <1>6, AppendShape
<1>8. Depth' = Depth + 1 /\ Depth' \in 1 .. ValueCount[param] + 1
  BY <1>1, <1>2, <1>7 DEF Depth
<1> QED BY <1>1, <1>7, <1>8 DEF MergeExclusion, TypeOK, Frame

(* The activation on top returns to its caller.                            *)
LEMMA CallerType ==
  ASSUME TypeOK, pc = "build", Depth > 1, stack' = Caller
  PROVE  stack' \in Seq(Frame) /\ Depth' \in 1 .. ValueCount[param] + 1
<1>1. /\ stack \in Seq(Frame) /\ stack # <<>>
      /\ ValueCount[param] \in Nat \ {0} /\ Depth \in Nat \ {0}
  BY BuildShape
<1>2. Depth \in 1 .. ValueCount[param] + 1
  BY DEF TypeOK
<1>3. Caller \in Seq(Frame) /\ Len(Caller) = Depth - 1
  BY <1>1, CallerShape
<1>4. Depth' = Depth - 1
  BY <1>3 DEF Depth
<1> QED BY <1>1, <1>2, <1>3, <1>4

LEMMA AddImpliedType == TypeOK /\ AddImplied => TypeOK'
<1> SUFFICES ASSUME TypeOK, AddImplied PROVE TypeOK'
  OBVIOUS
<1>1. pc = "build" /\ Depth = ValueCount[param] + 1 /\ stack' = Caller
  BY DEF AddImplied, Complete
<1>2. ValueCount[param] \in Nat \ {0} /\ Top.built \subseteq Term
  BY <1>1, BuildShape
<1>3. stack' \in Seq(Frame) /\ Depth' \in 1 .. ValueCount[param] + 1
  BY <1>1, <1>2, CallerType
<1>4. /\ excls' \subseteq SUBSET Term /\ deleted' \subseteq SUBSET Term
      /\ linked' \subseteq SUBSET Term /\ worklist' \in Seq(Param)
  <2>1. CASE Top.built \in excls
    BY <2>1 DEF AddImplied, TypeOK
  <2>2. CASE Top.built \notin excls
    <3>1. /\ excls' \subseteq SUBSET Term /\ deleted' \subseteq SUBSET Term
          /\ linked' \subseteq SUBSET Term
      BY <1>2, <2>2 DEF AddImplied, TypeOK, Obsolete
    <3>2. PICK s \in InSequence(Resolvable(ParamsOf(Top.built), linked') \ Waiting) :
            worklist' = worklist \o s
      BY <2>2 DEF AddImplied
    <3>3. Resolvable(ParamsOf(Top.built), linked') \ Waiting \in SUBSET Param
      BY <1>2, TermShape DEF Resolvable, ParamsOf
    <3>4. s \in Seq(Param)
      BY <3>2, <3>3, InSequenceShape
    <3>5. worklist' \in Seq(Param)
      BY <3>2, <3>4 DEF TypeOK
    <3> QED BY <3>1, <3>5
  <2> QED BY <2>1, <2>2
<1> QED BY <1>1, <1>3, <1>4 DEF AddImplied, TypeOK, Frame

LEMMA ReturnType == TypeOK /\ Return => TypeOK'
<1> SUFFICES ASSUME TypeOK, Return PROVE TypeOK'
  OBVIOUS
<1>1. pc = "build" /\ Depth > 1 /\ stack' = Caller
  BY DEF Return, InBucket
<1>2. stack' \in Seq(Frame) /\ Depth' \in 1 .. ValueCount[param] + 1
  BY <1>1, CallerType
<1> QED BY <1>1, <1>2 DEF Return, TypeOK, Frame

(* The steps that leave "build", or do not enter it.                       *)
LEMMA OuterType ==
  TypeOK /\ (SkipParam \/ Finish \/ EndParam \/ Cancel \/ UNCHANGED vars) => TypeOK'
<1> SUFFICES ASSUME TypeOK,
                    SkipParam \/ Finish \/ EndParam \/ Cancel \/ UNCHANGED vars
             PROVE  TypeOK'
  OBVIOUS
<1>1. CASE SkipParam
  <2>1. worklist' \in Seq(Param) /\ pc' = "loop"
    BY <1>1 DEF SkipParam, TypeOK
  <2> QED BY <1>1, <2>1 DEF SkipParam, TypeOK
<1>2. CASE Finish
  BY <1>2 DEF Finish, TypeOK
<1>3. CASE EndParam
  BY <1>3 DEF EndParam, Relinked, TypeOK
<1>4. CASE Cancel
  BY <1>4 DEF Cancel, TypeOK
<1>5. CASE UNCHANGED vars
  BY <1>5 DEF vars, TypeOK, Depth
<1> QED BY <1>1, <1>2, <1>3, <1>4, <1>5

LEMMA TypeStep == TypeOK /\ [Next]_vars => TypeOK'
BY LoadType, StartParamType, SkipExclusionType, MergeExclusionType, AddImpliedType,
   ReturnType, OuterType DEF Next, Step

(***************************************************************************)
(* The state keeps its types; in particular the recursion of               *)
(* buildExclusion never goes deeper than one level per value and one for   *)
(* the result, so that its bucket index is in range (deriver.cpp:175-245). *)
(***************************************************************************)
THEOREM DeriverTypeCorrect == Spec => []TypeOK
BY InitType, TypeStep, PTL DEF Spec
-----------------------------------------------------------------------------
(* The meaning of the exclusions *)

(* No row that contains e is valid.                                        *)
Implied(e) == \A r \in Rows : Contained(e, r) => ViolatesAny(r, given)

(***************************************************************************)
(* What an activation at depth i has merged says of param: together with   *)
(* any of the values 0 .. i - 2, one exclusion of each having been merged, *)
(* it is impossible.  It still iterates over the bucket of value i - 1.    *)
(***************************************************************************)
SoundFrame(f, i) ==
  /\ Consistent(f.built)
  /\ \A r \in Rows : \A v \in 0 .. i - 2 :
       Contained(f.built, r) /\ <<param, v>> \in r => ViolatesAny(r, given)
  /\ i <= ValueCount[param] => f.left \subseteq buckets[i - 1]
  /\ i > ValueCount[param] => f.left = {}

StackSound == \A i \in 1 .. Depth : SoundFrame(stack[i], i)

BucketsSound ==
  \A v \in Values(param) : \A e \in buckets[v] : e \in excls /\ <<param, v>> \in e

(* Every exclusion follows from those given, and the live ones make every  *)
(* row invalid that those given make invalid.                              *)
ExclsSound ==
  /\ \A e \in excls : Consistent(e) /\ Implied(e)
  /\ \A r \in Rows : ViolatesAny(r, given) => ViolatesAny(r, excls \ deleted)

DeriveInv ==
  /\ given \in ExclusionChoices
  /\ deleted \subseteq excls
  /\ linked = excls
  /\ pc \in {"load", "loop"} => deleted = {}
  /\ pc # "load" => ExclsSound
  /\ pc = "build" => BucketsSound /\ StackSound

(* A row gives every parameter one of its values, and only one.            *)
LEMMA RowShape ==
  ASSUME NEW r \in Rows
  PROVE  /\ r \subseteq Term
         /\ Consistent(r)
         /\ \A p \in Param : \E v \in Values(p) : <<p, v>> \in r
<1>1. r \subseteq Term /\ Consistent(r) /\ ParamsOf(r) = Param
  BY CellShape DEF Rows
<1>2. ASSUME NEW p \in Param
      PROVE  \E v \in Values(p) : <<p, v>> \in r
  <2>1. PICK t \in r : t[1] = p
    BY <1>1 DEF ParamsOf
  <2>2. t[2] \in Values(p) /\ t = <<p, t[2]>>
    BY <1>1, <2>1, TermShape
  <2> QED BY <2>1, <2>2
<1> QED BY <1>1, <1>2

(* Of the given exclusions within a set of terms, one contains no other.   *)
LEMMA LeastExclusion ==
  ASSUME NEW E, E \subseteq SUBSET Term, NEW g \in E
  PROVE  \E e \in E : Contained(e, g) /\ \A d \in E : Contained(d, e) => d = e
<1> DEFINE T == { e \in E : Contained(e, g) }
<1>1. IsWellFoundedOn(StrictSubsetOrdering(Term), SUBSET Term)
  BY TermFinite, FS_StrictSubsetOrderingWellFounded, FS_FiniteSubsetsOfFinite
<1>2. g \in T /\ T \subseteq SUBSET Term
  BY DEF Contained
<1>3. PICK e \in T : \A y \in T : ~ (<<y, e>> \in StrictSubsetOrdering(Term))
  BY <1>1, <1>2, WFMin
<1>4. ASSUME NEW d \in E, Contained(d, e)
      PROVE  d = e
  <2>1. d \in T
    BY <1>4 DEF Contained
  <2>2. <<d, e>> \notin StrictSubsetOrdering(Term)
    BY <1>3, <2>1
  <2>3. d \in SUBSET Term /\ e \in SUBSET Term
    BY <1>2, <2>1
  <2> QED BY <1>4, <2>2, <2>3 DEF StrictSubsetOrdering, Contained
<1> QED BY <1>4

-----------------------------------------------------------------------------
LEMMA InitDerive == Init => DeriveInv
BY DEF Init, DeriveInv

LEMMA LoadDerive == TypeOK /\ DeriveInv /\ Load => DeriveInv'
<1> SUFFICES ASSUME TypeOK, DeriveInv, Load PROVE DeriveInv'
  OBVIOUS
<1>1. /\ pc = "load" /\ pc' = "loop" /\ linked' = excls'
      /\ given' = given /\ deleted' = {} /\ given \in ExclusionChoices
  BY DEF Load, DeriveInv
<1>2. excls' \subseteq given
  BY DEF Load
<1>3. \A e \in excls' : Consistent(e) /\ Implied(e)
  BY <1>1, <1>2, DeriverAssumption DEF Implied, ViolatesAny
<1>4. ASSUME NEW r \in Rows, ViolatesAny(r, given)
      PROVE  ViolatesAny(r, excls')
  <2>1. PICK g \in given : Contained(g, r)
    BY <1>4 DEF ViolatesAny
  <2>2. given \subseteq SUBSET Term
    BY DEF TypeOK
  <2>3. PICK e \in given :
          Contained(e, g) /\ \A d \in given : Contained(d, e) => d = e
    BY <2>2, LeastExclusion
  <2>4. Cardinality(e) \in Nat
    BY <2>2, SubsetsOfTermFinite
  <2>5. e \in excls'
    BY <2>3, <2>4 DEF Load, AlreadyInCollection
  <2>6. Contained(e, r)
    BY <2>1, <2>3 DEF Contained
  <2> QED BY <2>5, <2>6 DEF ViolatesAny
<1>5. ExclsSound'
  BY <1>1, <1>3, <1>4 DEF ExclsSound, Implied
<1> QED BY <1>1, <1>5 DEF DeriveInv

LEMMA StartParamDerive == TypeOK /\ DeriveInv /\ StartParam => DeriveInv'
<1> SUFFICES ASSUME TypeOK, DeriveInv, StartParam PROVE DeriveInv'
  OBVIOUS
<1>1. /\ pc = "loop" /\ pc' = "build"
      /\ UNCHANGED <<given, excls, deleted, linked>>
      /\ linked = excls /\ ExclsSound
  BY DEF StartParam, DeriveInv
<1>2. param' \in Param /\ ValueCount[param'] \in Nat \ {0}
  <2>1. param' \in Param
    BY DEF StartParam, TypeOK
  <2> QED BY <2>1, ParamAssumption
<1>3. buckets' = [v \in Values(param') |-> Bucket(param', v)]
  BY DEF StartParam
<1>4. BucketsSound'
  BY <1>1, <1>3 DEF BucketsSound, Bucket
<1>5. 0 \in Values(param')
  BY <1>2 DEF Values
<1> DEFINE f == Activation({}, buckets'[0])
<1>6. stack' = <<f>> /\ Depth' = 1 /\ stack'[1] = f
  BY DEF StartParam, Depth
<1>7. f.built = {} /\ f.left = buckets'[0]
  BY DEF Activation
<1> HIDE DEF f
<1>8. StackSound'
  BY <1>2, <1>6, <1>7 DEF StackSound, SoundFrame, Consistent
<1>9. ExclsSound'
  BY <1>1 DEF ExclsSound, Implied
<1> QED BY <1>1, <1>4, <1>8, <1>9 DEF DeriveInv

(***************************************************************************)
(* The steps within buildExclusion leave the exclusions alone, except that *)
(* AddImplied adds one.  All of them keep the meaning of the buckets and   *)
(* of the stack, if every activation that is left is sound.                *)
(***************************************************************************)
LEMMA StackKept ==
  ASSUME UNCHANGED <<given, param, buckets>>,
         \A i \in 1 .. Depth' : SoundFrame(stack'[i], i)
  PROVE  StackSound'
BY DEF StackSound, SoundFrame

LEMMA QuietStep ==
  ASSUME DeriveInv, pc = "build",
         UNCHANGED <<pc, given, excls, deleted, linked, param, buckets>>,
         \A i \in 1 .. Depth' : SoundFrame(stack'[i], i)
  PROVE  DeriveInv'
<1>1. StackSound'
  BY StackKept
<1>2. ExclsSound' /\ BucketsSound'
  BY DEF DeriveInv, ExclsSound, BucketsSound, Implied
<1> QED BY <1>1, <1>2 DEF DeriveInv

(* An activation that has taken an exclusion off its bucket.               *)
LEMMA AdvancedSound ==
  ASSUME TypeOK, DeriveInv, pc = "build", NEW e \in Top.left
  PROVE  \A i \in 1 .. Depth : SoundFrame(Advanced(e)[i], i)
<1>1. /\ \A i \in 1 .. Depth - 1 : Advanced(e)[i] = stack[i]
      /\ Advanced(e)[Depth].built = Top.built
      /\ Advanced(e)[Depth].left \subseteq Top.left
  BY AdvancedShape
<1>2. Depth \in Nat \ {0} /\ ValueCount[param] \in Nat \ {0}
  BY BuildShape
<1>3. \A i \in 1 .. Depth : SoundFrame(stack[i], i)
  BY DEF DeriveInv, StackSound
<1>4. SoundFrame(Top, Depth)
  BY <1>2, <1>3 DEF Top
<1>5. SoundFrame(Advanced(e)[Depth], Depth)
  BY <1>1, <1>4 DEF SoundFrame
<1>6. ASSUME NEW i \in 1 .. Depth, i # Depth
      PROVE  SoundFrame(Advanced(e)[i], i)
  BY <1>1, <1>2, <1>3, <1>6
<1> QED BY <1>5, <1>6

LEMMA SkipExclusionDerive == TypeOK /\ DeriveInv /\ SkipExclusion => DeriveInv'
<1> SUFFICES ASSUME TypeOK, DeriveInv, SkipExclusion PROVE DeriveInv'
  OBVIOUS
<1>1. pc = "build"
  BY DEF SkipExclusion, InBucket
<1>2. PICK e \in Top.left : stack' = Advanced(e)
  BY DEF SkipExclusion
<1>3. Depth' = Depth
  BY <1>1, <1>2, AdvancedShape DEF Depth
<1>4. \A i \in 1 .. Depth' : SoundFrame(stack'[i], i)
  BY <1>1, <1>2, <1>3, AdvancedSound
<1> QED BY <1>1, <1>4, QuietStep DEF SkipExclusion

(***************************************************************************)
(* The heart of the matter: merging an exclusion of value i - 1 into what  *)
(* is impossible with the values 0 .. i - 2 gives what is impossible with  *)
(* the values 0 .. i - 1.                                                  *)
(***************************************************************************)
LEMMA MergedSound ==
  ASSUME TypeOK, DeriveInv, pc = "build", Depth <= ValueCount[param],
         NEW e \in Top.left, ConsistentWith(Top.built, e)
  PROVE  /\ Consistent(Merged(e))
         /\ \A r \in Rows : \A v \in 0 .. Depth - 1 :
              Contained(Merged(e), r) /\ <<param, v>> \in r => ViolatesAny(r, given)
<1>1. /\ Depth \in Nat \ {0} /\ ValueCount[param] \in Nat \ {0}
  BY BuildShape
<1>2. SoundFrame(Top, Depth)
  BY <1>1 DEF DeriveInv, StackSound, Top
<1>3. Depth - 1 \in Values(param)
  BY <1>1 DEF Values
<1>4. e \in buckets[Depth - 1]
  BY <1>2 DEF SoundFrame
<1>5. e \in excls /\ <<param, Depth - 1>> \in e
  BY <1>3, <1>4 DEF DeriveInv, BucketsSound
<1>6. Consistent(e) /\ Implied(e)
  BY <1>5 DEF DeriveInv, ExclsSound
<1>7. ASSUME NEW r \in Rows, NEW v \in 0 .. Depth - 1,
             Contained(Merged(e), r), <<param, v>> \in r
      PROVE  ViolatesAny(r, given)
  <2>1. CASE v = Depth - 1
    <3>1. \A t \in e : t[1] = param => t = <<param, Depth - 1>>
      BY <1>5, <1>6 DEF Consistent
    <3>2. \A t \in e : t[1] # param => t \in r
      BY <1>7 DEF Merged, Contained
    <3>3. Contained(e, r)
      BY <1>7, <2>1, <3>1, <3>2 DEF Contained
    <3> QED BY <1>6, <3>3 DEF Implied
  <2>2. CASE v # Depth - 1
    <3>1. v \in 0 .. Depth - 2
      BY <1>1, <2>2
    <3>2. Contained(Top.built, r)
      BY <1>7 DEF Merged, Contained
    <3> QED BY <1>2, <1>7, <3>1, <3>2 DEF SoundFrame
  <2> QED BY <2>1, <2>2
<1>8. Consistent(Merged(e))
  BY DEF ConsistentWith, Merged
<1> QED BY <1>7, <1>8

LEMMA MergeExclusionDerive == TypeOK /\ DeriveInv /\ MergeExclusion => DeriveInv'
<1> SUFFICES ASSUME TypeOK, DeriveInv, MergeExclusion PROVE DeriveInv'
  OBVIOUS
<1>1. pc = "build" /\ Depth <= ValueCount[param]
  BY DEF MergeExclusion, InBucket
<1>2. ValueCount[param] \in Nat \ {0} /\ Depth \in Nat \ {0}
  BY <1>1, BuildShape
<1> DEFINE next == IF Depth < ValueCount[param] THEN buckets[Depth] ELSE {}
<1>3. PICK e \in Top.left :
        ~ Useless(e) /\ stack' = Append(Advanced(e), Activation(Merged(e), next))
  BY DEF MergeExclusion
<1> DEFINE f == Activation(Merged(e), next)
<1>4. f.built = Merged(e) /\ f.left = next
  BY DEF Activation
<1>5. Advanced(e) \in Seq(Frame) /\ Len(Advanced(e)) = Depth
  BY <1>1, AdvancedShape
<1>6. /\ Depth' = Depth + 1
      /\ \A i \in 1 .. Depth : stack'[i] = Advanced(e)[i]
      /\ stack'[Depth + 1] = f
  <2>1. /\ Len(stack') = Len(Advanced(e)) + 1
        /\ \A i \in 1 .. Len(Advanced(e)) : stack'[i] = Advanced(e)[i]
        /\ stack'[Len(Advanced(e)) + 1] = f
    BY <1>3, <1>5
  <2> QED BY <1>5, <2>1 DEF Depth
<1> HIDE DEF f
<1>7. SoundFrame(f, Depth + 1)
  <2>1. /\ Consistent(Merged(e))
        /\ \A r \in Rows : \A v \in 0 .. Depth - 1 :
             Contained(Merged(e), r) /\ <<param, v>> \in r => ViolatesAny(r, given)
    BY <1>1, <1>3, MergedSound DEF Useless
  <2>2. (Depth + 1) - 2 = Depth - 1 /\ (Depth + 1) - 1 = Depth
    BY <1>2
  <2>3. /\ Depth + 1 <= ValueCount[param] => f.left \subseteq buckets[Depth]
        /\ Depth + 1 > ValueCount[param] => f.left = {}
    BY <1>2, <1>4
  <2> QED BY <1>4, <2>1, <2>2, <2>3 DEF SoundFrame
<1>8. \A i \in 1 .. Depth' : SoundFrame(stack'[i], i)
  <2>1. \A i \in 1 .. Depth : SoundFrame(stack'[i], i)
    BY <1>1, <1>6, AdvancedSound
  <2> QED BY <1>2, <1>6, <1>7, <2>1
<1> QED BY <1>1, <1>8, QuietStep DEF MergeExclusion

(* The activations that are left when the one on top returns.              *)
LEMMA CallerSound ==
  ASSUME TypeOK, DeriveInv, pc = "build", stack' = Caller
  PROVE  \A i \in 1 .. Depth' : SoundFrame(stack'[i], i)
<1>1. stack \in Seq(Frame) /\ stack # <<>> /\ Depth \in Nat \ {0}
  BY BuildShape
<1>2. Len(Caller) = Depth - 1 /\ \A i \in 1 .. Depth - 1 : Caller[i] = stack[i]
  BY <1>1, CallerShape
<1>3. Depth' = Depth - 1
  BY <1>2 DEF Depth
<1>4. \A i \in 1 .. Depth : SoundFrame(stack[i], i)
  BY DEF DeriveInv, StackSound
<1> QED BY <1>1, <1>2, <1>3, <1>4

LEMMA ReturnDerive == TypeOK /\ DeriveInv /\ Return => DeriveInv'
<1> SUFFICES ASSUME TypeOK, DeriveInv, Return PROVE DeriveInv'
  OBVIOUS
<1>1. pc = "build" /\ stack' = Caller
  BY DEF Return, InBucket
<1> QED BY <1>1, CallerSound, QuietStep DEF Return

LEMMA AddImpliedDerive == TypeOK /\ DeriveInv /\ AddImplied => DeriveInv'
<1> SUFFICES ASSUME TypeOK, DeriveInv, AddImplied PROVE DeriveInv'
  OBVIOUS
<1>1. /\ pc = "build" /\ Depth = ValueCount[param] + 1 /\ stack' = Caller
      /\ UNCHANGED <<pc, given, param, buckets>>
  BY DEF AddImplied, Complete
<1>2. \A i \in 1 .. Depth' : SoundFrame(stack'[i], i)
  BY <1>1, CallerSound
<1>3. CASE Top.built \in excls
  BY <1>1, <1>2, <1>3, QuietStep DEF AddImplied
<1>4. CASE Top.built \notin excls
  <2>1. /\ excls' = excls \cup {Top.built}
        /\ deleted' = deleted \cup Obsolete(Top.built)
        /\ linked' = linked \cup {Top.built}
    BY <1>4 DEF AddImplied
  <2>2. ValueCount[param] \in Nat \ {0} /\ param \in Param /\ Depth \in Nat \ {0}
    BY <1>1, BuildShape
  <2>3. SoundFrame(Top, Depth)
    BY <1>1, <2>2 DEF DeriveInv, StackSound, Top
  <2>4. Implied(Top.built)
    <3> SUFFICES ASSUME NEW r \in Rows, Contained(Top.built, r)
                 PROVE  ViolatesAny(r, given)
      BY DEF Implied
    <3>1. PICK v \in Values(param) : <<param, v>> \in r
      BY <2>2, RowShape
    <3>2. v \in 0 .. Depth - 2
      BY <1>1, <2>2 DEF Values
    <3> QED BY <2>3, <3>1, <3>2 DEF SoundFrame
  <2>5. deleted \subseteq excls /\ linked = excls /\ ExclsSound /\ BucketsSound
    BY <1>1 DEF DeriveInv
  <2>6. deleted' \subseteq excls' /\ linked' = excls'
    BY <2>1, <2>5 DEF Obsolete
  <2>7. \A e \in excls' : Consistent(e) /\ Implied(e)
    BY <2>1, <2>3, <2>4, <2>5 DEF ExclsSound, SoundFrame
  <2>8. ASSUME NEW r \in Rows, ViolatesAny(r, given)
        PROVE  ViolatesAny(r, excls' \ deleted')
    <3>1. PICK e \in excls \ deleted : Contained(e, r)
      BY <2>5, <2>8 DEF ExclsSound, ViolatesAny
    <3>2. CASE e \in Obsolete(Top.built)
      <4>1. Contained(Top.built, r)
        BY <3>1, <3>2 DEF Obsolete, Contained
      <4>2. Top.built \in excls' \ deleted'
        BY <1>4, <2>1, <2>5 DEF Obsolete
      <4> QED BY <4>1, <4>2 DEF ViolatesAny
    <3>3. CASE e \notin Obsolete(Top.built)
      BY <2>1, <3>1, <3>3 DEF ViolatesAny
    <3> QED BY <3>2, <3>3
  <2>9. ExclsSound' /\ BucketsSound'
    BY <1>1, <2>1, <2>5, <2>7, <2>8 DEF ExclsSound, BucketsSound, Implied
  <2>10. StackSound'
    BY <1>1, <1>2, StackKept
  <2> QED BY <1>1, <2>5, <2>6, <2>9, <2>10 DEF DeriveInv
<1> QED BY <1>3, <1>4

(* The steps outside buildExclusion, and the one that leaves it.           *)
LEMMA OuterDerive ==
  DeriveInv /\ (SkipParam \/ Finish \/ EndParam \/ Cancel \/ UNCHANGED vars)
    => DeriveInv'
<1> SUFFICES ASSUME DeriveInv,
                    SkipParam \/ Finish \/ EndParam \/ Cancel \/ UNCHANGED vars
             PROVE  DeriveInv'
  OBVIOUS
<1>1. CASE SkipParam \/ Finish
  <2>1. /\ pc = "loop" /\ pc' \in {"loop", "done"}
        /\ UNCHANGED <<given, excls, deleted, linked>>
    BY <1>1 DEF SkipParam, Finish
  <2>2. ExclsSound'
    BY <2>1 DEF DeriveInv, ExclsSound, Implied
  <2> QED BY <2>1, <2>2 DEF DeriveInv
<1>2. CASE EndParam
  <2>1. /\ pc = "build" /\ pc' = "loop" /\ given' = given
        /\ excls' = excls \ deleted /\ deleted' = {} /\ linked' = Relinked
    BY <1>2 DEF EndParam, InBucket
  <2>2. linked' = excls'
    BY <2>1 DEF DeriveInv, Relinked
  <2>3. ExclsSound'
    BY <2>1 DEF DeriveInv, ExclsSound, Implied
  <2> QED BY <2>1, <2>2, <2>3 DEF DeriveInv
<1>3. CASE Cancel
  <2>1. pc = "build" /\ pc' = "cancelled" /\ UNCHANGED <<given, excls, deleted, linked>>
    BY <1>3 DEF Cancel, Entered, Complete, InBucket
  <2>2. ExclsSound'
    BY <2>1 DEF DeriveInv, ExclsSound, Implied
  <2> QED BY <2>1, <2>2 DEF DeriveInv
<1>4. CASE UNCHANGED vars
  BY <1>4 DEF vars, DeriveInv, ExclsSound, BucketsSound, StackSound, SoundFrame,
              Implied, Depth
<1> QED BY <1>1, <1>2, <1>3, <1>4

LEMMA DeriveStep == TypeOK /\ DeriveInv /\ [Next]_vars => DeriveInv'
BY LoadDerive, StartParamDerive, SkipExclusionDerive, MergeExclusionDerive,
   AddImpliedDerive, ReturnDerive, OuterDerive DEF Next, Step

-----------------------------------------------------------------------------
(***************************************************************************)
(* Derivation never changes which rows are valid, at any point of the      *)
(* recursion: whatever model and exclusions, and wherever it is aborted    *)
(* (deriver.cpp:175-245).                                                  *)
(***************************************************************************)
THEOREM DerivationSound == Spec => []MeaningKept
<1>1. DeriveInv => MeaningKept
  <2> SUFFICES ASSUME DeriveInv, pc # "load"
               PROVE  /\ ValidRows(excls) = ValidRows(given)
                      /\ ValidRows(excls \ deleted) = ValidRows(given)
    BY DEF MeaningKept
  <2>1. \A r \in Rows : ViolatesAny(r, excls) => ViolatesAny(r, given)
    BY DEF DeriveInv, ExclsSound, Implied, ViolatesAny
  <2>2. \A r \in Rows : ViolatesAny(r, given) => ViolatesAny(r, excls \ deleted)
    BY DEF DeriveInv, ExclsSound
  <2>3. \A r \in Rows : ViolatesAny(r, excls \ deleted) => ViolatesAny(r, excls)
    BY DEF ViolatesAny
  <2> QED BY <2>1, <2>2, <2>3 DEF ValidRows
<1> QED BY <1>1, InitDerive, DeriveStep, DeriverTypeCorrect, PTL DEF Spec

(***************************************************************************)
(* No iterator that a parameter, a bucket or an activation keeps points to *)
(* an exclusion that this derivation erases (deriver.cpp:82-90, 128-166).  *)
(***************************************************************************)
THEOREM LinksAreLive == Spec => []NoDanglingLink
<1>1. TypeOK /\ DeriveInv => NoDanglingLink
  <2> SUFFICES ASSUME TypeOK, DeriveInv PROVE NoDanglingLink
    OBVIOUS
  <2>1. linked = excls
    BY DEF DeriveInv
  <2>2. ASSUME pc = "build"
        PROVE  /\ \A v \in Values(param) : buckets[v] \subseteq excls
               /\ \A i \in 1 .. Depth : stack[i].left \subseteq excls
    <3>1. \A v \in Values(param) : buckets[v] \subseteq excls
      BY <2>2 DEF DeriveInv, BucketsSound
    <3>2. ValueCount[param] \in Nat \ {0} /\ Depth \in Nat \ {0}
      BY <2>2, BuildShape
    <3>3. ASSUME NEW i \in 1 .. Depth
          PROVE  stack[i].left \subseteq excls
      <4>1. SoundFrame(stack[i], i)
        BY <2>2 DEF DeriveInv, StackSound
      <4>2. i <= ValueCount[param] => i - 1 \in Values(param)
        BY <3>2 DEF Values
      <4>3. i <= ValueCount[param] \/ i > ValueCount[param]
        BY <3>2
      <4> QED BY <3>1, <4>1, <4>2, <4>3 DEF SoundFrame
    <3> QED BY <3>1, <3>3
  <2> QED BY <2>1, <2>2 DEF NoDanglingLink
<1> QED BY <1>1, InitDerive, DeriveStep, DeriverTypeCorrect, PTL DEF Spec

-----------------------------------------------------------------------------
(* The closure *)

(* One exclusion of E for each value of p, and what they imply together.   *)
Choices(p, E) == { f \in [Values(p) -> E] : \A v \in Values(p) : <<p, v>> \in f[v] }

ImpliedBy(p, f) == UNION { { t \in f[v] : t[1] # p } : v \in Values(p) }

(* Whatever can be resolved upon p from E, K has it or something broader.  *)
Settled(p, E, K) ==
  \A f \in Choices(p, E) :
    Consistent(ImpliedBy(p, f)) => ViolatesAny(ImpliedBy(p, f), K)

Live == excls \ deleted

(***************************************************************************)
(* The recursion will still get to f: some activation has merged nothing   *)
(* but what f has, and what f takes of its bucket is not yet taken.        *)
(***************************************************************************)
Ahead(f) ==
  \E i \in 1 .. Depth :
    /\ stack[i].built \subseteq ImpliedBy(param, f)
    /\ i <= ValueCount[param] => f[i - 1] \in stack[i].left

(***************************************************************************)
(* Within buildExclusion: nothing that is built mentions the parameter, so *)
(* that the buckets hold all there is of it, and a choice whose result is  *)
(* missing is still ahead.                                                 *)
(***************************************************************************)
BuildInv ==
  /\ \A i \in 1 .. Depth : \A t \in stack[i].built : t[1] # param
  /\ \A v \in Values(param) : \A e \in excls : <<param, v>> \in e => e \in buckets[v]
  /\ Depth > ValueCount[param] => ~ AlreadyInCollection(Top.built, excls)
  /\ \A f \in Choices(param, Live) :
       Consistent(ImpliedBy(param, f)) => ViolatesAny(ImpliedBy(param, f), excls) \/ Ahead(f)

(***************************************************************************)
(* An obsolete exclusion has a broader one that is live; no live one       *)
(* contains another; and a parameter that is neither waiting nor being     *)
(* resolved upon is settled.                                               *)
(***************************************************************************)
ClosureInv ==
  /\ \A d \in deleted : \E e \in Live : Contained(e, d)
  /\ \A d, e \in Live : d # {} /\ Contained(d, e) => d = e
  /\ pc = "build" => BuildInv
  /\ pc \in {"loop", "build", "done"} =>
       \A p \in Param \ Waiting : (pc = "build" => p # param) => Settled(p, Live, excls)
  /\ pc = "done" => worklist = <<>> /\ deleted = {}

LEMMA FewerChoices ==
  ASSUME NEW p, NEW E, NEW F, F \subseteq E, NEW K, NEW L, K \subseteq L, Settled(p, E, K)
  PROVE  Settled(p, F, L)
<1>1. Choices(p, F) \subseteq Choices(p, E)
  BY DEF Choices
<1> QED BY <1>1 DEF Settled, ViolatesAny

(* An exclusion without the parameter is part of no choice upon it.        *)
LEMMA ChoicesWithout ==
  ASSUME NEW p, NEW b, \A v \in Values(p) : <<p, v>> \notin b,
         NEW E, NEW F, E \subseteq F \cup {b}
  PROVE  Choices(p, E) \subseteq Choices(p, F)
<1> SUFFICES ASSUME NEW f \in Choices(p, E) PROVE f \in Choices(p, F)
  OBVIOUS
<1>1. f \in [Values(p) -> E] /\ \A v \in Values(p) : <<p, v>> \in f[v]
  BY DEF Choices
<1>2. \A v \in Values(p) : f[v] \in F
  BY <1>1
<1>3. f \in [Values(p) -> F]
  BY <1>1, <1>2
<1> QED BY <1>1, <1>3 DEF Choices

(* With fewer exclusions than values, some value is in none of them.       *)
LEMMA TooFewToChoose ==
  ASSUME NEW p \in Param, NEW E \in SUBSET SUBSET Term, \A e \in E : Consistent(e),
         ~ (ExclusionCount(p, E) >= ValueCount[p])
  PROVE  Choices(p, E) = {}
<1> SUFFICES ASSUME NEW f \in Choices(p, E) PROVE FALSE
  OBVIOUS
<1> DEFINE S == { e \in E : p \in ParamsOf(e) }
<1>1. IsFiniteSet(S) /\ Cardinality(S) \in Nat
  BY SetsOfCellsFinite
<1>2. \A v \in Values(p) : f[v] \in S /\ <<p, v>> \in f[v] /\ Consistent(f[v])
  BY DEF Choices, ParamsOf
<1>3. \A v, w \in Values(p) : f[v] = f[w] => v = w
  BY <1>2 DEF Consistent
<1>4. f \in [Values(p) -> S]
  BY <1>2 DEF Choices
<1>5. f \in Injection(Values(p), S)
  BY <1>3, <1>4 DEF Injection, IsInjective
<1>6. Cardinality(Values(p)) <= Cardinality(S)
  BY <1>1, <1>5, FS_Injection
<1>7. ValueCount[p] \in Nat \ {0}
  BY ParamAssumption
<1>8. Cardinality(Values(p)) = ValueCount[p]
  BY <1>7, FS_Interval DEF Values
<1> QED BY <1>1, <1>6, <1>7, <1>8 DEF ExclusionCount

LEMMA InSequenceAll ==
  ASSUME NEW S \in SUBSET Param, NEW s \in InSequence(S)
  PROVE  \A p \in S : \E i \in DOMAIN s : s[i] = p
<1>1. IsFiniteSet(S)
  BY SubsetsOfParamFinite
<1>2. \A p \in S : [q \in S |-> q][p] \in Int
  BY ParamAssumption
<1> QED BY <1>1, <1>2, OrderedAll DEF InSequence

-----------------------------------------------------------------------------
LEMMA LoadClosure == TypeOK /\ DeriveInv /\ Load => ClosureInv'
<1> SUFFICES ASSUME TypeOK, DeriveInv, Load PROVE ClosureInv'
  OBVIOUS
<1>1. /\ pc' = "loop" /\ deleted' = {} /\ excls' \subseteq given
      /\ given \subseteq SUBSET Term /\ given \in ExclusionChoices
  BY DEF Load, DeriveInv, TypeOK
<1>2. Live' = excls'
  BY <1>1 DEF Live
<1>3. ASSUME NEW d \in excls', NEW e \in excls', d # {}, Contained(d, e), d # e
      PROVE  FALSE
  <2>1. IsFiniteSet(e) /\ d \in SUBSET e
    BY <1>1, <1>3, SubsetsOfTermFinite DEF Contained
  <2>2. Cardinality(d) <= Cardinality(e) /\ Cardinality(d) # Cardinality(e)
    BY <1>3, <2>1, FS_Subset
  <2>3. Cardinality(d) \in Nat /\ Cardinality(e) \in Nat
    BY <1>1, SubsetsOfTermFinite
  <2>4. d \in { g \in given : Cardinality(g) < Cardinality(e) }
    BY <1>1, <2>2, <2>3
  <2>5. ~ AlreadyInCollection(e, { g \in given : Cardinality(g) < Cardinality(e) })
    BY DEF Load
  <2> QED BY <1>3, <2>4, <2>5 DEF AlreadyInCollection
<1>4. ASSUME NEW p \in Param, p \notin Waiting'
      PROVE  Settled(p, excls', excls')
  <2>1. p \notin Resolvable(Param, excls')
    <3>1. Resolvable(Param, excls') \in SUBSET Param
      BY DEF Resolvable
    <3>2. worklist' \in InSequence(Resolvable(Param, excls'))
      BY DEF Load
    <3> QED BY <1>4, <3>1, <3>2, InSequenceAll DEF Waiting
  <2>2. \A e \in excls' : Consistent(e)
    BY <1>1, DeriverAssumption
  <2>3. excls' \in SUBSET SUBSET Term
    BY <1>1
  <2>4. Choices(p, excls') = {}
    BY <2>1, <2>2, <2>3, TooFewToChoose DEF Resolvable
  <2> QED BY <2>4 DEF Settled
<1>5. \A p \in Param \ Waiting' : Settled(p, Live', excls')
  BY <1>2, <1>4
<1> QED BY <1>1, <1>2, <1>3, <1>5 DEF ClosureInv

LEMMA SkipParamClosure == TypeOK /\ DeriveInv /\ ClosureInv /\ SkipParam => ClosureInv'
<1> SUFFICES ASSUME TypeOK, DeriveInv, ClosureInv, SkipParam PROVE ClosureInv'
  OBVIOUS
<1>1. /\ pc = "loop" /\ pc' = "loop" /\ UNCHANGED <<excls, deleted>>
      /\ worklist \in Seq(Param) /\ worklist # <<>> /\ worklist' = Tail(worklist)
      /\ linked = excls
  BY DEF SkipParam, TypeOK, DeriveInv
<1>2. Live' = Live
  BY <1>1 DEF Live
<1>3. Waiting \subseteq Waiting' \cup {Head(worklist)}
  <2> SUFFICES ASSUME NEW i \in DOMAIN worklist, i # 1
               PROVE  \E j \in DOMAIN Tail(worklist) : Tail(worklist)[j] = worklist[i]
    BY <1>1 DEF Waiting
  <2>1. i - 1 \in DOMAIN Tail(worklist) /\ Tail(worklist)[i - 1] = worklist[i]
    BY <1>1
  <2> QED BY <2>1
<1>4. Settled(Head(worklist), Live, excls)
  <2>1. PICK v \in Values(Head(worklist)) : Bucket(Head(worklist), v) = {}
    BY DEF SkipParam, Coverable
  <2>2. \A e \in excls : <<Head(worklist), v>> \notin e
    BY <1>1, <2>1 DEF Bucket
  <2>3. Choices(Head(worklist), Live) = {}
    BY <2>2 DEF Choices, Live
  <2> QED BY <2>3 DEF Settled
<1>5. \A p \in Param \ Waiting : Settled(p, Live, excls)
  BY <1>1 DEF ClosureInv
<1>6. \A p \in Param \ Waiting' : Settled(p, Live', excls')
  BY <1>1, <1>2, <1>3, <1>4, <1>5
<1>7. /\ \A d \in deleted' : \E e \in Live' : Contained(e, d)
      /\ \A d, e \in Live' : d # {} /\ Contained(d, e) => d = e
  BY <1>1, <1>2 DEF ClosureInv
<1> QED BY <1>1, <1>6, <1>7 DEF ClosureInv

LEMMA StartParamClosure == TypeOK /\ DeriveInv /\ ClosureInv /\ StartParam => ClosureInv'
<1> SUFFICES ASSUME TypeOK, DeriveInv, ClosureInv, StartParam PROVE ClosureInv'
  OBVIOUS
<1>1. /\ pc = "loop" /\ pc' = "build" /\ UNCHANGED <<excls, deleted>>
      /\ worklist \in Seq(Param) /\ worklist # <<>> /\ worklist' = Tail(worklist)
      /\ linked = excls /\ param' = Head(worklist) /\ param' \in Param
      /\ buckets' = [v \in Values(param') |-> Bucket(param', v)]
      /\ stack' = <<Activation({}, buckets'[0])>>
  BY DEF StartParam, TypeOK, DeriveInv
<1>2. Live' = Live
  BY <1>1 DEF Live
<1>3. Waiting \subseteq Waiting' \cup {param'}
  <2> SUFFICES ASSUME NEW i \in DOMAIN worklist, i # 1
               PROVE  \E j \in DOMAIN Tail(worklist) : Tail(worklist)[j] = worklist[i]
    BY <1>1 DEF Waiting
  <2>1. i - 1 \in DOMAIN Tail(worklist) /\ Tail(worklist)[i - 1] = worklist[i]
    BY <1>1
  <2> QED BY <2>1
<1>4. \A p \in Param \ Waiting : Settled(p, Live, excls)
  BY <1>1 DEF ClosureInv
<1>5. \A p \in Param \ Waiting' : p # param' => Settled(p, Live', excls')
  BY <1>1, <1>2, <1>3, <1>4
<1>6. ValueCount[param'] \in Nat \ {0} /\ 0 \in Values(param')
  BY <1>1, ParamAssumption DEF Values
<1>7. \A v \in Values(param') : \A e \in excls' : <<param', v>> \in e => e \in buckets'[v]
  BY <1>1 DEF Bucket
<1>8. Depth' = 1 /\ stack'[1].built = {} /\ stack'[1].left = buckets'[0]
  BY <1>1 DEF Depth, Activation
<1>9. \A f \in Choices(param', Live') : Ahead(f)'
  <2> SUFFICES ASSUME NEW f \in Choices(param', Live') PROVE f[0] \in stack'[1].left
    BY <1>8 DEF Ahead
  <2>1. f[0] \in Live' /\ <<param', 0>> \in f[0]
    BY <1>6 DEF Choices
  <2> QED BY <1>6, <1>7, <1>8, <2>1 DEF Live
<1>10. BuildInv'
  BY <1>6, <1>7, <1>8, <1>9 DEF BuildInv
<1>11. /\ \A d \in deleted' : \E e \in Live' : Contained(e, d)
       /\ \A d, e \in Live' : d # {} /\ Contained(d, e) => d = e
  BY <1>1, <1>2 DEF ClosureInv
<1> QED BY <1>1, <1>5, <1>10, <1>11 DEF ClosureInv

(***************************************************************************)
(* The steps within buildExclusion                                         *)
(***************************************************************************)
LEMMA QuietClosure ==
  ASSUME ClosureInv, pc = "build", BuildInv',
         UNCHANGED <<pc, excls, deleted, worklist, param>>
  PROVE  ClosureInv'
<1>1. Live' = Live /\ Waiting' = Waiting
  BY DEF Live, Waiting
<1>2. /\ \A d \in deleted' : \E e \in Live' : Contained(e, d)
      /\ \A d, e \in Live' : d # {} /\ Contained(d, e) => d = e
      /\ \A p \in Param \ Waiting' : p # param' => Settled(p, Live', excls')
  BY <1>1 DEF ClosureInv
<1> QED BY <1>2 DEF ClosureInv

(* What the activation on top takes next.                                  *)
LEMMA TopTakes ==
  ASSUME TypeOK, DeriveInv, pc = "build", Depth <= ValueCount[param], NEW e \in Top.left
  PROVE  /\ Depth - 1 \in Values(param)
         /\ <<param, Depth - 1>> \in e /\ e \in excls
<1>1. Depth \in Nat \ {0} /\ ValueCount[param] \in Nat \ {0}
  BY BuildShape
<1>2. Depth - 1 \in Values(param)
  BY <1>1 DEF Values
<1>3. e \in buckets[Depth - 1]
  BY <1>1 DEF DeriveInv, StackSound, SoundFrame, Top
<1> QED BY <1>2, <1>3 DEF DeriveInv, BucketsSound

(* Whoever is ahead stays ahead when e is taken off the bucket, unless e   *)
(* is what it takes of the bucket.                                         *)
LEMMA StaysAhead ==
  ASSUME TypeOK, pc = "build", Depth <= ValueCount[param], NEW e \in Top.left,
         NEW f, Ahead(f),
         NEW next \in Seq(Frame), Len(next) >= Depth,
         \A i \in 1 .. Depth : next[i] = Advanced(e)[i]
  PROVE  \/ \E i \in 1 .. Len(next) :
              /\ next[i].built \subseteq ImpliedBy(param, f)
              /\ i <= ValueCount[param] => f[i - 1] \in next[i].left
         \/ f[Depth - 1] = e /\ Top.built \subseteq ImpliedBy(param, f)
<1>1. /\ Depth \in Nat \ {0} /\ ValueCount[param] \in Nat \ {0}
      /\ stack \in Seq(Frame) /\ Top = stack[Depth]
  BY BuildShape DEF Top
<1>2. /\ Advanced(e) \in Seq(Frame) /\ Len(Advanced(e)) = Depth
      /\ \A i \in 1 .. Depth - 1 : Advanced(e)[i] = stack[i]
      /\ Advanced(e)[Depth].built = Top.built
  BY AdvancedShape
<1>3. Advanced(e)[Depth].left = Top.left \ {e}
  <2> DEFINE g == Activation(Top.built, Top.left \ {e})
  <2>1. Top.built \in SUBSET Term /\ Top.left \ {e} \in SUBSET SUBSET Term
    BY BuildShape
  <2>2. g \in Frame /\ g.left = Top.left \ {e}
    BY <2>1, ActivationShape
  <2>3. Caller \in Seq(Frame) /\ Len(Caller) + 1 = Depth
    BY <1>1, BuildShape, CallerShape
  <2>4. Advanced(e) = Append(Caller, g)
    BY DEF Advanced
  <2> HIDE DEF g
  <2> QED BY <2>2, <2>3, <2>4, AppendShape
<1>4. PICK i \in 1 .. Depth :
        /\ stack[i].built \subseteq ImpliedBy(param, f)
        /\ i <= ValueCount[param] => f[i - 1] \in stack[i].left
  BY DEF Ahead
<1>5. i \in 1 .. Len(next)
  BY <1>1
<1>6. CASE i # Depth
  <2>1. next[i] = stack[i]
    BY <1>1, <1>2, <1>6
  <2> QED BY <1>4, <1>5, <2>1
<1>7. CASE i = Depth
  <2>1. next[Depth].built = Top.built /\ next[Depth].left = Top.left \ {e}
    BY <1>1, <1>2, <1>3
  <2>2. stack[i] = Top /\ f[Depth - 1] \in Top.left
    BY <1>1, <1>4, <1>7
  <2>3. CASE f[Depth - 1] = e
    BY <1>4, <2>2, <2>3
  <2>4. CASE f[Depth - 1] # e
    BY <1>4, <1>5, <1>7, <2>1, <2>2, <2>4
  <2> QED BY <2>3, <2>4
<1> QED BY <1>6, <1>7

LEMMA SkipExclusionClosure ==
  TypeOK /\ DeriveInv /\ ClosureInv /\ SkipExclusion => ClosureInv'
<1> SUFFICES ASSUME TypeOK, DeriveInv, ClosureInv, SkipExclusion PROVE ClosureInv'
  OBVIOUS
<1>1. /\ pc = "build" /\ Depth <= ValueCount[param] /\ BuildInv
      /\ UNCHANGED <<pc, given, excls, deleted, linked, worklist, param, buckets>>
  BY DEF SkipExclusion, InBucket, ClosureInv
<1>2. PICK e \in Top.left : Useless(e) /\ stack' = Advanced(e)
  BY DEF SkipExclusion
<1>3. Depth \in Nat \ {0} /\ ValueCount[param] \in Nat \ {0}
  BY <1>1, BuildShape
<1>4. /\ Advanced(e) \in Seq(Frame) /\ Len(Advanced(e)) = Depth /\ Depth' = Depth
      /\ \A i \in 1 .. Depth - 1 : Advanced(e)[i] = stack[i]
      /\ Advanced(e)[Depth].built = Top.built
  BY <1>1, <1>2, AdvancedShape DEF Depth
<1>5. \A i \in 1 .. Depth' : \A t \in stack'[i].built : t[1] # param'
  BY <1>1, <1>2, <1>3, <1>4 DEF BuildInv, Top
<1>6. ASSUME NEW f \in Choices(param, Live), Consistent(ImpliedBy(param, f))
      PROVE  ViolatesAny(ImpliedBy(param, f), excls) \/ Ahead(f)'
  <2>1. CASE ViolatesAny(ImpliedBy(param, f), excls)
    BY <2>1
  <2>2. CASE Ahead(f)
    <3>1. CASE \E i \in 1 .. Depth' :
                 /\ stack'[i].built \subseteq ImpliedBy(param, f)
                 /\ i <= ValueCount[param] => f[i - 1] \in stack'[i].left
      BY <1>1, <3>1 DEF Ahead
    <3>2. CASE f[Depth - 1] = e /\ Top.built \subseteq ImpliedBy(param, f)
      <4>1. Depth - 1 \in Values(param)
        BY <1>1, TopTakes
      <4>2. e \notin deleted
        BY <3>2, <4>1 DEF Choices, Live
      <4>3. { t \in e : t[1] # param } \subseteq ImpliedBy(param, f)
        BY <3>2, <4>1 DEF ImpliedBy
      <4>4. Merged(e) \subseteq ImpliedBy(param, f)
        BY <3>2, <4>3 DEF Merged
      <4>5. ConsistentWith(Top.built, e)
        BY <1>6, <4>4 DEF ConsistentWith, Merged, Consistent
      <4>6. AlreadyInCollection(Merged(e), excls)
        BY <1>2, <4>2, <4>5 DEF Useless
      <4> QED BY <4>4, <4>6 DEF AlreadyInCollection, ViolatesAny, Contained
    <3>3. Len(stack') >= Depth /\ Depth' = Len(stack')
      BY <1>2, <1>3, <1>4 DEF Depth
    <3> QED BY <1>1, <1>2, <1>4, <2>2, <3>1, <3>2, <3>3, StaysAhead
  <2> QED BY <1>1, <1>6, <2>1, <2>2 DEF BuildInv
<1>7. BuildInv'
  <2>1. Live' = Live
    BY <1>1 DEF Live
  <2>2. ~ (Depth' > ValueCount[param'])
    BY <1>1, <1>3, <1>4
  <2>3. \A v \in Values(param') : \A d \in excls' : <<param', v>> \in d => d \in buckets'[v]
    BY <1>1 DEF BuildInv
  <2>4. \A f \in Choices(param', Live') :
          Consistent(ImpliedBy(param', f)) => ViolatesAny(ImpliedBy(param', f), excls') \/ Ahead(f)'
    BY <1>1, <1>6, <2>1
  <2> QED BY <1>5, <2>2, <2>3, <2>4 DEF BuildInv
<1> QED BY <1>1, <1>7, QuietClosure

LEMMA MergeExclusionClosure ==
  TypeOK /\ DeriveInv /\ ClosureInv /\ MergeExclusion => ClosureInv'
<1> SUFFICES ASSUME TypeOK, DeriveInv, ClosureInv, MergeExclusion PROVE ClosureInv'
  OBVIOUS
<1>1. /\ pc = "build" /\ Depth <= ValueCount[param] /\ BuildInv
      /\ UNCHANGED <<pc, given, excls, deleted, linked, worklist, param, buckets>>
  BY DEF MergeExclusion, InBucket, ClosureInv
<1>2. Depth \in Nat \ {0} /\ ValueCount[param] \in Nat \ {0}
  BY <1>1, BuildShape
<1> DEFINE next == IF Depth < ValueCount[param] THEN buckets[Depth] ELSE {}
<1>3. PICK e \in Top.left :
        ~ Useless(e) /\ stack' = Append(Advanced(e), Activation(Merged(e), next))
  BY DEF MergeExclusion
<1>4. PICK f0 \in Frame : f0 = Activation(Merged(e), next) /\ f0.built = Merged(e) /\ f0.left = next
  <2>1. next \in SUBSET SUBSET Term
    <3>1. Depth < ValueCount[param] => Depth \in Values(param)
      BY <1>2 DEF Values
    <3> QED BY <1>1, <3>1 DEF TypeOK
  <2>2. Merged(e) \in SUBSET Term
    BY <1>1, AdvancedShape
  <2> HIDE DEF next
  <2> QED BY <2>1, <2>2, ActivationShape
<1>5. /\ Advanced(e) \in Seq(Frame) /\ Len(Advanced(e)) = Depth
      /\ \A i \in 1 .. Depth - 1 : Advanced(e)[i] = stack[i]
      /\ Advanced(e)[Depth].built = Top.built
  BY <1>1, AdvancedShape
<1>6. /\ stack' \in Seq(Frame) /\ Len(stack') = Depth + 1 /\ Depth' = Depth + 1
      /\ \A i \in 1 .. Depth : stack'[i] = Advanced(e)[i]
      /\ stack'[Depth + 1] = f0
  BY <1>3, <1>4, <1>5, AppendShape DEF Depth
<1>7. \A i \in 1 .. Depth' : \A t \in stack'[i].built : t[1] # param'
  <2>1. \A i \in 1 .. Depth : \A t \in stack'[i].built : t[1] # param
    BY <1>1, <1>2, <1>5, <1>6 DEF BuildInv, Top
  <2>2. \A t \in Merged(e) : t[1] # param
    BY <1>1, <1>2 DEF BuildInv, Merged, Top
  <2>3. \A i \in 1 .. Depth' : i \in 1 .. Depth \/ i = Depth + 1
    BY <1>2, <1>6
  <2> QED BY <1>1, <1>4, <1>6, <2>1, <2>2, <2>3
<1>8. ASSUME NEW f \in Choices(param, Live), Consistent(ImpliedBy(param, f))
      PROVE  ViolatesAny(ImpliedBy(param, f), excls) \/ Ahead(f)'
  <2>1. CASE ViolatesAny(ImpliedBy(param, f), excls)
    BY <2>1
  <2>2. CASE Ahead(f)
    <3>1. CASE \E i \in 1 .. Depth' :
                 /\ stack'[i].built \subseteq ImpliedBy(param, f)
                 /\ i <= ValueCount[param] => f[i - 1] \in stack'[i].left
      BY <1>1, <3>1 DEF Ahead
    <3>2. CASE f[Depth - 1] = e /\ Top.built \subseteq ImpliedBy(param, f)
      <4>1. Depth - 1 \in Values(param)
        BY <1>1, TopTakes
      <4>2. { t \in e : t[1] # param } \subseteq ImpliedBy(param, f)
        BY <3>2, <4>1 DEF ImpliedBy
      <4>3. stack'[Depth + 1].built \subseteq ImpliedBy(param, f)
        BY <1>4, <1>6, <3>2, <4>2 DEF Merged
      <4>4. ASSUME Depth + 1 <= ValueCount[param]
            PROVE  f[(Depth + 1) - 1] \in stack'[Depth + 1].left
        <5>1. Depth \in Values(param) /\ Depth < ValueCount[param] /\ (Depth + 1) - 1 = Depth
          BY <1>2, <4>4 DEF Values
        <5>2. f[Depth] \in Live /\ <<param, Depth>> \in f[Depth]
          BY <5>1 DEF Choices
        <5>3. f[Depth] \in buckets[Depth]
          BY <1>1, <5>1, <5>2 DEF BuildInv, Live
        <5> QED BY <1>4, <1>6, <5>1, <5>3
      <4>5. Depth + 1 \in 1 .. Depth'
        BY <1>2, <1>6
      <4> QED BY <1>1, <4>3, <4>4, <4>5 DEF Ahead
    <3>3. Len(stack') >= Depth /\ Depth' = Len(stack')
      BY <1>2, <1>6
    <3> QED BY <1>1, <1>6, <2>2, <3>1, <3>2, <3>3, StaysAhead
  <2> QED BY <1>1, <1>8, <2>1, <2>2 DEF BuildInv
<1>9. BuildInv'
  <2>1. Live' = Live
    BY <1>1 DEF Live
  <2>2. ~ AlreadyInCollection(Top.built, excls)'
    <3>1. Top' = f0
      BY <1>6 DEF Top
    <3>2. ~ AlreadyInCollection(Merged(e), excls)
      BY <1>3 DEF Useless
    <3> QED BY <1>1, <1>4, <3>1, <3>2 DEF AlreadyInCollection
  <2>3. \A v \in Values(param') : \A d \in excls' : <<param', v>> \in d => d \in buckets'[v]
    BY <1>1 DEF BuildInv
  <2>4. \A f \in Choices(param', Live') :
          Consistent(ImpliedBy(param', f)) => ViolatesAny(ImpliedBy(param', f), excls') \/ Ahead(f)'
    BY <1>1, <1>8, <2>1
  <2> QED BY <1>7, <2>2, <2>3, <2>4 DEF BuildInv
<1> QED BY <1>1, <1>9, QuietClosure

LEMMA AddImpliedClosure ==
  TypeOK /\ DeriveInv /\ ClosureInv /\ AddImplied => ClosureInv'
<1> SUFFICES ASSUME TypeOK, DeriveInv, ClosureInv, AddImplied PROVE ClosureInv'
  OBVIOUS
<1>1. /\ pc = "build" /\ Depth = ValueCount[param] + 1 /\ stack' = Caller
      /\ UNCHANGED <<pc, given, param, buckets>> /\ BuildInv
      /\ deleted \subseteq excls /\ linked = excls
  BY DEF AddImplied, Complete, ClosureInv, DeriveInv
<1>2. /\ Depth \in Nat \ {0} /\ ValueCount[param] \in Nat \ {0} /\ param \in Param
      /\ Top = stack[Depth] /\ Top.built \subseteq Term
  BY <1>1, BuildShape DEF Top
<1>3. PICK b \in SUBSET Term : b = Top.built
  BY <1>2
<1>4. /\ ~ AlreadyInCollection(b, excls) /\ b \notin excls
      /\ \A t \in b : t[1] # param
  <2>1. ~ AlreadyInCollection(b, excls)
    BY <1>1, <1>2, <1>3 DEF BuildInv
  <2>2. b \notin excls
    BY <2>1 DEF AlreadyInCollection, Contained
  <2>3. \A t \in b : t[1] # param
    BY <1>1, <1>2, <1>3 DEF BuildInv
  <2> QED BY <2>1, <2>2, <2>3
<1>5. /\ excls' = excls \cup {b} /\ linked' = excls'
      /\ deleted' = deleted \cup Obsolete(b)
      /\ \E s \in InSequence(Resolvable(ParamsOf(b), linked') \ Waiting) :
           worklist' = worklist \o s
  BY <1>1, <1>3, <1>4 DEF AddImplied
<1>6. /\ Obsolete(b) \subseteq excls /\ b \notin deleted'
      /\ Live' \subseteq Live \cup {b} /\ b \in Live'
  BY <1>1, <1>4, <1>5 DEF Obsolete, Live
<1>7. ASSUME NEW d \in deleted'
      PROVE  \E e \in Live' : Contained(e, d)
  <2>1. CASE Contained(b, d)
    BY <1>6, <2>1
  <2>2. CASE ~ Contained(b, d)
    <3>1. d \in deleted
      BY <1>5, <1>7, <2>2 DEF Obsolete
    <3>2. PICK e \in Live : Contained(e, d)
      BY <3>1 DEF ClosureInv
    <3>3. e \notin Obsolete(b)
      BY <2>2, <3>2 DEF Obsolete, Contained
    <3>4. e \in Live'
      BY <1>5, <3>2, <3>3 DEF Live
    <3> QED BY <3>2, <3>4
  <2> QED BY <2>1, <2>2
<1>8. ASSUME NEW d \in Live', NEW e \in Live', d # {}, Contained(d, e)
      PROVE  d = e
  <2>1. CASE d \in Live /\ e \in Live
    BY <1>8, <2>1 DEF ClosureInv
  <2>2. CASE e = b
    <3>1. d \notin excls
      BY <1>4, <1>8, <2>2 DEF AlreadyInCollection
    <3> QED BY <1>6, <2>2, <3>1 DEF Live
  <2>3. CASE d = b /\ e # b
    <3>1. e \in excls
      BY <1>6, <2>3 DEF Live
    <3>2. e \in Obsolete(b)
      BY <1>8, <2>3, <3>1 DEF Obsolete
    <3> QED BY <1>5, <3>2 DEF Live
  <2> QED BY <1>6, <2>1, <2>2, <2>3
<1>9. Waiting \subseteq Waiting' /\ Resolvable(ParamsOf(b), linked') \subseteq Waiting'
  <2>1. PICK s \in InSequence(Resolvable(ParamsOf(b), linked') \ Waiting) :
          worklist' = worklist \o s
    BY <1>5
  <2>2. Resolvable(ParamsOf(b), linked') \ Waiting \in SUBSET Param
    BY TermShape DEF Resolvable, ParamsOf
  <2>3. /\ s \in Seq(Param) /\ worklist \in Seq(Param)
        /\ \A p \in Resolvable(ParamsOf(b), linked') \ Waiting : \E i \in DOMAIN s : s[i] = p
    BY <2>2, InSequenceShape, InSequenceAll DEF TypeOK
  <2>4. /\ \A i \in DOMAIN worklist : i \in DOMAIN worklist' /\ worklist'[i] = worklist[i]
        /\ \A i \in DOMAIN s : /\ Len(worklist) + i \in DOMAIN worklist'
                               /\ worklist'[Len(worklist) + i] = s[i]
    BY <2>1, <2>3, ConcatMembers
  <2>5. Waiting \subseteq Waiting'
    BY <2>4 DEF Waiting
  <2>6. Resolvable(ParamsOf(b), linked') \ Waiting \subseteq Waiting'
    BY <2>3, <2>4 DEF Waiting
  <2> QED BY <2>5, <2>6
<1>10. ASSUME NEW p \in Param, p \notin Waiting', p # param'
       PROVE  Settled(p, Live', excls')
  <2>1. Settled(p, Live, excls)
    BY <1>1, <1>9, <1>10 DEF ClosureInv
  <2>2. CASE p \in ParamsOf(b)
    <3>1. ~ (ExclusionCount(p, excls') >= ValueCount[p])
      BY <1>5, <1>9, <1>10, <2>2 DEF Resolvable
    <3>2. \A e \in excls' : Consistent(e)
      <4>1. Consistent(b)
        BY <1>1, <1>2, <1>3 DEF DeriveInv, StackSound, SoundFrame
      <4> QED BY <1>1, <1>5, <4>1 DEF DeriveInv, ExclsSound
    <3>3. excls' \in SUBSET SUBSET Term
      BY <1>5 DEF TypeOK
    <3>4. Choices(p, excls') = {}
      BY <3>1, <3>2, <3>3, TooFewToChoose
    <3>5. Settled(p, excls', excls')
      BY <3>4 DEF Settled
    <3> QED BY <3>5, FewerChoices DEF Live
  <2>3. CASE p \notin ParamsOf(b)
    <3> SUFFICES ASSUME NEW f \in Choices(p, Live'), Consistent(ImpliedBy(p, f))
                 PROVE  ViolatesAny(ImpliedBy(p, f), excls')
      BY DEF Settled
    <3>1. \A v \in Values(p) : <<p, v>> \notin b
      BY <2>3 DEF ParamsOf
    <3>2. f \in Choices(p, Live)
      BY <1>6, <3>1, ChoicesWithout
    <3>3. ViolatesAny(ImpliedBy(p, f), excls)
      BY <2>1, <3>2 DEF Settled
    <3> QED BY <1>5, <3>3 DEF ViolatesAny
  <2> QED BY <2>2, <2>3
<1>11. BuildInv'
  <2>1. /\ stack' \in Seq(Frame) /\ Depth' = Depth - 1
        /\ \A i \in 1 .. Depth - 1 : stack'[i] = stack[i]
    <3>1. stack \in Seq(Frame) /\ stack # <<>>
      BY <1>1, BuildShape
    <3> QED BY <1>1, <3>1, CallerShape DEF Depth
  <2>2. \A i \in 1 .. Depth' : \A t \in stack'[i].built : t[1] # param'
    BY <1>1, <1>2, <2>1 DEF BuildInv
  <2>3. \A v \in Values(param') : \A e \in excls' : <<param', v>> \in e => e \in buckets'[v]
    <3>1. \A v \in Values(param) : <<param, v>> \notin b
      BY <1>4
    <3> QED BY <1>1, <1>5, <3>1 DEF BuildInv
  <2>4. ~ (Depth' > ValueCount[param'])
    BY <1>1, <1>2, <2>1
  <2>5. ASSUME NEW f \in Choices(param, Live'), Consistent(ImpliedBy(param, f))
        PROVE  ViolatesAny(ImpliedBy(param, f), excls') \/ Ahead(f)'
    <3>1. \A v \in Values(param) : <<param, v>> \notin b
      BY <1>4
    <3>2. f \in Choices(param, Live)
      BY <1>6, <3>1, ChoicesWithout
    <3>3. CASE ViolatesAny(ImpliedBy(param, f), excls)
      BY <1>5, <3>3 DEF ViolatesAny
    <3>4. CASE Ahead(f)
      <4>1. PICK i \in 1 .. Depth :
              /\ stack[i].built \subseteq ImpliedBy(param, f)
              /\ i <= ValueCount[param] => f[i - 1] \in stack[i].left
        BY <3>4 DEF Ahead
      <4>2. CASE i = Depth
        BY <1>2, <1>3, <1>5, <4>1, <4>2 DEF ViolatesAny, Contained
      <4>3. CASE i # Depth
        <5>1. i \in 1 .. Depth' /\ stack'[i] = stack[i]
          BY <1>2, <2>1, <4>3
        <5> QED BY <1>1, <4>1, <5>1 DEF Ahead
      <4> QED BY <4>2, <4>3
    <3> QED BY <1>1, <2>5, <3>2, <3>3, <3>4 DEF BuildInv
  <2> QED BY <1>1, <2>2, <2>3, <2>4, <2>5 DEF BuildInv
<1> QED BY <1>1, <1>7, <1>8, <1>10, <1>11 DEF ClosureInv

LEMMA ReturnClosure == TypeOK /\ DeriveInv /\ ClosureInv /\ Return => ClosureInv'
<1> SUFFICES ASSUME TypeOK, DeriveInv, ClosureInv, Return PROVE ClosureInv'
  OBVIOUS
<1>1. /\ pc = "build" /\ Depth <= ValueCount[param] /\ Top.left = {} /\ stack' = Caller
      /\ UNCHANGED <<pc, given, excls, deleted, linked, worklist, param, buckets>>
      /\ BuildInv
  BY DEF Return, InBucket, ClosureInv
<1>2. /\ Depth \in Nat \ {0} /\ ValueCount[param] \in Nat \ {0}
      /\ Top = stack[Depth] /\ stack \in Seq(Frame) /\ stack # <<>>
  BY <1>1, BuildShape DEF Top
<1>3. /\ Depth' = Depth - 1 /\ \A i \in 1 .. Depth - 1 : stack'[i] = stack[i]
  BY <1>1, <1>2, CallerShape DEF Depth
<1>4. \A i \in 1 .. Depth' : \A t \in stack'[i].built : t[1] # param'
  BY <1>1, <1>2, <1>3 DEF BuildInv
<1>5. ASSUME NEW f \in Choices(param, Live), Ahead(f)
      PROVE  Ahead(f)'
  <2>1. PICK i \in 1 .. Depth :
          /\ stack[i].built \subseteq ImpliedBy(param, f)
          /\ i <= ValueCount[param] => f[i - 1] \in stack[i].left
    BY <1>5 DEF Ahead
  <2>2. i # Depth
    BY <1>1, <1>2, <2>1
  <2>3. i \in 1 .. Depth' /\ stack'[i] = stack[i]
    BY <1>2, <1>3, <2>2
  <2> QED BY <1>1, <2>1, <2>3 DEF Ahead
<1>6. BuildInv'
  <2>1. Live' = Live
    BY <1>1 DEF Live
  <2>2. ~ (Depth' > ValueCount[param'])
    BY <1>1, <1>2, <1>3
  <2>3. \A v \in Values(param') : \A e \in excls' : <<param', v>> \in e => e \in buckets'[v]
    BY <1>1 DEF BuildInv
  <2>4. \A f \in Choices(param', Live') :
          Consistent(ImpliedBy(param', f)) => ViolatesAny(ImpliedBy(param', f), excls') \/ Ahead(f)'
    BY <1>1, <1>5, <2>1 DEF BuildInv
  <2> QED BY <1>4, <2>2, <2>3, <2>4 DEF BuildInv
<1> QED BY <1>1, <1>6, QuietClosure

(* The outermost activation has taken its whole bucket: nothing is ahead,  *)
(* so that the parameter is settled; and erasing what is obsolete settles  *)
(* no less.                                                                *)
LEMMA EndParamClosure == TypeOK /\ DeriveInv /\ ClosureInv /\ EndParam => ClosureInv'
<1> SUFFICES ASSUME TypeOK, DeriveInv, ClosureInv, EndParam PROVE ClosureInv'
  OBVIOUS
<1>1. /\ pc = "build" /\ pc' = "loop" /\ Depth = 1 /\ Top.left = {} /\ BuildInv
      /\ excls' = excls \ deleted /\ deleted' = {} /\ UNCHANGED <<worklist, param>>
      /\ 1 <= ValueCount[param] /\ Top = stack[1]
  BY DEF EndParam, InBucket, ClosureInv, Top
<1>2. Live' = Live /\ excls' = Live /\ Waiting' = Waiting
  BY <1>1 DEF Live, Waiting
<1>3. \A f : ~ Ahead(f)
  BY <1>1 DEF Ahead
<1>4. Settled(param, Live, excls)
  BY <1>1, <1>3 DEF BuildInv, Settled
<1>5. \A x : ViolatesAny(x, excls) => ViolatesAny(x, Live)
  BY DEF ViolatesAny, ClosureInv, Live, Contained
<1>6. \A p \in Param \ Waiting : Settled(p, Live, excls)
  BY <1>1, <1>4 DEF ClosureInv
<1>7. \A p \in Param \ Waiting' : Settled(p, Live', excls')
  BY <1>2, <1>5, <1>6 DEF Settled
<1>8. \A d, e \in Live' : d # {} /\ Contained(d, e) => d = e
  BY <1>2 DEF ClosureInv
<1> QED BY <1>1, <1>7, <1>8 DEF ClosureInv

LEMMA OuterClosure ==
  DeriveInv /\ ClosureInv /\ (Finish \/ Cancel \/ UNCHANGED vars) => ClosureInv'
<1> SUFFICES ASSUME DeriveInv, ClosureInv, Finish \/ Cancel \/ UNCHANGED vars
             PROVE  ClosureInv'
  OBVIOUS
<1>1. Live' = Live /\ Waiting' = Waiting /\ UNCHANGED <<excls, deleted, worklist, param>>
  BY DEF Finish, Cancel, vars, Live, Waiting
<1>2. /\ \A d \in deleted' : \E e \in Live' : Contained(e, d)
      /\ \A d, e \in Live' : d # {} /\ Contained(d, e) => d = e
  BY <1>1 DEF ClosureInv
<1>3. CASE Finish
  <2>1. pc = "loop" /\ pc' = "done" /\ worklist' = <<>> /\ deleted' = {}
    BY <1>3 DEF Finish, DeriveInv
  <2>2. \A p \in Param \ Waiting' : Settled(p, Live', excls')
    BY <1>1, <2>1 DEF ClosureInv
  <2> QED BY <1>2, <2>1, <2>2 DEF ClosureInv
<1>4. CASE Cancel
  BY <1>2, <1>4 DEF Cancel, ClosureInv
<1>5. CASE UNCHANGED vars
  <2>1. pc' = pc /\ (pc = "build" => BuildInv')
    BY <1>5 DEF vars, ClosureInv, BuildInv, Ahead, Live, Depth, Top
  <2> QED BY <1>1, <1>2, <2>1 DEF ClosureInv
<1> QED BY <1>3, <1>4, <1>5

LEMMA InitClosure == Init => ClosureInv
BY DEF Init, ClosureInv, Live

LEMMA ClosureStep == TypeOK /\ DeriveInv /\ ClosureInv /\ [Next]_vars => ClosureInv'
BY LoadClosure, SkipParamClosure, StartParamClosure, SkipExclusionClosure,
   MergeExclusionClosure, AddImpliedClosure, ReturnClosure, EndParamClosure,
   OuterClosure DEF Next, Step

LEMMA DerivedHolds == Spec => [](TypeOK /\ DeriveInv /\ ClosureInv)
BY InitType, TypeStep, InitDerive, DeriveStep, InitClosure, ClosureStep, PTL DEF Spec

-----------------------------------------------------------------------------
(***************************************************************************)
(* Between two parameters, what can be resolved upon one that is not       *)
(* waiting is in the collection, or something broader is (deriver.cpp:235- *)
(* 243, 303-310): counting exclusions and values is enough to decide who   *)
(* has to be looked at, for every model and every set of exclusions.       *)
(***************************************************************************)
THEOREM NobodyIsForgotten == Spec => []WaitingOrSaturated
<1>1. DeriveInv /\ ClosureInv => WaitingOrSaturated
  <2> SUFFICES ASSUME DeriveInv, ClosureInv, pc \in {"loop", "done"},
                      NEW p \in Param \ Waiting,
                      NEW f \in [Values(p) -> excls],
                      \A v \in Values(p) : <<p, v>> \in f[v],
                      Consistent(ImpliedBy(p, f))
               PROVE  ViolatesAny(ImpliedBy(p, f), excls)
    BY DEF WaitingOrSaturated, Saturated, ImpliedBy
  <2>1. Live = excls
    BY DEF DeriveInv, ClosureInv, Live
  <2>2. Settled(p, excls, excls)
    BY <2>1 DEF ClosureInv
  <2>3. f \in Choices(p, excls)
    BY DEF Choices
  <2> QED BY <2>2, <2>3 DEF Settled
<1> QED BY <1>1, DerivedHolds, PTL

LEMMA SettledIsClosed ==
  ASSUME NEW E \in SUBSET SUBSET Term, \A p \in Param : Settled(p, E, E)
  PROVE  Closed(E)
<1> SUFFICES ASSUME NEW a \in Partials, ~ ViolatesAny(a, E),
                    NEW p \in Param \ ParamsOf(a),
                    \A v \in Values(p) : ViolatesAny(a \cup {<<p, v>>}, E)
             PROVE  FALSE
  BY DEF Closed
<1> DEFINE f == [v \in Values(p) |-> CHOOSE e \in E : Contained(e, a \cup {<<p, v>>})]
<1>1. \A v \in Values(p) : f[v] \in E /\ Contained(f[v], a \cup {<<p, v>>})
  BY DEF ViolatesAny
<1>2. \A v \in Values(p) : <<p, v>> \in f[v]
  <2> SUFFICES ASSUME NEW v \in Values(p), <<p, v>> \notin f[v] PROVE FALSE
    OBVIOUS
  <2>1. f[v] \in E /\ Contained(f[v], a \cup {<<p, v>>})
    BY <1>1
  <2> HIDE DEF f
  <2>2. Contained(f[v], a)
    BY <2>1 DEF Contained
  <2> QED BY <2>1, <2>2 DEF ViolatesAny
<1>3. f \in [Values(p) -> E]
  BY <1>1
<1> HIDE DEF f
<1>4. f \in Choices(p, E)
  BY <1>2, <1>3 DEF Choices
<1>5. ImpliedBy(p, f) \subseteq a
  BY <1>1 DEF ImpliedBy, Contained
<1>6. Consistent(ImpliedBy(p, f))
  BY <1>5, PartialsAre DEF Consistent
<1>7. ViolatesAny(ImpliedBy(p, f), E)
  BY <1>4, <1>6 DEF Settled
<1> QED BY <1>5, <1>7 DEF ViolatesAny, Contained

LEMMA DoneIsClosed == TypeOK /\ DeriveInv /\ ClosureInv => ClosedWhenDone
<1> SUFFICES ASSUME TypeOK, DeriveInv, ClosureInv, pc = "done" PROVE Closed(excls)
  BY DEF ClosedWhenDone
<1>1. Live = excls /\ Waiting = {}
  BY DEF ClosureInv, Live, Waiting
<1>2. \A p \in Param : Settled(p, excls, excls)
  BY <1>1 DEF ClosureInv
<1>3. excls \in SUBSET SUBSET Term
  BY DEF TypeOK
<1> QED BY <1>2, <1>3, SettledIsClosed

(***************************************************************************)
(* What derivation leaves is closed: an assignment that violates no        *)
(* exclusion can be completed.  This is the assumption under which         *)
(* Model::gcd is safe to pick values one by one (task.cpp:100-169).        *)
(***************************************************************************)
THEOREM DerivedSetsAreClosed == Spec => []ClosedWhenDone
BY DoneIsClosed, DerivedHolds, PTL

(***************************************************************************)
(* Derivation ends with the minimal exclusions, that is, with the least    *)
(* closed set of the same meaning; or with the empty exclusion, if no row  *)
(* is valid.                                                               *)
(***************************************************************************)
THEOREM DerivationReachesClosure == Spec => []ClosureReached
<1>1. TypeOK /\ DeriveInv /\ ClosureInv => ClosureReached
  <2> SUFFICES ASSUME TypeOK, DeriveInv, ClosureInv, pc = "done"
               PROVE  IF ValidRows(given) = {} THEN {} \in excls ELSE excls = ClosureOf(given)
    BY DEF ClosureReached
  <2>1. /\ Closed(excls) /\ Live = excls /\ deleted = {}
        /\ excls \in SUBSET SUBSET Term
    BY DoneIsClosed DEF ClosedWhenDone, ClosureInv, Live, TypeOK
  <2>2. \A e \in excls : Consistent(e) /\ Implied(e) /\ e \in Partials
    BY <2>1, PartialsAre DEF DeriveInv, ExclsSound
  <2>3. \A r \in Rows : ViolatesAny(r, given) <=> ViolatesAny(r, excls)
    BY <2>1, <2>2 DEF DeriveInv, ExclsSound, Implied, ViolatesAny
  <2>4. \A a \in Partials : ~ ViolatesAny(a, excls) =>
          \E r \in ValidRows(given) : Contained(a, r)
    BY <2>1, <2>3, Completable DEF ValidRows
  <2>5. CASE ValidRows(given) = {}
    <3>1. {} \in Partials
      BY PartialsAre DEF Consistent
    <3>2. PICK e \in excls : Contained(e, {})
      BY <2>4, <2>5, <3>1 DEF ViolatesAny
    <3>3. e = {}
      BY <3>2 DEF Contained
    <3> QED BY <2>5, <3>2, <3>3
  <2>6. CASE ValidRows(given) # {}
    <3>1. {} \notin excls
      BY <2>3, <2>6 DEF ValidRows, ViolatesAny, Contained
    <3>2. \A d, e \in excls : Contained(d, e) => d = e
      BY <2>1, <3>1 DEF ClosureInv
    <3> DEFINE valid == { r \in Rows : ~ ViolatesAny(r, given) }
               dead  == { a \in Partials : \A r \in valid : ~ Contained(a, r) }
    <3>3. valid = ValidRows(given)
      BY DEF ValidRows
    <3>4. \A e \in excls : e \in dead
      BY <2>2, <2>3 DEF ViolatesAny
    <3>5. \A a \in dead : \E e \in excls : Contained(e, a)
      BY <2>4, <3>3 DEF ViolatesAny
    <3>6. ClosureOf(given) = { a \in dead : \A b \in dead : Contained(b, a) => b = a }
      BY DEF ClosureOf
    <3> HIDE DEF valid, dead
    <3>7. ASSUME NEW e \in excls
          PROVE  e \in ClosureOf(given)
      <4> SUFFICES ASSUME NEW b \in dead, Contained(b, e) PROVE b = e
        BY <3>4, <3>6
      <4>1. PICK d \in excls : Contained(d, b)
        BY <3>5
      <4>2. d = e
        BY <3>2, <4>1 DEF Contained
      <4> QED BY <4>1, <4>2 DEF Contained
    <3>8. ASSUME NEW a \in ClosureOf(given)
          PROVE  a \in excls
      <4>1. PICK e \in excls : Contained(e, a)
        BY <3>5, <3>6
      <4>2. e = a
        BY <3>4, <3>6, <4>1
      <4> QED BY <4>2
    <3>9. excls = ClosureOf(given)
      BY <3>7, <3>8
    <3> QED BY <2>6, <3>9
  <2> QED BY <2>5, <2>6
<1> QED BY <1>1, DerivedHolds, PTL

=============================================================================
