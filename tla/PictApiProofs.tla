--------------------------- MODULE PictApiProofs ----------------------------
(***************************************************************************)
(* Theorems about PictApi, for every program of a client: whatever tree it *)
(* sets up, no row it is given contains an exclusion that all its models   *)
(* obey (at one order, or at orders one and two a pair), and each row is   *)
(* fetched once.                                                           *)
(***************************************************************************)
EXTENDS PictApi, ModelTreeProofs

-----------------------------------------------------------------------------
(* The tree a client sets up *)

Models  == DOMAIN program.params
Kids(m) == { l.child : l \in { k \in program.links : k.parent = m } }

ClosedDown(C) == \A n \in C : Kids(n) \subseteq C

(* The model and all below it, and the parameters of these.                *)
Below(m) == { n \in Models : \A C \in SUBSET Models : m \in C /\ ClosedDown(C) => n \in C }
Owned(m) == UNION { OwnParams(n) : n \in Below(m) }

LEMMA ProgramFacts ==
  ASSUME program \in Programs
  PROVE  /\ IsFiniteSet(Models) /\ Models \subseteq Nat
         /\ \A m \in Models : \A c \in Kids(m) : c \in Models /\ m < c
         /\ \A m, n, c \in Models : c \in Kids(m) /\ c \in Kids(n) => m = n
         /\ \A m \in Models : /\ program.params[m] \in Seq([valueCount : Nat, order : Int])
                              /\ Len(program.params[m]) < PerModel /\ PerModel * (m + 1) <= PseudoBase
<1>1. \A l \in program.links : /\ l.parent \in Models /\ l.child \in Models
                               /\ l.parent < l.child
  BY ProgramAssumption DEF Models
<1>2. \A k, l \in program.links : k.child = l.child => k = l
  BY ProgramAssumption
<1>3. \A m \in Models : \A c \in Kids(m) : c \in Models /\ m < c
  BY <1>1 DEF Kids
<1>4. ASSUME NEW m \in Models, NEW n \in Models, NEW c \in Models, c \in Kids(m), c \in Kids(n)
      PROVE  m = n
  <2>1. PICK k \in program.links : k.parent = m /\ k.child = c
    BY <1>4 DEF Kids
  <2>2. PICK l \in program.links : l.parent = n /\ l.child = c
    BY <1>4 DEF Kids
  <2> QED BY <1>2, <2>1, <2>2
<1>5. IsFiniteSet(Models) /\ Models \subseteq Nat
  BY ProgramAssumption DEF Models
<1>6. \A m \in Models : /\ program.params[m] \in Seq([valueCount : Nat, order : Int])
                        /\ Len(program.params[m]) < PerModel /\ PerModel * (m + 1) <= PseudoBase
  BY ProgramAssumption DEF Models
<1> QED BY <1>3, <1>4, <1>5, <1>6

(* Numbers tell parameters apart.                                          *)
LEMMA OwnApart ==
  ASSUME program \in Programs
  PROVE  /\ \A m \in Models : \A p \in OwnParams(m) : p \in Int /\ p < PseudoBase
         /\ \A m, n \in Models : \A p \in OwnParams(m) : p \in OwnParams(n) => m = n
<1>1. /\ Models \subseteq Nat /\ PseudoBase \in Nat /\ PerModel \in Nat
      /\ \A m \in Models : /\ DOMAIN program.params[m] = 1 .. Len(program.params[m])
                           /\ Len(program.params[m]) \in Nat
                           /\ Len(program.params[m]) < PerModel
                           /\ PerModel * (m + 1) <= PseudoBase
  BY ProgramFacts, TreeAssumption, ProgramAssumption
<1> DEFINE from(m) == PerModel * m
           to(m)   == PerModel * (m + 1)
<1>2. ASSUME NEW m \in Nat
      PROVE  from(m) \in Int /\ to(m) \in Int /\ to(m) = from(m) + PerModel
  BY <1>1, <1>2
<1>3. ASSUME NEW m \in Nat, NEW n \in Nat, m < n
      PROVE  to(m) <= from(n)
  <2>1. PICK k \in Nat : n = (m + 1) + k
    BY <1>3
  <2>2. from(n) = to(m) + PerModel * k /\ PerModel * k >= 0
    BY <1>1, <2>1
  <2> QED BY <1>2, <2>1, <2>2, <1>1
<1>4. ASSUME NEW m \in Models, NEW p \in OwnParams(m)
      PROVE  p \in Int /\ p < PseudoBase /\ from(m) < p /\ p < to(m)
  <2>1. PICK i \in 1 .. Len(program.params[m]) : p = from(m) + i
    BY <1>1 DEF OwnParams, ParamOf
  <2>2. m \in Nat /\ from(m) \in Int /\ to(m) = from(m) + PerModel /\ to(m) <= PseudoBase
    BY <1>1, <1>2
  <2> HIDE DEF from, to
  <2> QED BY <1>1, <2>1, <2>2
<1>5. ASSUME NEW m \in Models, NEW n \in Models, NEW p \in OwnParams(m), p \in OwnParams(n)
      PROVE  m = n
  <2>1. p \in Int /\ from(m) < p /\ p < to(m) /\ from(n) < p /\ p < to(n)
    BY <1>4, <1>5
  <2>2. m \in Nat /\ n \in Nat /\ from(m) \in Int /\ to(m) \in Int /\ from(n) \in Int /\ to(n) \in Int
    BY <1>1, <1>2
  <2>3. (m < n => to(m) <= from(n)) /\ (n < m => to(n) <= from(m))
    BY <1>3, <2>2
  <2> HIDE DEF from, to
  <2> QED BY <2>1, <2>2, <2>3
<1> QED BY <1>4, <1>5

LEMMA BelowFacts ==
  ASSUME program \in Programs, NEW m \in Models
  PROVE  /\ Below(m) \subseteq Models /\ m \in Below(m)
         /\ ClosedDown(Below(m)) /\ Kids(m) \subseteq Below(m)
         /\ \A n \in Below(m) : Below(n) \subseteq Below(m) /\ m <= n
         /\ \A n \in Below(m) \ {m} : \E p \in Below(m) : n \in Kids(p)
<1>0. Models \subseteq Nat /\ \A n \in Models : \A c \in Kids(n) : c \in Models /\ n < c
  BY ProgramFacts
<1>1. Below(m) \subseteq Models /\ m \in Below(m)
  BY DEF Below
<1>2. ClosedDown(Below(m))
  <2> SUFFICES ASSUME NEW n \in Below(m), NEW c \in Kids(n) PROVE c \in Below(m)
    BY DEF ClosedDown
  <2>1. c \in Models
    BY <1>0, <1>1
  <2>2. ASSUME NEW C \in SUBSET Models, m \in C, ClosedDown(C)
        PROVE  c \in C
    <3>1. n \in C
      BY <2>2 DEF Below
    <3> QED BY <2>2, <3>1 DEF ClosedDown
  <2> QED BY <2>1, <2>2 DEF Below
<1>3. ASSUME NEW n \in Below(m)
      PROVE  Below(n) \subseteq Below(m)
  <2> SUFFICES ASSUME NEW x \in Below(n) PROVE x \in Below(m)
    OBVIOUS
  <2> QED BY <1>1, <1>2, <1>3 DEF Below
<1>4. ASSUME NEW n \in Below(m)
      PROVE  m <= n
  <2> DEFINE C == { x \in Models : m <= x }
  <2>1. m \in C
    BY <1>0
  <2>2. ClosedDown(C)
    <3> SUFFICES ASSUME NEW x \in C, NEW c \in Kids(x) PROVE c \in C
      BY DEF ClosedDown
    <3>1. x \in Nat /\ m \in Nat /\ m <= x /\ c \in Models /\ c \in Nat /\ x < c
      BY <1>0
    <3> QED BY <3>1
  <2>3. C \in SUBSET Models
    OBVIOUS
  <2>4. n \in C
    <3> HIDE DEF C
    <3> QED BY <2>1, <2>2, <2>3 DEF Below
  <2> QED BY <2>4
<1>5. ASSUME NEW n \in Below(m) \ {m}, ~ \E p \in Below(m) : n \in Kids(p)
      PROVE  FALSE
  <2> DEFINE C == Below(m) \ {n}
  <2>1. m \in C /\ C \in SUBSET Models
    BY <1>1
  <2>2. ClosedDown(C)
    BY <1>2, <1>5 DEF ClosedDown
  <2>3. n \in C
    <3> HIDE DEF C
    <3> QED BY <2>1, <2>2 DEF Below
  <2> QED BY <2>3
<1> QED BY <1>1, <1>2, <1>3, <1>4, <1>5 DEF ClosedDown

LEMMA BelowUnfolds ==
  ASSUME program \in Programs, NEW m \in Models
  PROVE  Below(m) = {m} \cup UNION { Below(c) : c \in Kids(m) }
<1> DEFINE C == {m} \cup UNION { Below(c) : c \in Kids(m) }
<1>1. \A c \in Kids(m) : c \in Models /\ c \in Below(m) /\ Below(c) \subseteq Below(m)
  BY BelowFacts, ProgramFacts
<1>2. C \subseteq Below(m) /\ Below(m) \subseteq Models
  BY <1>1, BelowFacts
<1>3. ClosedDown(C)
  <2> SUFFICES ASSUME NEW n \in C, NEW k \in Kids(n) PROVE k \in C
    BY DEF ClosedDown
  <2>1. CASE n = m
    <3>1. k \in Below(k)
      BY <1>1, <2>1, BelowFacts
    <3> QED BY <2>1, <3>1
  <2>2. CASE n # m
    <3>1. PICK c \in Kids(m) : n \in Below(c)
      BY <2>2
    <3>2. k \in Below(c)
      BY <1>1, <3>1, BelowFacts DEF ClosedDown
    <3> QED BY <3>2
  <2> QED BY <2>1, <2>2
<1>4. Below(m) \subseteq C
  <2> HIDE DEF C
  <2>1. m \in C
    BY DEF C
  <2> QED BY <1>2, <1>3, <2>1 DEF Below
<1> QED BY <1>2, <1>4

(* Nothing is below two children of a model.                               *)
LEMMA SiblingsApart ==
  ASSUME program \in Programs, NEW m \in Models,
         NEW c \in Kids(m), NEW d \in Kids(m), c # d
  PROVE  Below(c) \cap Below(d) = {}
<1>1. /\ IsFiniteSet(Models) /\ Models \subseteq Nat /\ c \in Models /\ d \in Models
      /\ m < c /\ m < d
      /\ \A n, k, x \in Models : x \in Kids(n) /\ x \in Kids(k) => n = k
      /\ \A n \in Models : \A x \in Kids(n) : x \in Models /\ n < x
  BY ProgramFacts
<1> DEFINE T == Below(c) \cap Below(d)
<1>2. T \in SUBSET Models
  BY <1>1, BelowFacts
<1>3. T \in SUBSET Int /\ IsFiniteSet(T)
  <2> HIDE DEF T
  <2>1. IsFiniteSet(T)
    BY <1>1, <1>2, FS_Subset
  <2> QED BY <1>1, <1>2, <2>1
<1> SUFFICES ASSUME T # {} PROVE FALSE
  OBVIOUS
<1>4. PICK x \in T : \A y \in T : x <= y
  <2> HIDE DEF T
  <2> QED BY <1>3, LastOf
<1>5. CASE x = c
  <2>1. PICK p \in Below(d) : c \in Kids(p)
    BY <1>1, <1>5, BelowFacts
  <2>2. p = m /\ d <= p
    BY <1>1, <2>1, BelowFacts
  <2> QED BY <1>1, <2>2
<1>6. CASE x = d
  <2>1. PICK p \in Below(c) : d \in Kids(p)
    BY <1>1, <1>6, BelowFacts
  <2>2. p = m /\ c <= p
    BY <1>1, <2>1, BelowFacts
  <2> QED BY <1>1, <2>2
<1>7. CASE x # c /\ x # d
  <2>1. PICK p \in Below(c) : x \in Kids(p)
    BY <1>1, <1>7, BelowFacts
  <2>2. PICK q \in Below(d) : x \in Kids(q)
    BY <1>1, <1>7, BelowFacts
  <2>3. p \in Models /\ q \in Models /\ x \in Models
    BY <1>1, BelowFacts
  <2>4. p = q /\ p < x
    BY <1>1, <2>1, <2>2, <2>3
  <2>5. p \in T /\ x <= p
    BY <1>4, <2>4
  <2> QED BY <1>1, <2>3, <2>4, <2>5
<1> QED BY <1>5, <1>6, <1>7

LEMMA OwnedFacts ==
  ASSUME program \in Programs, NEW m \in Models
  PROVE  /\ Owned(m) = OwnParams(m) \cup UNION { Owned(c) : c \in Kids(m) }
         /\ \A p \in Owned(m) : p \in Int /\ p < PseudoBase
         /\ \A n \in Below(m) : Owned(n) \subseteq Owned(m)
         /\ \A c \in Kids(m) : OwnParams(m) \cap Owned(c) = {}
         /\ \A c, d \in Kids(m) : c # d => Owned(c) \cap Owned(d) = {}
<1>1. /\ Below(m) = {m} \cup UNION { Below(c) : c \in Kids(m) }
      /\ Below(m) \subseteq Models
      /\ Models \subseteq Nat
  BY BelowUnfolds, BelowFacts, ProgramFacts
<1>2. Owned(m) = OwnParams(m) \cup UNION { Owned(c) : c \in Kids(m) }
  <2>1. \A p : p \in Owned(m) <=> \E n \in Below(m) : p \in OwnParams(n)
    BY DEF Owned
  <2>2. \A p, c : p \in Owned(c) <=> \E n \in Below(c) : p \in OwnParams(n)
    BY DEF Owned
  <2>3. \A n : n \in Below(m) <=> n = m \/ \E c \in Kids(m) : n \in Below(c)
    BY <1>1
  <2> QED BY <2>1, <2>2, <2>3
<1>3. \A p \in Owned(m) : p \in Int /\ p < PseudoBase
  BY <1>1, OwnApart DEF Owned
<1>4. \A n \in Below(m) : Owned(n) \subseteq Owned(m)
  BY BelowFacts DEF Owned
<1>5. ASSUME NEW c \in Kids(m), NEW p \in OwnParams(m), p \in Owned(c)
      PROVE  FALSE
  <2>1. PICK n \in Below(c) : p \in OwnParams(n)
    BY <1>5 DEF Owned
  <2>2. c \in Models /\ m < c
    BY ProgramFacts
  <2>3. n \in Models /\ c <= n
    BY <2>2, BelowFacts
  <2>4. n = m
    BY <2>1, <2>3, OwnApart
  <2> QED BY <1>1, <2>2, <2>3, <2>4
<1>6. ASSUME NEW c \in Kids(m), NEW d \in Kids(m), c # d, NEW p \in Owned(c), p \in Owned(d)
      PROVE  FALSE
  <2>1. PICK n \in Below(c) : p \in OwnParams(n)
    BY <1>6 DEF Owned
  <2>2. PICK k \in Below(d) : p \in OwnParams(k)
    BY <1>6 DEF Owned
  <2>3. n \in Models /\ k \in Models
    <3>1. c \in Models /\ d \in Models
      BY ProgramFacts
    <3> QED BY <3>1, BelowFacts
  <2>4. n = k
    BY <2>1, <2>2, <2>3, OwnApart
  <2> QED BY <1>6, <2>4, SiblingsApart
<1> QED BY <1>2, <1>3, <1>4, <1>5, <1>6

-----------------------------------------------------------------------------
(* Recursion down the tree *)

Wired ==
  /\ DOMAIN models = Models
  /\ \A m \in Models : /\ models[m].submodels \in Seq(Models)
                       /\ ToSet(models[m].submodels) = Kids(m)

LEMMA SubtreeIsBelow ==
  ASSUME program \in Programs, Wired
  PROVE  \A m \in Models : SubtreeOf(m) = Below(m)
<1> DEFINE F(f) == [m \in DOMAIN models |->
                      {m} \cup UNION { f[c] : c \in ToSet(models[m].submodels) }]
           t == CHOOSE f : f = F(f)
           b == [m \in Models |-> Below(m)]
           Bad == { m \in Models : t[m] # Below(m) }
<1>1. \A m \in Models : SubtreeOf(m) = t[m]
  BY DEF SubtreeOf
<1>2. /\ \A m \in Models : \A c \in Kids(m) : c \in Models /\ m < c
      /\ IsFiniteSet(Models) /\ Models \subseteq Nat
  BY ProgramFacts
<1>3. \A f : F(f) = [m \in Models |-> {m} \cup UNION { f[c] : c \in Kids(m) }]
  BY DEF Wired
<1>4. F(b) = b
  <2>1. ASSUME NEW m \in Models
        PROVE  Below(m) = {m} \cup UNION { b[c] : c \in Kids(m) }
    <3>1. { b[c] : c \in Kids(m) } = { Below(c) : c \in Kids(m) }
      BY <1>2
    <3> HIDE DEF b
    <3> QED BY <3>1, BelowUnfolds
  <2> HIDE DEF F
  <2> QED BY <1>3, <2>1
<1>5. t = F(t)
  <2>1. \E f : f = F(f)
    <3> HIDE DEF F, b
    <3> QED BY <1>4
  <2> HIDE DEF F
  <2> QED BY <2>1
<1> HIDE DEF t, F
<1>6. \A m \in Models : t[m] = {m} \cup UNION { t[c] : c \in Kids(m) }
  BY <1>3, <1>5
<1>7. Bad = {}
  <2> SUFFICES ASSUME Bad # {} PROVE FALSE
    OBVIOUS
  <2>1. Bad \in SUBSET Models
    OBVIOUS
  <2> HIDE DEF Bad
  <2>2. IsFiniteSet(Bad) /\ Bad \in SUBSET Int
    <3>1. IsFiniteSet(Bad)
      BY <1>2, <2>1, FS_Subset
    <3> QED BY <1>2, <2>1, <3>1
  <2>3. PICK m \in Bad : \A n \in Bad : n <= m
    BY <2>2, LastOf
  <2>4. m \in Models /\ \A c \in Kids(m) : c \notin Bad
    <3>1. m \in Models /\ m \in Nat /\ \A c \in Kids(m) : c \in Nat /\ m < c
      BY <1>2, <2>1
    <3>2. \A c \in Kids(m) : ~ (c <= m)
      BY <3>1
    <3> QED BY <2>3, <3>1, <3>2
  <2>5. \A c \in Kids(m) : t[c] = Below(c)
    BY <1>2, <2>4 DEF Bad
  <2>6. t[m] = {m} \cup UNION { Below(c) : c \in Kids(m) }
    BY <1>6, <2>4, <2>5
  <2>7. t[m] = Below(m)
    BY <2>4, <2>6, BelowUnfolds
  <2> QED BY <2>3, <2>7 DEF Bad
<1> QED BY <1>1, <1>7

(* Parameters are still where the client put them.                         *)
Placed == \A m \in Models : ToSet(models[m].parameters) = OwnParams(m)

LEMMA AllParametersAreOwned ==
  ASSUME program \in Programs, Wired, Placed
  PROVE  \A m \in Models : AllParameters(m) = Owned(m)
BY SubtreeIsBelow, BelowFacts DEF AllParameters, Owned, Placed

(***************************************************************************)
(* An exclusion over the parameters of a subtree goes to a lowest model in *)
(* it that owns them.                                                      *)
(***************************************************************************)
LEMMA HomeExists ==
  ASSUME program \in Programs, Wired, Placed, NEW root \in Models,
         NEW e, ParamsOf(e) \subseteq AllParameters(root)
  PROVE  /\ FindMatchingNode(e, root) \in Below(root)
         /\ ParamsOf(e) \subseteq Owned(FindMatchingNode(e, root))
         /\ \A c \in Kids(FindMatchingNode(e, root)) : ~ (ParamsOf(e) \subseteq Owned(c))
<1> DEFINE X == Models \cup {NoModel}
           sub(m) == models[m].submodels
           below(f, m) == { i \in DOMAIN sub(m) : f[sub(m)[i]] # NoModel }
           Node(f, m) == IF below(f, m) # {} THEN f[sub(m)[Min(below(f, m))]]
                         ELSE IF ParamsOf(e) \subseteq AllParameters(m) THEN m ELSE NoModel
           h == [mf \in Models \X [Models -> X] |-> Node(mf[2], mf[1])]
           node == CHOOSE f : f = [m \in DOMAIN models |-> Node(f, m)]
           Right(m) == \/ node[m] = NoModel /\ ~ (ParamsOf(e) \subseteq Owned(m))
                       \/ /\ node[m] \in Below(m) /\ ParamsOf(e) \subseteq Owned(node[m])
                          /\ \A c \in Kids(node[m]) : ~ (ParamsOf(e) \subseteq Owned(c))
           Bad == { m \in Models : ~ Right(m) }
<1>1. /\ IsFiniteSet(Models) /\ Models \subseteq Nat
      /\ \A m \in Models : \A c \in Kids(m) : c \in Models /\ m < c
      /\ DOMAIN models = Models
  BY ProgramFacts DEF Wired
<1>2. ASSUME NEW m \in Models
      PROVE  /\ sub(m) \in Seq(Models) /\ DOMAIN sub(m) = 1 .. Len(sub(m)) /\ Len(sub(m)) \in Nat
             /\ \A i \in DOMAIN sub(m) : sub(m)[i] \in Kids(m)
             /\ \A f : below(f, m) # {} => Min(below(f, m)) \in below(f, m)
  <2>1. sub(m) \in Seq(Models) /\ DOMAIN sub(m) = 1 .. Len(sub(m)) /\ Len(sub(m)) \in Nat
    BY DEF Wired
  <2>2. \A i \in DOMAIN sub(m) : sub(m)[i] \in Kids(m)
    BY DEF Wired, ToSet
  <2>3. ASSUME NEW f, below(f, m) # {}
        PROVE  Min(below(f, m)) \in below(f, m)
    <3>1. below(f, m) \in SUBSET (1 .. Len(sub(m)))
      BY <2>1
    <3> HIDE DEF below, sub
    <3> QED BY <2>1, <2>3, <3>1, PicksOfIntervals
  <2> HIDE DEF sub, below
  <2> QED BY <2>1, <2>2, <2>3
<1>3. NoModel \in X /\ NoModel \notin Models /\ Models \subseteq X
  BY <1>1 DEF NoModel
<1>4. ASSUME NEW m \in Models, NEW f \in [Models -> X]
      PROVE  Node(f, m) \in X
  <2> HIDE DEF X, below
  <2>1. CASE below(f, m) # {}
    <3>1. Min(below(f, m)) \in DOMAIN sub(m)
      BY <1>2, <2>1 DEF below
    <3> HIDE DEF sub
    <3>2. sub(m)[Min(below(f, m))] \in Models
      BY <1>1, <1>2, <3>1
    <3> QED BY <2>1, <3>2
  <2>2. CASE below(f, m) = {}
    BY <1>3, <2>2
  <2> QED BY <2>1, <2>2
<1>5. ASSUME NEW m \in Models, NEW f \in [Models -> X], NEW g \in [Models -> X],
             \A n \in Models : m < n => f[n] = g[n]
      PROVE  Node(f, m) = Node(g, m)
  <2>1. \A i \in DOMAIN sub(m) : f[sub(m)[i]] = g[sub(m)[i]]
    <3> HIDE DEF sub, X
    <3> QED BY <1>1, <1>2, <1>5
  <2>2. below(f, m) = below(g, m)
    <3> HIDE DEF sub, X
    <3> QED BY <2>1
  <2>3. below(f, m) # {} => Min(below(f, m)) \in DOMAIN sub(m)
    <3>1. below(f, m) \subseteq DOMAIN sub(m)
      OBVIOUS
    <3> HIDE DEF sub, below
    <3> QED BY <1>2, <3>1
  <2> HIDE DEF below, sub, X
  <2> QED BY <2>1, <2>2, <2>3
<1>6. \E f : f = [m \in DOMAIN models |-> Node(f, m)]
  <2> HIDE DEF Node
  <2>1. LooksUp(Models, X, h)
    <3> HIDE DEF X
    <3>1. \A m \in Models : \A f \in [Models -> X] : h[<<m, f>>] = Node(f, m)
      OBVIOUS
    <3> HIDE DEF h
    <3>2. \A m \in Models : \A f \in [Models -> X] : h[<<m, f>>] \in X
      BY <1>4, <3>1
    <3>3. ASSUME NEW m \in Models, NEW f \in [Models -> X], NEW g \in [Models -> X],
                 \A n \in Models : m < n => f[n] = g[n]
          PROVE  h[<<m, f>>] = h[<<m, g>>]
      <4>1. Node(f, m) = Node(g, m)
        BY <1>5, <3>3
      <4> QED BY <3>1, <4>1
    <3> QED BY <3>2, <3>3 DEF LooksUp
  <2>2. \A m \in Models : \A f \in [Models -> X] : h[<<m, f>>] = Node(f, m)
    <3> HIDE DEF X
    <3> QED OBVIOUS
  <2>3. X # {} /\ Models \in SUBSET Int
    BY <1>1
  <2> HIDE DEF h, X
  <2>4. PICK f \in [Models -> X] : RightOn(f, Models, h)
    BY <1>1, <2>1, <2>3, RecursionExists
  <2>5. \A m \in Models : f[m] = Node(f, m)
    BY <2>2, <2>4 DEF RightOn
  <2>6. f = [m \in DOMAIN models |-> Node(f, m)]
    BY <1>1, <2>5
  <2> QED BY <2>6
<1>7. node = [m \in DOMAIN models |-> Node(node, m)]
  <2> HIDE DEF Node
  <2> QED BY <1>6
<1>8. FindMatchingNode(e, root) = node[root]
  BY DEF FindMatchingNode
<1> HIDE DEF node
<1>9. \A m \in Models : node[m] = Node(node, m)
  <2> HIDE DEF Node
  <2> QED BY <1>1, <1>7
<1>10. Bad = {}
  <2> SUFFICES ASSUME Bad # {} PROVE FALSE
    OBVIOUS
  <2>1. Bad \in SUBSET Models
    OBVIOUS
  <2> HIDE DEF Bad
  <2>2. IsFiniteSet(Bad) /\ Bad \in SUBSET Int
    <3>1. IsFiniteSet(Bad)
      BY <1>1, <2>1, FS_Subset
    <3> QED BY <1>1, <2>1, <3>1
  <2>3. PICK m \in Bad : \A n \in Bad : n <= m
    BY <2>2, LastOf
  <2>4. m \in Models /\ \A c \in Kids(m) : c \in Models /\ Right(c)
    <3>0. m \in Models /\ m \in Nat /\ \A c \in Kids(m) : c \in Models /\ c \in Nat /\ m < c
      BY <1>1, <2>1
    <3>1. m \in Models /\ \A c \in Kids(m) : c \in Models /\ c \notin Bad
      <4>1. \A c \in Kids(m) : ~ (c <= m)
        BY <3>0
      <4> QED BY <2>3, <3>0, <4>1
    <3> HIDE DEF Right
    <3> QED BY <3>1 DEF Bad
  <2>5. CASE below(node, m) # {}
    <3> DEFINE c == sub(m)[Min(below(node, m))]
    <3>1. node[m] = node[c]
      BY <1>9, <2>4, <2>5
    <3>2. c \in Kids(m) /\ node[c] # NoModel
      <4>1. Min(below(node, m)) \in below(node, m)
        <5> HIDE DEF below, sub
        <5> QED BY <1>2, <2>4, <2>5
      <4>2. Min(below(node, m)) \in DOMAIN sub(m) /\ node[c] # NoModel
        BY <4>1
      <4> HIDE DEF below, sub
      <4> QED BY <1>2, <2>4, <4>2
    <3> HIDE DEF c
    <3>3. /\ node[c] \in Below(c) /\ ParamsOf(e) \subseteq Owned(node[c])
          /\ \A d \in Kids(node[c]) : ~ (ParamsOf(e) \subseteq Owned(d))
      BY <2>4, <3>2
    <3>4. node[c] \in Below(m)
      BY <2>4, <3>2, <3>3, BelowFacts
    <3>5. Right(m)
      BY <3>1, <3>3, <3>4
    <3> HIDE DEF Right
    <3> QED BY <2>3, <3>5 DEF Bad
  <2>6. CASE below(node, m) = {}
    <3>1. node[m] = IF ParamsOf(e) \subseteq AllParameters(m) THEN m ELSE NoModel
      BY <1>9, <2>4, <2>6
    <3>2. AllParameters(m) = Owned(m) /\ m \in Below(m)
      BY <2>4, AllParametersAreOwned, BelowFacts
    <3>3. \A c \in Kids(m) : ~ (ParamsOf(e) \subseteq Owned(c))
      <4> SUFFICES ASSUME NEW c \in Kids(m) PROVE ~ (ParamsOf(e) \subseteq Owned(c))
        OBVIOUS
      <4>1. PICK i \in DOMAIN sub(m) : sub(m)[i] = c
        BY <2>4 DEF Wired, ToSet
      <4>2. node[c] = NoModel
        BY <2>6, <4>1
      <4>3. node[c] \notin Below(c)
        BY <1>3, <2>4, <4>2, BelowFacts
      <4> QED BY <2>4, <4>3
    <3>4. Right(m)
      BY <3>1, <3>2, <3>3
    <3> HIDE DEF Right
    <3> QED BY <2>3, <3>4 DEF Bad
  <2> HIDE DEF below
  <2> QED BY <2>5, <2>6
<1>11. Right(root)
  <2> HIDE DEF Right
  <2> QED BY <1>10
<1>12. ParamsOf(e) \subseteq Owned(root)
  BY AllParametersAreOwned
<1> HIDE DEF Bad
<1> QED BY <1>8, <1>11, <1>12

-----------------------------------------------------------------------------
(* Rows of a model in terms of its submodels' rows *)

(* The parameters a model's own generation works on, ...                   *)
GcdParams(m) == OwnParams(m) \cup { PseudoOf(c) : c \in Kids(m) }

(* ... how its submodels must have come out for that, ...                  *)
Assembled(m, known) ==
  \A c \in Kids(m) :
    /\ known[PseudoOf(c)].valueCount = Len(models[c].results)
    /\ models[c].results \in Seq(ToSet(models[c].results))
    /\ models[c].results # <<>> => /\ models[c].parameters \in Seq(Int)
                                   /\ ToSet(models[c].parameters) = Owned(c)

(* ... and all a row says, of the submodels' parameters too.               *)
Expanded(r) ==
  r \cup UNION { RowTerms(t[1] - PseudoBase, t[2]) : t \in { u \in r : IsPseudo(u[1]) } }

LEMMA PseudoFacts ==
  ASSUME program \in Programs, NEW m \in Models
  PROVE  /\ \A c \in Kids(m) : /\ IsPseudo(PseudoOf(c)) /\ PseudoOf(c) - PseudoBase = c
                               /\ PseudoOf(c) \in Int /\ c \in Models
         /\ \A p \in Owned(m) : ~ IsPseudo(p)
         /\ \A p \in OwnParams(m) : ~ IsPseudo(p) /\ p \in Int
         /\ \A c \in Kids(m) : \A p \in GcdParams(m) : p \notin Owned(c)
         /\ GcdParams(m) \subseteq Int
<1>1. /\ PseudoBase \in Nat /\ Models \subseteq Nat /\ \A c \in Kids(m) : c \in Models
  BY TreeAssumption, ProgramFacts
<1>2. ASSUME NEW c \in Kids(m)
      PROVE  IsPseudo(PseudoOf(c)) /\ PseudoOf(c) - PseudoBase = c /\ PseudoOf(c) \in Int
  <2>1. c \in Nat
    BY <1>1
  <2> QED BY <1>1, <2>1 DEF IsPseudo, PseudoOf
<1>3. \A p \in Owned(m) : ~ IsPseudo(p) /\ p \in Int
  BY <1>1, OwnedFacts DEF IsPseudo
<1>4. OwnParams(m) \subseteq Owned(m)
  BY OwnedFacts
<1>5. ASSUME NEW c \in Kids(m), NEW p \in GcdParams(m), p \in Owned(c)
      PROVE  FALSE
  <2>1. p \notin OwnParams(m)
    BY <1>5, OwnedFacts
  <2>2. PICK d \in Kids(m) : p = PseudoOf(d)
    BY <2>1 DEF GcdParams
  <2>3. Owned(c) \subseteq Owned(m)
    BY <1>1, BelowFacts, OwnedFacts
  <2> QED BY <1>2, <1>3, <1>5, <2>2, <2>3
<1>6. GcdParams(m) \subseteq Int
  BY <1>2, <1>3, <1>4 DEF GcdParams
<1> QED BY <1>1, <1>2, <1>3, <1>4, <1>5, <1>6

(* Where the terms of an expanded row come from: r picks row at[c] of each *)
(* submodel c.                                                             *)
Picks(r, m, at) ==
  /\ \A c \in Kids(m) : at[c] \in PseudoValues(c) /\ <<PseudoOf(c), at[c]>> \in r
  /\ \A t \in r : t[1] \in GcdParams(m)
  /\ \A t \in Expanded(r) : \A c \in Kids(m) : t[1] \in Owned(c) => t \in RowTerms(c, at[c])
  /\ \A t \in Expanded(r) : t \in r \/ \E c \in Kids(m) : t[1] \in Owned(c)

LEMMA RowPicks ==
  ASSUME program \in Programs, NEW m \in Models, NEW known, Assembled(m, known),
         NEW r \in RowsOf(GcdParams(m), known)
  PROVE  \E at : Picks(r, m, at)
<1>1. PICK f : Gives(r, f, GcdParams(m), known)
  BY RowsGive
<1> DEFINE at == [c \in Kids(m) |-> f[PseudoOf(c)]]
<1>2. \A t \in r : t[1] \in GcdParams(m) /\ t[2] = f[t[1]]
  BY <1>1 DEF Gives
<1>3. ASSUME NEW c \in Kids(m)
      PROVE  at[c] \in PseudoValues(c) /\ <<PseudoOf(c), at[c]>> \in r
  <2>1. PseudoOf(c) \in GcdParams(m)
    BY DEF GcdParams
  <2>2. f[PseudoOf(c)] \in 0 .. Len(models[c].results) - 1 /\ <<PseudoOf(c), f[PseudoOf(c)]>> \in r
    BY <1>1, <2>1 DEF Gives, Assembled
  <2> QED BY <2>2 DEF PseudoValues, PseudoValueCount
<1>4. ASSUME NEW t \in r, IsPseudo(t[1])
      PROVE  \E c \in Kids(m) : t[1] - PseudoBase = c /\ t[2] = at[c]
  <2>1. t[1] \in GcdParams(m) /\ t[2] = f[t[1]]
    BY <1>2
  <2>2. PICK c \in Kids(m) : t[1] = PseudoOf(c)
    BY <1>4, <2>1, PseudoFacts DEF GcdParams
  <2> QED BY <2>1, <2>2, PseudoFacts
<1>5. ASSUME NEW c \in Kids(m), NEW t \in RowTerms(c, at[c])
      PROVE  t[1] \in Owned(c)
  <2>1. 0 .. Len(models[c].results) - 1 # {}
    BY <1>3 DEF PseudoValues, PseudoValueCount
  <2>2. models[c].results # <<>>
    BY <2>1
  <2>3. ToSet(models[c].parameters) = Owned(c)
    BY <2>2 DEF Assembled
  <2> QED BY <2>3 DEF RowTerms, ToSet
<1> HIDE DEF at
<1>6. ASSUME NEW t \in Expanded(r)
      PROVE  t \in r \/ \E c \in Kids(m) : t \in RowTerms(c, at[c])
  <2>1. CASE t \in r
    BY <2>1
  <2>2. CASE t \notin r
    <3>1. PICK u \in r : IsPseudo(u[1]) /\ t \in RowTerms(u[1] - PseudoBase, u[2])
      BY <2>2 DEF Expanded
    <3>2. PICK c \in Kids(m) : u[1] - PseudoBase = c /\ u[2] = at[c]
      BY <1>4, <3>1
    <3> QED BY <3>1, <3>2
  <2> QED BY <2>1, <2>2
<1>7. ASSUME NEW t \in Expanded(r), NEW c \in Kids(m), t[1] \in Owned(c)
      PROVE  t \in RowTerms(c, at[c])
  <2>1. t \notin r
    BY <1>2, <1>7, PseudoFacts
  <2>2. PICK d \in Kids(m) : t \in RowTerms(d, at[d])
    BY <1>6, <2>1
  <2>3. t[1] \in Owned(d)
    BY <1>5, <2>2
  <2>4. c = d
    BY <1>7, <2>3, OwnedFacts
  <2> QED BY <2>2, <2>4
<1>8. Picks(r, m, at)
  BY <1>2, <1>3, <1>5, <1>6, <1>7 DEF Picks
<1> QED BY <1>8

(***************************************************************************)
(* An exclusion in an expanded row is, rewritten in terms of the           *)
(* pseudo-parameters, in the row, and no longer than it was.               *)
(***************************************************************************)
LEMMA RewritingKeeps ==
  ASSUME program \in Programs, NEW m \in Models, NEW known, Assembled(m, known),
         NEW r \in RowsOf(GcdParams(m), known),
         NEW subs \in Seq(Int), ToSet(subs) = Kids(m),
         NEW E, NEW e \in E, e \subseteq Expanded(r)
  PROVE  \E b \in MappedExclusions(E, subs) : b \subseteq r /\ (AtMostPair(e) => AtMostPair(b))
<1>1. PICK at : Picks(r, m, at)
  BY RowPicks
<1> DEFINE n == Len(subs)
<1>2. PICK acc : /\ acc[0] = E
                 /\ \A k \in 1 .. n : acc[k] = UNION { Rewritten(b, subs[k]) : b \in acc[k - 1] }
                 /\ MappedExclusions(E, subs) = acc[n]
  BY MappedSteps
<1>3. n \in Nat /\ \A k \in 1 .. n : subs[k] \in Kids(m)
  BY DEF ToSet
<1>4. \A c \in Kids(m) : \E k \in 1 .. n : subs[k] = c
  BY DEF ToSet
<1> HIDE DEF n
<1> DEFINE Left(t, k) == t \in e /\ \A j \in 1 .. k : t[1] \notin Owned(subs[j])
           Short(b) == AtMostPair(e) => AtMostPair(b)
           G == { k \in 0 .. n : \E b \in acc[k] : Short(b) /\ \A t \in b : t \in r \/ Left(t, k) }
<1>5. 0 \in G
  <2>1. 0 \in 0 .. n /\ \A t \in e : Left(t, 0)
    BY <1>3
  <2> HIDE DEF Left
  <2> QED BY <1>2, <2>1
<1>6. ASSUME NEW k \in 1 .. n, k - 1 \in G
      PROVE  k \in G
  <2> DEFINE c == subs[k]
  <2>1. PICK b \in acc[k - 1] : Short(b) /\ \A t \in b : t \in r \/ Left(t, k - 1)
    <3> HIDE DEF Short, Left
    <3> QED BY <1>6
  <2>2. c \in Kids(m) /\ k \in 0 .. n /\ 1 .. k = 1 .. (k - 1) \cup {k}
    BY <1>3
  <2>3. at[c] \in PseudoValues(c) /\ <<PseudoOf(c), at[c]>> \in r
    BY <1>1, <2>2 DEF Picks
  <2>4. ToSet(models[c].parameters) = Owned(c)
    <3>1. models[c].results # <<>>
      <4>1. 0 .. Len(models[c].results) - 1 # {}
        BY <2>3 DEF PseudoValues, PseudoValueCount
      <4> QED BY <4>1
    <3> QED BY <2>2, <3>1 DEF Assembled
  <2>5. Related(b, c) = { t \in b : t[1] \in Owned(c) }
    BY <2>4 DEF Related
  <2>6. Related(b, c) \subseteq RowTerms(c, at[c])
    <3> SUFFICES ASSUME NEW t \in b, t[1] \in Owned(c) PROVE t \in RowTerms(c, at[c])
      BY <2>5
    <3>1. t \in Expanded(r)
      BY <2>1 DEF Expanded
    <3> QED BY <1>1, <2>2, <3>1 DEF Picks
  <2>7. \A t \in b : t[1] \notin Owned(c) => t \in r \/ Left(t, k)
    <3> SUFFICES ASSUME NEW t \in b, t[1] \notin Owned(c), t \notin r PROVE Left(t, k)
      OBVIOUS
    <3>1. Left(t, k - 1)
      BY <2>1
    <3> QED BY <2>2, <3>1
  <2> HIDE DEF Left, c
  <2>8. acc[k] = UNION { Rewritten(d, c) : d \in acc[k - 1] }
    BY <1>2 DEF c
  <2>9. CASE Related(b, c) = {}
    <3>1. b \in Rewritten(b, c)
      BY <2>9 DEF Rewritten
    <3>2. b \in acc[k]
      BY <2>1, <2>8, <3>1
    <3>3. \A t \in b : t[1] \notin Owned(c)
      BY <2>5, <2>9
    <3> QED BY <2>1, <2>2, <2>7, <3>2, <3>3
  <2>10. CASE Related(b, c) # {}
    <3> DEFINE d == (b \ Related(b, c)) \cup {<<PseudoOf(c), at[c]>>}
    <3>1. d \in Rewritten(b, c)
      BY <2>3, <2>6, <2>10 DEF Rewritten
    <3>2. \A t \in d : t \in r \/ Left(t, k)
      BY <2>3, <2>5, <2>7
    <3>4. Short(d)
      <4>1. Related(b, c) \in SUBSET b
        BY <2>5
      <4> QED BY <2>1, <2>10, <4>1, RewritingShortens
    <3> HIDE DEF d
    <3>3. d \in acc[k]
      BY <2>1, <2>8, <3>1
    <3> QED BY <2>2, <3>2, <3>3, <3>4
  <2> QED BY <2>9, <2>10
<1>7. n \in G
  <2>1. n \in 0 .. n
    BY <1>3
  <2> HIDE DEF G
  <2> QED BY <1>3, <1>5, <1>6, <2>1, UpTo
<1>8. PICK b \in acc[n] : Short(b) /\ \A t \in b : t \in r \/ Left(t, n)
  <2> HIDE DEF Short, Left
  <2> QED BY <1>7
<1>9. ASSUME NEW t \in b
      PROVE  t \in r
  <2> SUFFICES ASSUME Left(t, n), t \notin r PROVE FALSE
    BY <1>8
  <2>1. t \in Expanded(r)
    OBVIOUS
  <2>2. PICK c \in Kids(m) : t[1] \in Owned(c)
    BY <1>1, <2>1 DEF Picks
  <2> QED BY <1>4, <2>2
<1> QED BY <1>2, <1>8, <1>9

(***************************************************************************)
(* What a column says of a row is something the row says.                  *)
(***************************************************************************)
LEMMA ColumnInRow ==
  ASSUME program \in Programs, NEW m \in Models, Top.model = m,
         Self.parameters \in Seq(Int), MyParams = GcdParams(m),
         NEW known, NEW r \in RowsOf(GcdParams(m), known),
         \A c \in Kids(m) : ToSet(models[c].parameters) = Owned(c),
         NEW q \in Owned(m)
  PROVE  <<q, ColumnValue(q, r)>> \in Expanded(r)
<1>1. PICK f : Gives(r, f, GcdParams(m), known)
  BY RowsGive
<1>2. ASSUME NEW p \in GcdParams(m)
      PROVE  <<p, ValueOf(r, p)>> \in r
  <2>1. <<p, f[p]>> \in r /\ \A t \in r : t = <<t[1], t[2]>>
    BY <1>1 DEF Gives
  <2>2. \E t \in r : t[1] = p
    BY <2>1
  <2>3. (CHOOSE t \in r : t[1] = p) \in r /\ (CHOOSE t \in r : t[1] = p)[1] = p
    BY <2>2
  <2> QED BY <2>1, <2>3 DEF ValueOf
<1>3. CASE q \in MyParams
  <2>1. ColumnValue(q, r) = ValueOf(r, q)
    BY <1>3 DEF ColumnValue
  <2> QED BY <1>2, <1>3, <2>1 DEF Expanded
<1>4. CASE q \notin MyParams
  <2> DEFINE from == { i \in DOMAIN Self.parameters :
                         /\ IsPseudo(Self.parameters[i])
                         /\ q \in ToSet(ModelOf(Self.parameters[i]).parameters) }
             last == CHOOSE i \in from : \A j \in from : j <= i
             p == Self.parameters[last]
  <2>1. PICK c \in Kids(m) : q \in Owned(c)
    BY <1>4, OwnedFacts DEF GcdParams
  <2>2. from # {}
    <3>1. PseudoOf(c) \in MyParams
      BY DEF GcdParams
    <3>2. PICK i \in DOMAIN Self.parameters : Self.parameters[i] = PseudoOf(c)
      BY <3>1 DEF MyParams, ToSet
    <3>3. ToSet(ModelOf(Self.parameters[i]).parameters) = Owned(c) /\ IsPseudo(Self.parameters[i])
      BY <3>2, PseudoFacts DEF ModelOf
    <3> QED BY <2>1, <3>2, <3>3
  <2>3. from \in SUBSET Int /\ IsFiniteSet(from)
    <3>1. DOMAIN Self.parameters = 1 .. Len(Self.parameters) /\ Len(Self.parameters) \in Nat
      OBVIOUS
    <3>2. from \in SUBSET (1 .. Len(Self.parameters))
      BY <3>1
    <3> HIDE DEF from
    <3>3. IsFiniteSet(1 .. Len(Self.parameters))
      BY <3>1, FS_Interval
    <3>4. IsFiniteSet(from)
      BY <3>2, <3>3, FS_Subset
    <3> QED BY <3>2, <3>4
  <2>4. last \in from
    <3>1. \E i \in from : \A j \in from : j <= i
      <4> HIDE DEF from
      <4> QED BY <2>2, <2>3, LastOf
    <3> HIDE DEF from
    <3> QED BY <3>1
  <2>5. /\ p \in GcdParams(m) /\ IsPseudo(p)
        /\ q \in ToSet(models[p - PseudoBase].parameters)
    <3>1. last \in DOMAIN Self.parameters /\ IsPseudo(p) /\ q \in ToSet(ModelOf(p).parameters)
      BY <2>4
    <3>2. p \in MyParams
      <4> HIDE DEF last
      <4> QED BY <3>1 DEF MyParams, ToSet
    <3> HIDE DEF p
    <3> QED BY <3>1, <3>2 DEF ModelOf
  <2>6. ColumnValue(q, r) = ValueOf(RowTerms(p - PseudoBase, ValueOf(r, p)), q)
    BY <1>4 DEF ColumnValue
  <2> HIDE DEF from, last, p
  <2> DEFINE T == RowTerms(p - PseudoBase, ValueOf(r, p))
  <2>7. T \subseteq Expanded(r)
    <3>1. <<p, ValueOf(r, p)>> \in { u \in r : IsPseudo(u[1]) }
      BY <1>2, <2>5
    <3> QED BY <3>1 DEF Expanded
  <2>8. (\E t \in T : t[1] = q) /\ \A t \in T : t = <<t[1], t[2]>>
    <3> DEFINE o == models[p - PseudoBase]
    <3>1. PICK i \in DOMAIN o.parameters : q = o.parameters[i]
      BY <2>5 DEF ToSet
    <3>2. T = { <<o.parameters[j], o.results[ValueOf(r, p) + 1][j]>> : j \in DOMAIN o.parameters }
      BY DEF RowTerms
    <3> HIDE DEF T, o
    <3>3. <<q, o.results[ValueOf(r, p) + 1][i]>> \in T
      BY <3>1, <3>2
    <3>4. \A t \in T : t = <<t[1], t[2]>>
      <4> SUFFICES ASSUME NEW t \in T PROVE t = <<t[1], t[2]>>
        OBVIOUS
      <4>1. PICK j \in DOMAIN o.parameters : t = <<o.parameters[j], o.results[ValueOf(r, p) + 1][j]>>
        BY <3>2
      <4> QED BY <4>1
    <3>5. <<q, o.results[ValueOf(r, p) + 1][i]>>[1] = q
      OBVIOUS
    <3> QED BY <3>3, <3>4, <3>5
  <2> HIDE DEF T
  <2>9. (CHOOSE t \in T : t[1] = q) \in T /\ (CHOOSE t \in T : t[1] = q)[1] = q
    BY <2>8
  <2>10. <<q, ValueOf(T, q)>> \in T
    BY <2>8, <2>9 DEF ValueOf
  <2> QED BY <2>6, <2>7, <2>10 DEF T
<1> QED BY <1>3, <1>4

-----------------------------------------------------------------------------
(* The invariant *)

(* A parameter the client made: it takes part in sorting, and is not a     *)
(* result.                                                                 *)
IsInput(p) ==
  /\ p \in DOMAIN parameters
  /\ parameters[p].order \in Int /\ parameters[p].sequence \in Int
  /\ parameters[p].isResult = FALSE

(* While the client sets up, each model has the first of its parameters.   *)
Begun(m) ==
  /\ IsModel(models[m])
  /\ models[m].order \in Int /\ models[m].results = <<>>
  /\ models[m].exclusions = {} /\ models[m].rowSeeds = <<>>
  /\ models[m].parameters \in Seq(Int)
  /\ Len(models[m].parameters) <= Len(program.params[m])
  /\ \A i \in DOMAIN models[m].parameters :
       models[m].parameters[i] = ParamOf(m, i) /\ IsInput(ParamOf(m, i))
  /\ models[m].submodels \in Seq(Models)
  /\ IsInjective(models[m].submodels)
  /\ ToSet(models[m].submodels) \subseteq Kids(m)

SettingUp ==
  /\ IsTask(task) /\ (task.root = Root => Root \in DOMAIN models)
  /\ task.rowSeeds \in Seq(program.seeds)
  /\ DOMAIN models \subseteq Models
  /\ \A m \in DOMAIN models : Begun(m)

(* The tree, once it is generated from.                                    *)
Standing ==
  /\ Wired /\ IsTask(task) /\ task.root = Root /\ Root \in Models
  /\ task.rowSeeds \in Seq(program.seeds)
  /\ \A m \in Models : /\ IsModel(models[m]) /\ models[m].order \in Int
                       /\ IsInjective(models[m].submodels)
                       /\ \A p \in OwnParams(m) : IsInput(p)

(* Every exclusion went to a model that owns its parameters, none of its   *)
(* submodels does.                                                         *)
Housed(home) ==
  \A e \in task.exclusions : /\ home[e] \in Below(Root) /\ ParamsOf(e) \subseteq Owned(home[e])
                             /\ \A c \in Kids(home[e]) : ~ (ParamsOf(e) \subseteq Owned(c))

(* Before a model is generated it has its own parameters, the exclusions   *)
(* it was given and all seeds, ...                                         *)
Fresh(m, home) ==
  /\ models[m].results = <<>>
  /\ models[m].parameters \in Seq(Int) /\ ToSet(models[m].parameters) = OwnParams(m)
  /\ models[m].exclusions = { e \in task.exclusions : home[e] = m }
  /\ models[m].rowSeeds = task.rowSeeds

(* ... and afterwards columns for all the parameters of its subtree, and   *)
(* no row with an exclusion that went to a model of it, if rows obey such. *)
NoRowHas(m, e) == \A v \in PseudoValues(m) : ~ (e \subseteq RowTerms(m, v))

Finished(m, home) ==
  /\ models[m].results \in Seq(ToSet(models[m].results))
  /\ models[m].results # <<>> =>
       /\ models[m].parameters \in Seq(Int) /\ ToSet(models[m].parameters) = Owned(m)
       /\ \A e \in task.exclusions :
            home[e] \in Below(m) /\ RespectedEverywhere(e) => NoRowHas(m, e)

(* In between, what its exclusions leave is rid of them in this sense.     *)
Valid(m, r) == \A e \in models[m].exclusions : RespectedIn(e, m) => ~ (e \subseteq r)

InWork(m, home) ==
  /\ models[m].results = <<>>
  /\ models[m].parameters \in Seq(Int) /\ ToSet(models[m].parameters) = GcdParams(m)
  /\ Assembled(m, parameters)
  /\ \A c \in Kids(m) : parameters[PseudoOf(c)].order = models[m].order
  /\ \A r \in RowsOf(GcdParams(m), parameters) : Valid(m, r) =>
       \A e \in task.exclusions :
         home[e] \in Below(m) /\ RespectedEverywhere(e) => ~ (e \subseteq Expanded(r))

(* The seeds it starts from. *)
Seeded(m) ==
  /\ models[m].rowSeeds \in Seq(ToSet(models[m].rowSeeds))
  /\ task.rowSeeds = <<>> => models[m].rowSeeds = <<>>

(* The activations of generate, from the root to Top: of each model's      *)
(* submodels some are to come, one may be in progress, the rest are done.  *)
Path ==
  /\ calls \in Seq([model : Models, left : Seq(Models)]) /\ calls # <<>>
  /\ calls[1].model = Root
  /\ \A i \in 1 .. Len(calls) : /\ ToSet(calls[i].left) \subseteq Kids(calls[i].model)
                                /\ IsInjective(calls[i].left)
  /\ \A i \in 1 .. Len(calls) - 1 : /\ calls[i + 1].model \in Kids(calls[i].model)
                                    /\ calls[i + 1].model \notin ToSet(calls[i].left)

InProgress(i, c) == i < Len(calls) /\ c = calls[i + 1].model

Progress(home) ==
  \A i \in 1 .. Len(calls) :
    /\ i < Len(calls) => Fresh(calls[i].model, home)
    /\ \A c \in ToSet(calls[i].left) : \A n \in Below(c) : Fresh(n, home)
    /\ \A c \in Kids(calls[i].model) \ ToSet(calls[i].left) :
         InProgress(i, c) \/ Finished(c, home)

Walking(home) ==
  /\ Standing /\ Housed(home) /\ Path /\ Progress(home)
  /\ pc = "walk" => Fresh(Top.model, home)
  /\ pc # "walk" => Top.left = <<>> /\ InWork(Top.model, home)
  /\ pc = "gcd" => Seeded(Top.model)
  /\ pc # "rows" => bound = {}
  /\ pc = "rows" =>
       /\ RowInWork /\ IsFiniteSet(run.rows)
       /\ \A r \in run.rows : r \in RowsOf(GcdParams(Top.model), parameters) /\ Valid(Top.model, r)


-----------------------------------------------------------------------------
(* What a step leaves alone *)

LEMMA TreeStays ==
  ASSUME program' = program
  PROVE  /\ Models' = Models
         /\ \A m : /\ Kids(m)' = Kids(m) /\ Below(m)' = Below(m)
                   /\ OwnParams(m)' = OwnParams(m) /\ Owned(m)' = Owned(m)
                   /\ GcdParams(m)' = GcdParams(m)
<1>1. Models' = Models /\ \A m : Kids(m)' = Kids(m) /\ OwnParams(m)' = OwnParams(m)
  BY DEF Models, Kids, OwnParams
<1>2. \A C : ClosedDown(C)' <=> ClosedDown(C)
  BY <1>1 DEF ClosedDown
<1>3. \A m : Below(m)' = Below(m)
  BY <1>1, <1>2 DEF Below
<1>4. \A m : Owned(m)' = Owned(m)
  BY <1>1, <1>3 DEF Owned
<1>5. \A m : GcdParams(m)' = GcdParams(m)
  BY <1>1 DEF GcdParams
<1> QED BY <1>1, <1>3, <1>4, <1>5

(* Orders, submodels and the clients' parameters stay as they were, ...    *)
SameTree ==
  /\ DOMAIN models' = DOMAIN models
  /\ \A m \in Models : /\ models'[m].order = models[m].order
                       /\ models'[m].submodels = models[m].submodels
  /\ \A m \in Models : \A p \in OwnParams(m) : parameters'[p] = parameters[p]

(* ... and so what a model is generated with, as far as orders go, ...     *)
LEMMA ShapeStays ==
  ASSUME program \in Programs, program' = program, SameTree, Wired, NEW m \in Models
  PROVE  /\ WithSubmodels(m)' = WithSubmodels(m)
         /\ DOMAIN WithSubmodels(m) = GcdParams(m)
<1>1. models'[m].submodels = models[m].submodels /\ models'[m].order = models[m].order
  BY DEF SameTree
<1>2. \A p \in OwnParams(m) : parameters'[p] = parameters[p]
  BY DEF SameTree
<1>3. PseudosOf(m)' = PseudosOf(m) /\ PseudosOf(m) = { PseudoOf(c) : c \in Kids(m) }
  BY <1>1 DEF PseudosOf, Wired
<1>4. \A p \in PseudosOf(m) : IsPseudo(p)
  BY <1>3, PseudoFacts
<1>5. \A p \in OwnParams(m) : ~ IsPseudo(p)
  BY PseudoFacts
<1>6. OwnParams(m)' = OwnParams(m)
  BY TreeStays
<1> QED BY <1>1, <1>2, <1>3, <1>4, <1>5, <1>6 DEF WithSubmodels, GcdParams

(* ... and whether its rows obey an exclusion.                             *)
LEMMA RespectStays ==
  ASSUME program \in Programs, program' = program, task'.rowSeeds = task.rowSeeds, SameTree, Wired, NEW e
  PROVE  /\ \A m \in Models : RespectedIn(e, m)' <=> RespectedIn(e, m)
         /\ RespectedEverywhere(e)' <=> RespectedEverywhere(e)
<1>1. ASSUME NEW m \in Models
      PROVE  RespectedIn(e, m)' <=> RespectedIn(e, m)
  <2>1. WithSubmodels(m)' = WithSubmodels(m)
    BY ShapeStays
  <2> QED BY <2>1 DEF RespectedIn, Respected, OneOrder, LowOrders, AtMostPair
<1>2. DOMAIN models' = Models /\ DOMAIN models = Models
  BY DEF SameTree, Wired
<1> QED BY <1>1, <1>2 DEF RespectedEverywhere

(* What gcd keeps to is what is respected. *)
LEMMA MindsIsRespected ==
  ASSUME program \in Programs, Wired, NEW m \in Models, Top.model = m,
         ToSet(models[m].parameters) = GcdParams(m),
         \A c \in Kids(m) : parameters[PseudoOf(c)].order = models[m].order, NEW e
  PROVE  Minds(e) <=> RespectedIn(e, m)
<1>1. MyParams = GcdParams(m)
  BY DEF MyParams, Self
<1>2. PseudosOf(m) = { PseudoOf(c) : c \in Kids(m) }
  BY DEF PseudosOf, Wired
<1>3. DOMAIN WithSubmodels(m) = GcdParams(m)
  BY <1>2 DEF WithSubmodels, GcdParams
<1>4. ASSUME NEW p \in GcdParams(m)
      PROVE  WithSubmodels(m)[p].order = parameters[p].order
  <2>1. WithSubmodels(m)[p] = [order |-> IF IsPseudo(p) THEN models[m].order ELSE parameters[p].order]
    BY <1>3, <1>4 DEF WithSubmodels
  <2>2. CASE p \in OwnParams(m)
    BY <2>1, <2>2, PseudoFacts
  <2>3. CASE p \notin OwnParams(m)
    <3>1. PICK c \in Kids(m) : p = PseudoOf(c)
      BY <2>3 DEF GcdParams
    <3> QED BY <2>1, <3>1, PseudoFacts
  <2> QED BY <2>2, <2>3
<1>5. OneOrder(MyParams, parameters, task.rowSeeds)
        <=> OneOrder(GcdParams(m), WithSubmodels(m), task.rowSeeds)
  BY <1>1, <1>4 DEF OneOrder
<1>6. LowOrders(MyParams, parameters) <=> LowOrders(GcdParams(m), WithSubmodels(m))
  BY <1>1, <1>4 DEF LowOrders
<1> QED BY <1>3, <1>5, <1>6 DEF Minds, RespectedIn, Respected

LEMMA ModelStays ==
  ASSUME program \in Programs, program' = program, task' = task, SameTree, Wired,
         NEW m, models'[m] = models[m], NEW home
  PROVE  /\ Fresh(m, home) => Fresh(m, home)'
         /\ Finished(m, home) => Finished(m, home)'
<1>1. Below(m)' = Below(m) /\ OwnParams(m)' = OwnParams(m) /\ Owned(m)' = Owned(m)
  BY TreeStays
<1>2. \A e : NoRowHas(m, e)' <=> NoRowHas(m, e)
  BY DEF NoRowHas, PseudoValues, PseudoValueCount, RowTerms
<1>3. Fresh(m, home) => Fresh(m, home)'
  BY <1>1 DEF Fresh
<1>4. Finished(m, home) => Finished(m, home)'
  <2>1. \A e : RespectedEverywhere(e)' <=> RespectedEverywhere(e)
    BY RespectStays
  <2> QED BY <1>1, <1>2, <2>1 DEF Finished
<1> QED BY <1>3, <1>4

LEMMA StandingStays ==
  ASSUME program' = program, task' = task, Standing,
         DOMAIN models' = DOMAIN models,
         \A m \in Models : /\ IsModel(models'[m])
                           /\ models'[m].order = models[m].order
                           /\ models'[m].submodels = models[m].submodels,
         \A m \in Models : \A p \in OwnParams(m) :
           p \in DOMAIN parameters' /\ parameters'[p] = parameters[p]
  PROVE  Standing'
<1>1. Models' = Models /\ \A m : Kids(m)' = Kids(m) /\ OwnParams(m)' = OwnParams(m)
  BY TreeStays
<1>2. Wired'
  BY <1>1 DEF Standing, Wired
<1>3. IsTask(task)' /\ task.root' = Root /\ (Root \in Models)' /\ (task.rowSeeds \in Seq(program.seeds))'
  BY <1>1 DEF Standing, IsTask
<1>4. ASSUME NEW m \in Models
      PROVE  /\ IsModel(models[m])' /\ (models[m].order \in Int)'
             /\ IsInjective(models[m].submodels)'
             /\ \A p \in OwnParams(m) : IsInput(p)'
  <2>1. IsModel(models[m])'
    BY DEF IsModel
  <2>2. (models[m].order \in Int)' /\ IsInjective(models[m].submodels)'
    BY DEF Standing, IsInjective
  <2>3. \A p \in OwnParams(m) : IsInput(p)'
    BY DEF Standing, IsInput
  <2> QED BY <2>1, <2>2, <2>3
<1> QED BY <1>1, <1>2, <1>3, <1>4 DEF Standing

(* The model in work is in no other model's subtree that a frame has still *)
(* to come or is done with.                                                *)
LEMMA OffPath ==
  ASSUME program \in Programs, Path
  PROVE  /\ Len(calls) \in Nat \ {0} /\ DOMAIN calls = 1 .. Len(calls)
         /\ \A i \in 1 .. Len(calls) : /\ calls[i].model \in Models
                                       /\ Top.model \in Below(calls[i].model)
         /\ Top.model \in Models
         /\ \A i \in 1 .. Len(calls) - 1 : calls[i].model # Top.model
         /\ \A i \in 1 .. Len(calls) : \A c \in ToSet(calls[i].left) : Top.model \notin Below(c)
         /\ \A i \in 1 .. Len(calls) : \A c \in Kids(calls[i].model) \ ToSet(calls[i].left) :
              InProgress(i, c) \/ c # Top.model
<1> DEFINE n == Len(calls)
           t == Top.model
<1>1. /\ n \in Nat \ {0} /\ DOMAIN calls = 1 .. n /\ \A i \in 1 .. n : calls[i].model \in Models
      /\ t = calls[n].model
  <2>1. calls \in Seq([model : Models, left : Seq(Models)]) /\ calls # <<>>
    BY DEF Path
  <2> DEFINE R == [model : Models, left : Seq(Models)]
  <2>2. n \in Nat \ {0} /\ DOMAIN calls = 1 .. n /\ \A i \in 1 .. n : calls[i] \in R
    <3> HIDE DEF R
    <3>1. calls \in Seq(R)
      BY <2>1 DEF R
    <3> QED BY <2>1, <3>1
  <2> QED BY <2>2 DEF Top
<1>2. /\ Models \subseteq Nat /\ \A m \in Models : \A c \in Kids(m) : c \in Models /\ m < c
  BY ProgramFacts
<1> HIDE DEF n, t
<1>3. \A i \in 1 .. n : t \in Below(calls[i].model)
  <2> DEFINE G == { i \in 1 .. n : t \in Below(calls[i].model) }
  <2>1. n \in G
    BY <1>1, BelowFacts
  <2>2. ASSUME NEW i \in 1 .. n - 1, i + 1 \in G
        PROVE  i \in G
    <3>1. calls[i + 1].model \in Kids(calls[i].model) /\ i \in 1 .. n
      BY <1>1 DEF Path, n
    <3>2. calls[i].model \in Models
      BY <1>1, <3>1
    <3>3. calls[i + 1].model \in Below(calls[i].model)
      BY <3>1, <3>2, BelowFacts
    <3>4. t \in Below(calls[i].model)
      BY <2>2, <3>2, <3>3, BelowFacts
    <3> QED BY <3>1, <3>4
  <2>3. n - 1 \in Nat /\ n - 1 + 1 = n
    BY <1>1
  <2> HIDE DEF G
  <2>4. \A i \in 1 .. n - 1 + 1 : i \in G
    BY <2>1, <2>2, <2>3, DownFrom
  <2> QED BY <2>3, <2>4 DEF G
<1>4. ASSUME NEW i \in 1 .. n - 1
      PROVE  /\ i \in 1 .. n /\ calls[i + 1].model \in Kids(calls[i].model)
             /\ calls[i + 1].model \notin ToSet(calls[i].left)
             /\ calls[i + 1].model \in Models /\ t \in Below(calls[i + 1].model)
  <2>1. i \in 1 .. n /\ i + 1 \in 1 .. n
    BY <1>1
  <2> QED BY <1>1, <1>3, <2>1 DEF Path, n
<1>5. ASSUME NEW i \in 1 .. n - 1, calls[i].model = t
      PROVE  FALSE
  <2>1. calls[i + 1].model <= t
    BY <1>4, BelowFacts
  <2>2. t \in Nat /\ calls[i + 1].model \in Nat /\ t < calls[i + 1].model
    BY <1>1, <1>2, <1>4, <1>5
  <2> QED BY <2>1, <2>2
<1>6. ASSUME NEW i \in 1 .. n, NEW c \in Kids(calls[i].model), ~ InProgress(i, c)
      PROVE  c \in ToSet(calls[i].left) \/ c # t
  <2>1. CASE i = n
    <3>1. t < c /\ t \in Nat /\ c \in Nat
      BY <1>1, <1>2, <2>1
    <3> QED BY <3>1
  <2>2. CASE i # n
    <3>1. i \in 1 .. n - 1
      BY <1>1, <2>2
    <3>2. c # calls[i + 1].model
      BY <1>1, <1>6, <3>1 DEF InProgress, n
    <3>3. Below(c) \cap Below(calls[i + 1].model) = {}
      BY <1>1, <1>4, <3>1, <3>2, SiblingsApart
    <3>4. c \in Below(c)
      BY <1>1, <1>2, BelowFacts
    <3> QED BY <1>4, <3>1, <3>3, <3>4
  <2> QED BY <2>1, <2>2
<1>7. ASSUME NEW i \in 1 .. n, NEW c \in ToSet(calls[i].left), t \in Below(c)
      PROVE  FALSE
  <2>1. c \in Kids(calls[i].model) /\ c \in Models
    BY <1>1, <1>2 DEF Path, n
  <2>2. CASE i = n
    <3>1. t < c /\ c <= t /\ t \in Nat /\ c \in Nat
      BY <1>1, <1>2, <1>7, <2>1, <2>2, BelowFacts
    <3> QED BY <3>1
  <2>3. CASE i # n
    <3>1. i \in 1 .. n - 1
      BY <1>1, <2>3
    <3>2. c # calls[i + 1].model
      BY <1>4, <3>1
    <3>3. Below(c) \cap Below(calls[i + 1].model) = {}
      BY <1>1, <1>4, <2>1, <3>1, <3>2, SiblingsApart
    <3> QED BY <1>4, <1>7, <3>1, <3>3
  <2> QED BY <2>2, <2>3
<1> QED BY <1>1, <1>3, <1>5, <1>6, <1>7 DEF n, t

(* Working on a model disturbs nothing the frames count on.                *)
LEMMA ProgressStays ==
  ASSUME program \in Programs, program' = program, task' = task, SameTree, Wired,
         Path, NEW home, Progress(home),
         \A n \in Models : n # Top.model => models'[n] = models[n]
  PROVE  /\ \A i \in 1 .. Len(calls) - 1 : \A m \in {calls[i].model} : Fresh(m, home)'
         /\ \A i \in 1 .. Len(calls) : \A c \in ToSet(calls[i].left) : \A n \in Below(c) : Fresh(n, home)'
         /\ \A i \in 1 .. Len(calls) : \A c \in Kids(calls[i].model) \ ToSet(calls[i].left) :
              InProgress(i, c) \/ Finished(c, home)'
<1>1. \A n \in Models : n # Top.model => /\ Fresh(n, home) => Fresh(n, home)'
                                         /\ Finished(n, home) => Finished(n, home)'
  BY ModelStays
<1>2. Models \subseteq Nat /\ \A m \in Models : \A c \in Kids(m) : c \in Models
  BY ProgramFacts
<1>3. ASSUME NEW i \in 1 .. Len(calls) - 1, NEW m \in {calls[i].model}
      PROVE  Fresh(m, home)'
  <2>1. i \in 1 .. Len(calls) /\ i < Len(calls)
    BY OffPath
  <2>2. calls[i].model \in Models /\ calls[i].model # Top.model
    BY <2>1, OffPath
  <2>3. Fresh(calls[i].model, home)
    BY <2>1 DEF Progress
  <2> QED BY <1>1, <2>2, <2>3
<1>4. ASSUME NEW i \in 1 .. Len(calls), NEW c \in ToSet(calls[i].left), NEW n \in Below(c)
      PROVE  Fresh(n, home)'
  <2>1. c \in Kids(calls[i].model) /\ calls[i].model \in Models
    BY OffPath DEF Path
  <2>2. Top.model \notin Below(c)
    BY OffPath
  <2>3. c \in Models
    BY <1>2, <2>1
  <2>4. n \in Models /\ n # Top.model
    BY <2>2, <2>3, BelowFacts
  <2> QED BY <1>1, <2>4 DEF Progress
<1>5. ASSUME NEW i \in 1 .. Len(calls), NEW c \in Kids(calls[i].model) \ ToSet(calls[i].left), ~ InProgress(i, c)
      PROVE  Finished(c, home)'
  <2>1. c \in Models /\ c # Top.model
    BY <1>2, <1>5, OffPath
  <2> QED BY <1>1, <1>5, <2>1 DEF Progress
<1> QED BY <1>3, <1>4, <1>5

-----------------------------------------------------------------------------
(* Generating one model *)

LEMMA FinishedAssemble ==
  ASSUME NEW m, NEW home, NEW known,
         \A c \in Kids(m) : Finished(c, home) /\ known[PseudoOf(c)].valueCount = Len(models[c].results)
  PROVE  Assembled(m, known)
BY DEF Finished, Assembled

(***************************************************************************)
(* What is valid under the exclusions a model is generated with has, once  *)
(* expanded, no exclusion that went to it or to a model below.             *)
(***************************************************************************)
LEMMA ValidIsRid ==
  ASSUME program \in Programs, IsFiniteSet(GcdParams(Top.model)),
         NEW m \in Models, Top.model = m, NEW home,
         Fresh(m, home), \A c \in Kids(m) : Finished(c, home),
         NEW known, Assembled(m, known), Housed(home),
         NEW subs \in Seq(Int), ToSet(subs) = Kids(m),
         NEW more, NEW mapped, mapped = MappedExclusions(models[m].exclusions, subs) \cup more,
         NEW E, E = mapped \/ E = Derived(m, mapped, known),
         NEW r \in RowsOf(GcdParams(m), known), \A b \in E : RespectedIn(b, m) => ~ (b \subseteq r),
         NEW e \in task.exclusions, home[e] \in Below(m), RespectedEverywhere(e), Wired
  PROVE  ~ (e \subseteq Expanded(r))
<1> SUFFICES ASSUME e \subseteq Expanded(r) PROVE FALSE
  OBVIOUS
<1>1. ParamsOf(e) \subseteq Owned(home[e])
  BY DEF Housed
<1>2. CASE home[e] = m
  <2>1. e \in models[m].exclusions
    BY <1>2 DEF Fresh
  <2>2. PICK b \in MappedExclusions(models[m].exclusions, subs) :
          b \subseteq r /\ (AtMostPair(e) => AtMostPair(b))
    BY <2>1, RewritingKeeps
  <2>3. b \in mapped
    BY <2>2
  <2>4. PICK d \in E : d \subseteq b
    <3>1. CASE E = mapped
      BY <2>3, <3>1
    <3>2. CASE E = Derived(m, mapped, known)
      <4>1. b \subseteq r /\ IsFiniteSet(GcdParams(m))
        BY <2>2
      <4>2. \E d \in Derived(m, mapped, known) : d \subseteq b
        BY ONLY <2>3, <4>1, DerivedForbids, r \in RowsOf(GcdParams(m), known)
      <4> QED BY <3>2, <4>2
    <3> QED BY <3>1, <3>2
  <2>5. RespectedIn(e, m)
    BY DEF RespectedEverywhere, Wired
  <2>6. RespectedIn(d, m)
    <3>1. AtMostPair(e) => AtMostPair(d)
      BY <2>2, <2>4 DEF AtMostPair
    <3> QED BY <2>5, <3>1 DEF RespectedIn, Respected
  <2> QED BY <2>2, <2>4, <2>6
<1>3. CASE home[e] # m
  <2>1. PICK c \in Kids(m) : home[e] \in Below(c)
    BY <1>3, BelowUnfolds
  <2>2. c \in Models
    BY ProgramFacts
  <2>3. \A t \in e : t[1] \in Owned(c)
    <3>1. Owned(home[e]) \subseteq Owned(c)
      BY <2>1, <2>2, OwnedFacts
    <3> QED BY <1>1, <3>1 DEF ParamsOf
  <2>4. PICK at : Picks(r, m, at)
    BY RowPicks
  <2>5. at[c] \in PseudoValues(c) /\ e \subseteq RowTerms(c, at[c])
    BY <2>3, <2>4 DEF Picks
  <2>6. models[c].results # <<>>
    <3>1. 0 .. Len(models[c].results) - 1 # {}
      BY <2>5 DEF PseudoValues, PseudoValueCount
    <3> QED BY <3>1
  <2>7. NoRowHas(c, e)
    BY <2>1, <2>6 DEF Finished
  <2> QED BY <2>5, <2>7 DEF NoRowHas
<1> QED BY <1>2, <1>3

LEMMA ExpandedStays ==
  ASSUME program \in Programs, NEW m \in Models, NEW known, NEW r \in RowsOf(GcdParams(m), known),
         \A c \in Kids(m) : models'[c] = models[c]
  PROVE  Expanded(r)' = Expanded(r)
<1>1. PICK f : Gives(r, f, GcdParams(m), known)
  BY RowsGive
<1>2. ASSUME NEW t \in r, IsPseudo(t[1])
      PROVE  RowTerms(t[1] - PseudoBase, t[2])' = RowTerms(t[1] - PseudoBase, t[2])
  <2>1. t[1] \in GcdParams(m)
    BY <1>1 DEF Gives
  <2>2. PICK c \in Kids(m) : t[1] = PseudoOf(c)
    BY <1>2, <2>1, PseudoFacts DEF GcdParams
  <2>3. t[1] - PseudoBase = c
    BY <2>2, PseudoFacts
  <2> QED BY <2>3 DEF RowTerms
<1> QED BY <1>2 DEF Expanded

LEMMA ConcatPseudos ==
  ASSUME program \in Programs, NEW m \in Models, NEW own \in Seq(Int), ToSet(own) = OwnParams(m),
         NEW subs \in Seq(Models), ToSet(subs) = Kids(m)
  PROVE  LET all == own \o [i \in DOMAIN subs |-> PseudoOf(subs[i])]
         IN  all \in Seq(Int) /\ ToSet(all) = GcdParams(m)
<1> DEFINE p == [i \in DOMAIN subs |-> PseudoOf(subs[i])]
<1>1. /\ DOMAIN subs = 1 .. Len(subs) /\ Len(subs) \in Nat /\ PseudoBase \in Nat /\ Models \subseteq Nat
      /\ \A i \in DOMAIN subs : subs[i] \in Models
  BY TreeAssumption, ProgramFacts
<1>2. p \in Seq(Int)
  <2>1. \A i \in 1 .. Len(subs) : PseudoOf(subs[i]) \in Int
    <3>1. \A c \in Models : PseudoOf(c) \in Int
      BY <1>1 DEF PseudoOf
    <3> QED BY <1>1, <3>1
  <2>2. p = [i \in 1 .. Len(subs) |-> PseudoOf(subs[i])]
    BY <1>1
  <2> HIDE DEF p
  <2> QED BY <1>1, <2>1, <2>2
<1>3. ToSet(p) = { PseudoOf(c) : c \in Kids(m) }
  BY DEF ToSet
<1> HIDE DEF p
<1>4. own \o p \in Seq(Int) /\ ToSet(own \o p) = ToSet(own) \cup ToSet(p)
  BY <1>2, ConcatSets
<1> QED BY <1>3, <1>4 DEF p, GcdParams

LEMMA OwnFinite ==
  ASSUME program \in Programs, NEW m \in Models, NEW own \in Seq(Int), ToSet(own) = OwnParams(m),
         NEW subs \in Seq(Models), ToSet(subs) = Kids(m)
  PROVE  IsFiniteSet(GcdParams(m))
<1>1. LET all == own \o [i \in DOMAIN subs |-> PseudoOf(subs[i])]
      IN  all \in Seq(Int) /\ ToSet(all) = GcdParams(m)
  BY ConcatPseudos
<1> QED BY <1>1, MembersFinite

(* All submodels of the model about to be generated are done.              *)
LEMMA KidsAreDone ==
  ASSUME program \in Programs, NEW home, Walking(home), Top.left = <<>>
  PROVE  \A c \in Kids(Top.model) : Finished(c, home) /\ c \in Models /\ c # Top.model
<1> DEFINE n == Len(calls)
<1>1. n \in 1 .. n /\ calls[n].model = Top.model /\ calls[n].left = <<>> /\ Top.model \in Models
  BY OffPath DEF Walking, Top
<1>2. ToSet(calls[n].left) = {}
  BY <1>1 DEF ToSet
<1>3. \A c : ~ InProgress(n, c)
  BY <1>1 DEF InProgress
<1> HIDE DEF n
<1>4. \A c \in Kids(Top.model) : Finished(c, home)
  BY <1>1, <1>2, <1>3 DEF Walking, Progress, n
<1>5. \A c \in Kids(Top.model) : c \in Models /\ c # Top.model
  <2>1. \A c \in Kids(Top.model) : c \in Models /\ c \in Nat /\ Top.model < c /\ Top.model \in Nat
    BY <1>1, ProgramFacts
  <2> QED BY <2>1
<1> QED BY <1>4, <1>5

(***************************************************************************)
(* Frames that stay, in the midst of which the top model changes.          *)
(***************************************************************************)
LEMMA WalkingOn ==
  ASSUME program \in Programs, program' = program, task' = task, calls' = calls,
         NEW home, Walking(home), Standing', SameTree, Top.left = <<>>,
         \A n \in Models : n # Top.model => models'[n] = models[n],
         pc' \in {"gcd", "rows"}, \A m \in {Top.model} : InWork(m, home)',
         pc' = "gcd" => bound' = {} /\ \A m \in {Top.model} : Seeded(m)',
         (pc = "rows" =>
            /\ RowInWork /\ IsFiniteSet(run.rows)
            /\ \A r \in run.rows : \A m \in {Top.model} : (r \in RowsOf(GcdParams(m), parameters) /\ Valid(m, r)))'
  PROVE  Walking(home)'
<1>1. Models' = Models /\ \A m : /\ Kids(m)' = Kids(m) /\ Below(m)' = Below(m) /\ Owned(m)' = Owned(m)
  BY TreeStays
<1>2. Housed(home)'
  BY <1>1 DEF Walking, Housed
<1>3. Path'
  <2>1. (calls \in Seq([model : Models, left : Seq(Models)]) /\ calls # <<>> /\ calls[1].model = Root)'
    BY <1>1 DEF Walking, Path
  <2>2. ASSUME NEW i \in 1 .. Len(calls)
        PROVE  (ToSet(calls[i].left) \subseteq Kids(calls[i].model))' /\ IsInjective(calls[i].left)'
    <3>1. ToSet(calls[i].left) \subseteq Kids(calls[i].model) /\ IsInjective(calls[i].left)
      BY DEF Walking, Path
    <3>2. (ToSet(calls[i].left) \subseteq Kids(calls[i].model))'
      BY <1>1, <3>1
    <3>3. IsInjective(calls[i].left)'
      BY <3>1
    <3> QED BY <3>2, <3>3
  <2>3. ASSUME NEW i \in 1 .. Len(calls) - 1
        PROVE  (/\ calls[i + 1].model \in Kids(calls[i].model)
                /\ calls[i + 1].model \notin ToSet(calls[i].left))'
    BY <1>1 DEF Walking, Path, IsInjective, ToSet
  <2> QED BY <2>1, <2>2, <2>3 DEF Path
<1>4. Progress(home)'
  <2>0. Path /\ Progress(home) /\ Wired
    BY DEF Walking, Standing
  <2>1. (\A i \in 1 .. Len(calls) : i < Len(calls) => Fresh(calls[i].model, home))'
    <3> SUFFICES ASSUME NEW i \in 1 .. Len(calls), i < Len(calls) PROVE Fresh(calls[i].model, home)'
      OBVIOUS
    <3>1. i \in 1 .. Len(calls) - 1
      OBVIOUS
    <3>2. \A m \in {calls[i].model} : Fresh(m, home)'
      BY <2>0, <3>1, ProgressStays
    <3> QED BY <3>2
  <2>2. (\A i \in 1 .. Len(calls) : \A c \in ToSet(calls[i].left) : \A n \in Below(c) : Fresh(n, home))'
    <3>1. \A i \in 1 .. Len(calls) : \A c \in ToSet(calls[i].left) : \A n \in Below(c) : Fresh(n, home)'
      BY <2>0, ProgressStays
    <3> QED BY <1>1, <3>1
  <2>3. (\A i \in 1 .. Len(calls) : \A c \in Kids(calls[i].model) \ ToSet(calls[i].left) :
          InProgress(i, c) \/ Finished(c, home))'
    <3>1. \A i \in 1 .. Len(calls) : \A c \in Kids(calls[i].model) \ ToSet(calls[i].left) :
            InProgress(i, c) \/ Finished(c, home)'
      BY <2>0, ProgressStays
    <3>2. \A i, c : InProgress(i, c)' <=> InProgress(i, c)
      BY DEF InProgress
    <3> QED BY <1>1, <3>1, <3>2
  <2> QED BY <2>1, <2>2, <2>3 DEF Progress
<1>5. (Top.left = <<>> /\ InWork(Top.model, home) /\ (pc = "gcd" => Seeded(Top.model)))'
  BY DEF Top
<1> QED BY <1>2, <1>3, <1>4, <1>5 DEF Walking, Top

LEMMA GenerateKeeps ==
  ASSUME program \in Programs, program' = program, NEW home, Walking(home),
         Generate(parameters), pc' = "gcd"
  PROVE  /\ Walking(home)' /\ SameTree /\ task' = task
         /\ \A n \in Models : n # Top.model => models'[n] = models[n]
         /\ \A m \in {Top.model} :
              /\ models'[m].rowSeeds = MappedSeeds(models[m].rowSeeds, models[m].submodels)
              /\ \/ ExclusionsMapped(models[m].exclusions, models[m].submodels)
                 \/ Conflicts(models[m].submodels) # {}
                 \/ models'[m].exclusions = MappedExclusions(models[m].exclusions, models[m].submodels)
<1>1. PICK m \in Models : /\ Top.model = m /\ pc = "walk" /\ Top.left = <<>> /\ Standing /\ Housed(home)
                          /\ Path /\ task' = task /\ calls' = calls /\ Fresh(m, home)
  BY OffPath DEF Walking, Generate
<1>2. /\ DOMAIN models = Models /\ IsModel(models[m]) /\ models[m].order \in Int
      /\ models[m].submodels \in Seq(Models) /\ ToSet(models[m].submodels) = Kids(m)
      /\ IsInjective(models[m].submodels)
      /\ \A p \in OwnParams(m) : IsInput(p)
  BY <1>1 DEF Standing, Wired
<1>3. Generated(m, parameters)
  BY <1>1 DEF Generate
<1> DEFINE self == models[m]
           subs == self.submodels
           pseudos == PseudosOf(m)
           known == [p \in DOMAIN parameters \cup pseudos |->
                       IF p \in pseudos
                         THEN [sequence |-> p, order |-> self.order, isResult |-> FALSE,
                               valueCount |-> PseudoValueCount(p - PseudoBase)]
                         ELSE parameters[p]]
           all == self.parameters \o [i \in DOMAIN subs |-> PseudoOf(subs[i])]
           mapped == Mapped(m)
           derive == Derives(m)
           E == IF derive THEN Derived(m, mapped, known) ELSE mapped
           sorted == ByOrder(all, known)
           seeds == MappedSeeds(self.rowSeeds, subs)
<1>4. /\ parameters' = known
      /\ models' = [models EXCEPT ![m].parameters = sorted, ![m].exclusions = E,
                                  ![m].rowSeeds = seeds, ![m].results = <<>>]
  <2>1. seeds = MappedSeeds(models[m].rowSeeds, models[m].submodels)
    OBVIOUS
  <2> QED BY <1>2, <1>3 DEF Generated
<1> HIDE DEF E, sorted, seeds, derive, mapped, pseudos, known, all
<1>5. /\ models'[m] = [order |-> self.order, parameters |-> sorted,
                   submodels |-> subs, exclusions |-> E, rowSeeds |-> seeds, results |-> <<>>]
      /\ \A n \in Models : n # m => models'[n] = models[n]
      /\ DOMAIN models' = Models
  <2>1. models' = Edited(models, m, sorted, E, seeds, <<>>)
    BY <1>4 DEF Edited
  <2> QED BY <1>2, <2>1, ModelEdited
<1>6. \A c \in Kids(m) : /\ Finished(c, home) /\ c \in Models /\ c # m /\ models'[c] = models[c]
  BY <1>1, <1>5, KidsAreDone
<1>7. \A c \in Kids(m) : /\ known[PseudoOf(c)].order = models[m].order
                         /\ known[PseudoOf(c)].valueCount = Len(models[c].results)
  <2>1. \A c \in Kids(m) : PseudoOf(c) \in pseudos /\ PseudoOf(c) - PseudoBase = c
    BY <1>1, <1>2, PseudoFacts DEF pseudos, PseudosOf
  <2>2. \A c \in Kids(m) : known[PseudoOf(c)] = [sequence |-> PseudoOf(c), order |-> models[m].order, isResult |-> FALSE,
                               valueCount |-> PseudoValueCount(c)]
    BY <2>1 DEF known
  <2>3. \A c \in Kids(m) : PseudoValueCount(c) = Len(models[c].results)
    BY DEF PseudoValueCount
  <2> SUFFICES ASSUME NEW c \in Kids(m)
               PROVE  /\ known[PseudoOf(c)].order = models[m].order
                      /\ known[PseudoOf(c)].valueCount = Len(models[c].results)
    OBVIOUS
  <2>4. known[PseudoOf(c)] = [sequence |-> PseudoOf(c), order |-> models[m].order, isResult |-> FALSE,
                               valueCount |-> PseudoValueCount(c)]
    BY <2>2
  <2> QED BY <2>3, <2>4
<1>8. \A n \in Models : \A p \in OwnParams(n) :
        p \in DOMAIN parameters => p \in DOMAIN known /\ known[p] = parameters[p]
  <2>1. \A n \in Models : \A p \in OwnParams(n) : p \notin pseudos
    <3> SUFFICES ASSUME NEW n \in Models, NEW p \in OwnParams(n), NEW c \in Kids(m), p = PseudoOf(c)
                 PROVE FALSE
      BY <1>2 DEF pseudos, PseudosOf
    <3> QED BY <1>1, PseudoFacts
  <2> QED BY <2>1 DEF known
<1>9. \A p \in GcdParams(m) : known[p].order \in Int
  <2>1. \A p \in OwnParams(m) : known[p].order \in Int
    BY <1>1, <1>2, <1>8 DEF IsInput
  <2>2. \A c \in Kids(m) : known[PseudoOf(c)].order \in Int
    BY <1>2, <1>7
  <2> QED BY <2>1, <2>2 DEF GcdParams
<1>10. all \in Seq(Int) /\ ToSet(all) = GcdParams(m)
  BY <1>1, <1>2, ConcatPseudos DEF Fresh, all
<1>11. sorted \in Seq(Int) /\ ToSet(sorted) = GcdParams(m)
  <2>1. \A p \in ToSet(all) : known[p].order \in Int
    BY <1>9, <1>10
  <2> QED BY <1>10, <2>1, SortedByOrder DEF sorted
<1>12. Assembled(m, known)
  BY <1>6, <1>7, FinishedAssemble
<1>13. ASSUME NEW r \in RowsOf(GcdParams(m), known),
              \A b \in E : RespectedIn(b, m) => ~ (b \subseteq r),
              NEW e \in task.exclusions, home[e] \in Below(m), RespectedEverywhere(e)
       PROVE  ~ (e \subseteq Expanded(r))
  <2>1. IsFiniteSet(GcdParams(m))
    BY <1>1, <1>2, OwnFinite DEF Fresh
  <2>2. \A c \in Kids(m) : Finished(c, home)
    BY <1>6
  <2>3. E = mapped \/ E = Derived(m, mapped, known)
    BY DEF E
  <2>4. mapped = MappedExclusions(models[m].exclusions, subs) \cup Conflicts(subs)
    BY DEF mapped, Mapped
  <2>5. subs \in Seq(Int) /\ ToSet(subs) = Kids(m) /\ Wired
    BY <1>1, <1>2, ProgramFacts DEF Standing
  <2> QED BY <1>1, <1>12, <1>13, <2>1, <2>2, <2>3, <2>4, <2>5, ValidIsRid
<1>17. SameTree
  <2>1. \A n \in Models : models'[n].order = models[n].order /\ models'[n].submodels = models[n].submodels
    BY <1>5
  <2>2. \A n \in Models : \A p \in OwnParams(n) : parameters'[p] = parameters[p]
    BY <1>1, <1>4, <1>8 DEF Standing, IsInput
  <2> QED BY <1>2, <1>5, <2>1, <2>2 DEF SameTree
<1>19. \A e : (RespectedIn(e, m)' <=> RespectedIn(e, m)) /\ (RespectedEverywhere(e)' <=> RespectedEverywhere(e))
  BY <1>1, <1>17, RespectStays DEF Standing
<1>14. InWork(m, home)'
  <2>1. /\ models'[m].results = <<>> /\ models'[m].parameters \in Seq(Int)
        /\ ToSet(models'[m].parameters) = GcdParams(m) /\ models'[m].exclusions = E
    BY <1>5, <1>11
  <2>2. Assembled(m, parameters)'
    <3>1. Kids(m)' = Kids(m) /\ \A c : Owned(c)' = Owned(c)
      BY TreeStays
    <3> QED BY <1>4, <1>6, <1>12, <3>1 DEF Assembled
  <2>3. (\A r \in RowsOf(GcdParams(m), parameters) : Valid(m, r) =>
          \A e \in task.exclusions :
            home[e] \in Below(m) /\ RespectedEverywhere(e) => ~ (e \subseteq Expanded(r)))'
    <3>1. RowsOf(GcdParams(m), parameters)' = RowsOf(GcdParams(m), known)
      BY <1>4, TreeStays DEF RowsOf, ValueCounts
    <3>2. \A r : Valid(m, r)' <=> \A b \in E : RespectedIn(b, m) => ~ (b \subseteq r)
      BY <1>19, <2>1 DEF Valid
    <3>3. \A r \in RowsOf(GcdParams(m), known) : Expanded(r)' = Expanded(r)
      BY <1>6, ExpandedStays
    <3>4. Below(m)' = Below(m)
      BY TreeStays
    <3> QED BY <1>1, <1>13, <1>19, <3>1, <3>2, <3>3, <3>4
  <2>4. (\A c \in Kids(m) : parameters[PseudoOf(c)].order = models[m].order)'
    <3>1. models'[m].order = models[m].order
      BY <1>5
    <3> QED BY <1>4, <1>7, <3>1, TreeStays
  <2> QED BY <2>1, <2>2, <2>3, <2>4, TreeStays DEF InWork
<1>15. Standing'
  <2>1. \A n \in Models : n # m =>
                          /\ IsModel(models'[n]) /\ models'[n].order = models[n].order
                          /\ models'[n].submodels = models[n].submodels
    BY <1>1, <1>5 DEF Standing
  <2>3. /\ IsModel(models'[m]) /\ models'[m].order = models[m].order
        /\ models'[m].submodels = models[m].submodels
    BY <1>5 DEF IsModel
  <2>2. \A n \in Models : \A p \in OwnParams(n) : p \in DOMAIN parameters' /\ parameters'[p] = parameters[p]
    BY <1>1, <1>4, <1>8 DEF Standing, IsInput
  <2> QED BY <1>1, <1>2, <1>5, <2>1, <2>2, <2>3, StandingStays
<1>20. Seeded(m)'
  <2>1. models[m].rowSeeds = task.rowSeeds /\ task.rowSeeds \in Seq(program.seeds)
    BY <1>1 DEF Fresh, Standing
  <2>2. subs \in Seq(Int) /\ \A c \in ToSet(subs) : Len(models[c].results) \in Nat
    <3>1. \A c \in Kids(m) : models[c].results \in Seq(ToSet(models[c].results))
      BY <1>6 DEF Finished
    <3> QED BY <1>2, <3>1, ProgramFacts
  <2>3. seeds \in Seq(ToSet(seeds)) /\ (task.rowSeeds = <<>> => seeds = <<>>)
    BY <2>1, <2>2, SeedsMapped DEF seeds
  <2> QED BY <1>1, <1>5, <2>3 DEF Seeded
<1>16. Walking(home)'
  BY <1>1, <1>5, <1>14, <1>15, <1>17, <1>20, WalkingOn DEF Walking, Generate
<1>18. /\ models'[m].rowSeeds = MappedSeeds(models[m].rowSeeds, models[m].submodels)
       /\ \/ ExclusionsMapped(models[m].exclusions, models[m].submodels)
          \/ Conflicts(models[m].submodels) # {}
          \/ models'[m].exclusions = MappedExclusions(models[m].exclusions, models[m].submodels)
  <2>1. models'[m].rowSeeds = MappedSeeds(models[m].rowSeeds, models[m].submodels)
    BY <1>5 DEF seeds
  <2>2. models'[m].exclusions = E
    BY <1>5
  <2>3. E = mapped \/ ExclusionsMapped(models[m].exclusions, models[m].submodels) \/ Conflicts(models[m].submodels) # {}
    BY DEF E, derive, Derives
  <2>4. Conflicts(models[m].submodels) = {} => mapped = MappedExclusions(models[m].exclusions, models[m].submodels)
    BY DEF mapped, Mapped
  <2> QED BY <2>1, <2>2, <2>3, <2>4
<1> QED BY <1>1, <1>5, <1>16, <1>17, <1>18

LEMMA Frames ==
  ASSUME Path
  PROVE  /\ Len(calls) \in Nat \ {0} /\ DOMAIN calls = 1 .. Len(calls)
         /\ \A i \in 1 .. Len(calls) :
              /\ calls[i] = [model |-> calls[i].model, left |-> calls[i].left]
              /\ calls[i].model \in Models /\ calls[i].left \in Seq(Models)
<1> DEFINE R == [model : Models, left : Seq(Models)]
<1>1. calls \in Seq(R) /\ calls # <<>>
  BY DEF Path
<1>2. \A x \in R : x = [model |-> x.model, left |-> x.left] /\ x.model \in Models /\ x.left \in Seq(Models)
  OBVIOUS
<1> HIDE DEF R
<1>3. /\ Len(calls) \in Nat \ {0} /\ DOMAIN calls = 1 .. Len(calls)
      /\ \A i \in 1 .. Len(calls) : calls[i] \in R
  BY <1>1
<1> QED BY <1>2, <1>3

(* Where nothing but the frames changes. *)
LEMMA TreeAlone ==
  ASSUME program' = program, UNCHANGED <<parameters, models, task>>, NEW home
  PROVE  /\ \A m : /\ Fresh(m, home)' <=> Fresh(m, home)
                   /\ Finished(m, home)' <=> Finished(m, home)
         /\ Standing' <=> Standing
         /\ Housed(home)' <=> Housed(home)
<1>1. /\ Models' = Models
      /\ \A m : /\ Kids(m)' = Kids(m) /\ Below(m)' = Below(m)
                /\ OwnParams(m)' = OwnParams(m) /\ Owned(m)' = Owned(m)
  BY TreeStays
<1>2. \A m, e : NoRowHas(m, e)' <=> NoRowHas(m, e)
  BY DEF NoRowHas, PseudoValues, PseudoValueCount, RowTerms
<1>3. \A m : Fresh(m, home)' <=> Fresh(m, home)
  BY <1>1 DEF Fresh
<1>7. \A e : RespectedEverywhere(e)' <=> RespectedEverywhere(e)
  <2>1. \A m : WithSubmodels(m)' = WithSubmodels(m)
    BY <1>1 DEF WithSubmodels, PseudosOf
  <2> QED BY <2>1 DEF RespectedEverywhere, RespectedIn, Respected, OneOrder, LowOrders, AtMostPair
<1>4. \A m : Finished(m, home)' <=> Finished(m, home)
  BY <1>1, <1>2, <1>7 DEF Finished
<1>5. Standing' <=> Standing
  BY <1>1 DEF Standing, Wired, IsInput, IsTask, IsModel
<1>6. Housed(home)' <=> Housed(home)
  BY <1>1 DEF Housed
<1> QED BY <1>3, <1>4, <1>5, <1>6

LEMMA DescendKeeps ==
  ASSUME program \in Programs, program' = program, NEW home, Walking(home), Descend
  PROVE  Walking(home)'
<1> DEFINE n == Len(calls)
<1>1. /\ pc = "walk" /\ pc' = "walk" /\ UNCHANGED <<parameters, models, task>> /\ bound' = {}
      /\ Path /\ Standing /\ Housed(home) /\ Progress(home) /\ Fresh(Top.model, home)
      /\ Top = calls[n] /\ calls[n].left # <<>>
  BY DEF Walking, Descend, Top
<1>2. /\ n \in Nat \ {0} /\ DOMAIN calls = 1 .. n
      /\ \A i \in 1 .. n : /\ calls[i] = [model |-> calls[i].model, left |-> calls[i].left]
                           /\ calls[i].model \in Models /\ calls[i].left \in Seq(Models)
                           /\ ToSet(calls[i].left) \subseteq Kids(calls[i].model)
                           /\ IsInjective(calls[i].left)
      /\ n \in 1 .. n
  <2>1. /\ n \in Nat \ {0} /\ DOMAIN calls = 1 .. n
        /\ \A i \in 1 .. n : /\ calls[i] = [model |-> calls[i].model, left |-> calls[i].left]
                             /\ calls[i].model \in Models /\ calls[i].left \in Seq(Models)
    BY <1>1, Frames
  <2>2. \A i \in 1 .. n : /\ ToSet(calls[i].left) \subseteq Kids(calls[i].model)
                          /\ IsInjective(calls[i].left)
    BY <1>1 DEF Path
  <2>3. n \in 1 .. n
    BY <2>1
  <2> HIDE DEF n
  <2> QED BY <2>1, <2>2, <2>3
<1>3. PICK c, m, rest : c = Head(calls[n].left) /\ m = calls[n].model /\ rest = Tail(calls[n].left)
  OBVIOUS
<1>4. /\ c \in Models /\ c \in ToSet(calls[n].left) /\ rest \in Seq(Models)
      /\ ToSet(rest) = ToSet(calls[n].left) \ {c} /\ IsInjective(rest) /\ m \in Models
  BY <1>1, <1>2, <1>3, HeadAndTail
<1>5. c \in Kids(m)
  BY <1>2, <1>3, <1>4
<1> DEFINE inner == [model |-> c, left |-> models[c].submodels]
           outer == [calls EXCEPT ![n].left = Tail(@)]
<1>6. calls' = Append(outer, inner)
  BY <1>1, <1>3 DEF Descend, Before, Top
<1>7. /\ models[c].submodels \in Seq(Models) /\ ToSet(models[c].submodels) = Kids(c)
      /\ IsInjective(models[c].submodels)
  BY <1>1, <1>4 DEF Standing, Wired
<1> DEFINE R == [model : Models, left : Seq(Models)]
<1>8. /\ outer \in Seq(R) /\ Len(outer) = n
      /\ outer[n] = [model |-> m, left |-> rest]
      /\ \A i \in 1 .. n - 1 : outer[i] = calls[i]
  <2>1. calls \in Seq(R)
    BY <1>1 DEF Path
  <2>2. outer = [calls EXCEPT ![n] = [model |-> m, left |-> rest]]
    <3> DEFINE f == calls[n]
    <3>1. f = [model |-> f.model, left |-> f.left] /\ m = f.model /\ rest = Tail(f.left)
      BY <1>2, <1>3
    <3>2. outer = [calls EXCEPT ![n] = [f EXCEPT !.left = Tail(f.left)]]
      BY <1>2
    <3> HIDE DEF f, outer
    <3>3. [f EXCEPT !.left = Tail(f.left)] = [model |-> m, left |-> rest]
      <4>1. \A x, y, z : [[model |-> x, left |-> y] EXCEPT !.left = z] = [model |-> x, left |-> z]
        OBVIOUS
      <4>2. PICK x, y : f = [model |-> x, left |-> y]
        BY <3>1
      <4>3. x = m /\ y = f.left /\ rest = Tail(y)
        BY <3>1, <4>2
      <4> QED BY <4>1, <4>2, <4>3
    <3> QED BY <3>2, <3>3
  <2>3. [model |-> m, left |-> rest] \in R
    BY <1>4
  <2> HIDE DEF R, n, outer
  <2> QED BY <1>2, <2>1, <2>2, <2>3
<1>9. inner \in R
  BY <1>4, <1>7
<1> HIDE DEF R, n, outer, inner
<1>10. /\ calls' \in Seq(R) /\ Len(calls') = n + 1 /\ calls'[n + 1] = inner
       /\ calls'[n] = [model |-> m, left |-> rest]
       /\ \A i \in 1 .. n - 1 : calls'[i] = calls[i]
  BY <1>2, <1>6, <1>8, <1>9
<1>11. /\ calls'[n + 1].model = c /\ calls'[n + 1].left = models[c].submodels
       /\ calls'[n].model = m /\ calls'[n].left = rest
  BY <1>10 DEF inner
<1>12. ASSUME NEW i \in 1 .. n + 1
       PROVE  \/ i \in 1 .. n - 1 /\ i \in 1 .. n /\ i + 1 \in 1 .. n /\ calls'[i] = calls[i]
                /\ calls'[i + 1].model = calls[i + 1].model
              \/ i = n \/ i = n + 1
  <2> SUFFICES ASSUME i # n, i # n + 1
               PROVE  i \in 1 .. n - 1 /\ i \in 1 .. n /\ i + 1 \in 1 .. n /\ calls'[i] = calls[i]
                      /\ calls'[i + 1].model = calls[i + 1].model
    OBVIOUS
  <2>1. i \in 1 .. n - 1 /\ i \in 1 .. n /\ i + 1 \in 1 .. n
    BY <1>2
  <2>2. calls'[i] = calls[i]
    BY <1>10, <2>1
  <2>3. calls'[i + 1].model = calls[i + 1].model
    <3>1. CASE i + 1 = n
      BY <1>3, <1>11, <3>1
    <3>2. CASE i + 1 # n
      <4>1. i + 1 \in 1 .. n - 1
        BY <1>2, <2>1, <3>2
      <4> QED BY <1>10, <4>1
    <3> QED BY <3>1, <3>2
  <2> QED BY <2>1, <2>2, <2>3
<1>13. Path'
  <2>1. (calls \in Seq([model : Models, left : Seq(Models)]) /\ calls # <<>> /\ calls[1].model = Root)'
    <3>1. calls' \in Seq([model : Models', left : Seq(Models')])
      BY <1>10, TreeStays DEF R
    <3>2. calls'[1].model = Root
      <4>1. CASE n = 1
        BY <1>1, <1>3, <1>11, <4>1 DEF Path
      <4>2. CASE n # 1
        <5>1. 1 \in 1 .. n - 1
          BY <1>2, <4>2
        <5> QED BY <1>1, <1>10, <5>1 DEF Path
      <4> QED BY <4>1, <4>2
    <3>3. calls' # <<>>
      <4>1. Len(calls') # 0
        BY <1>2, <1>10
      <4> QED BY <4>1
    <3> QED BY <3>1, <3>2, <3>3
  <2>2. ASSUME NEW i \in 1 .. n + 1
        PROVE  ToSet(calls'[i].left) \subseteq Kids(calls'[i].model) /\ IsInjective(calls'[i].left)
    <3>1. CASE i = n
      BY <1>2, <1>3, <1>4, <1>11, <3>1
    <3>2. CASE i = n + 1
      BY <1>7, <1>11, <3>2
    <3> QED BY <1>2, <1>12, <3>1, <3>2
  <2>3. ASSUME NEW i \in 1 .. n
        PROVE  /\ calls'[i + 1].model \in Kids(calls'[i].model)
               /\ calls'[i + 1].model \notin ToSet(calls'[i].left)
    <3>1. CASE i = n
      BY <1>4, <1>5, <1>11, <3>1
    <3>2. CASE i # n
      <4>1. i \in 1 .. n + 1 /\ i # n + 1
        BY <1>2
      <4>2. i \in 1 .. n - 1 /\ calls'[i] = calls[i] /\ calls'[i + 1].model = calls[i + 1].model
        BY <1>12, <3>2, <4>1
      <4> QED BY <1>1, <4>2 DEF Path, n
    <3> QED BY <3>1, <3>2
  <2>4. \A m1 : Kids(m1)' = Kids(m1)
    BY TreeStays
  <2>5. \A i \in 1 .. n + 1 : (ToSet(calls[i].left) \subseteq Kids(calls[i].model) /\ IsInjective(calls[i].left))'
    BY <2>2, <2>4
  <2>6. \A i \in 1 .. n : (/\ calls[i + 1].model \in Kids(calls[i].model)
                           /\ calls[i + 1].model \notin ToSet(calls[i].left))'
    BY <2>3, <2>4
  <2>7. Len(calls') - 1 = n
    BY <1>2, <1>10
  <2>8. (\A i \in 1 .. Len(calls) : /\ ToSet(calls[i].left) \subseteq Kids(calls[i].model)
                                   /\ IsInjective(calls[i].left))'
    BY <1>10, <2>5
  <2>9. (\A i \in 1 .. Len(calls) - 1 : /\ calls[i + 1].model \in Kids(calls[i].model)
                                       /\ calls[i + 1].model \notin ToSet(calls[i].left))'
    BY <2>6, <2>7
  <2> QED BY <2>1, <2>8, <2>9 DEF Path
<1>14. /\ \A x : /\ Fresh(x, home)' <=> Fresh(x, home)
                 /\ Finished(x, home)' <=> Finished(x, home)
                 /\ Below(x)' = Below(x) /\ Kids(x)' = Kids(x)
       /\ Standing' /\ Housed(home)'
  BY <1>1, TreeAlone, TreeStays
<1>15. \A x \in Below(c) : Fresh(x, home)
  BY <1>1, <1>2, <1>4 DEF Progress, n
<1>16. Fresh(c, home)
  BY <1>4, <1>15, BelowFacts
<1>17. ASSUME NEW i \in 1 .. n + 1
       PROVE  /\ i < n + 1 => Fresh(calls'[i].model, home)
              /\ \A d \in ToSet(calls'[i].left) : \A x \in Below(d) : Fresh(x, home)
              /\ \A d \in Kids(calls'[i].model) \ ToSet(calls'[i].left) :
                   (i < n + 1 /\ d = calls'[i + 1].model) \/ Finished(d, home)
  <2>1. CASE i = n
    <3>1. Fresh(calls'[i].model, home)
      BY <1>1, <1>3, <1>11, <2>1
    <3>2. \A d \in ToSet(calls'[i].left) : \A x \in Below(d) : Fresh(x, home)
      <4>1. \A d \in ToSet(calls[n].left) : \A x \in Below(d) : Fresh(x, home)
        BY <1>1, <1>2 DEF Progress, n
      <4> QED BY <1>4, <1>11, <2>1, <4>1
    <3>3. ASSUME NEW d \in Kids(calls'[i].model) \ ToSet(calls'[i].left)
          PROVE  (i < n + 1 /\ d = calls'[i + 1].model) \/ Finished(d, home)
      <4>1. i < n + 1 /\ calls'[i + 1].model = c
        BY <1>2, <1>11, <2>1
      <4>2. CASE d = c
        BY <4>1, <4>2
      <4>3. CASE d # c
        <5>1. d \in Kids(calls[n].model) \ ToSet(calls[n].left)
          BY <1>3, <1>4, <1>11, <2>1, <4>3
        <5>2. ~ InProgress(n, d)
          BY <1>2 DEF InProgress, n
        <5> QED BY <1>1, <1>2, <5>1, <5>2 DEF Progress, n
      <4> QED BY <4>2, <4>3
    <3> QED BY <3>1, <3>2, <3>3
  <2>2. CASE i = n + 1
    <3>1. calls'[i].model = c /\ ToSet(calls'[i].left) = Kids(c) /\ ~ (i < n + 1)
      BY <1>2, <1>7, <1>11, <2>2
    <3>2. \A d \in Kids(c) : Below(d) \subseteq Below(c)
      BY <1>4, BelowFacts
    <3> QED BY <1>15, <3>1, <3>2
  <2>3. CASE i # n /\ i # n + 1
    <3>1. /\ i \in 1 .. n - 1 /\ i \in 1 .. n /\ i < n /\ calls'[i] = calls[i]
          /\ calls'[i + 1].model = calls[i + 1].model
      BY <1>2, <1>12, <2>3
    <3>2. Fresh(calls[i].model, home)
      BY <1>1, <3>1 DEF Progress, n
    <3>3. \A d \in ToSet(calls[i].left) : \A x \in Below(d) : Fresh(x, home)
      BY <1>1, <3>1 DEF Progress, n
    <3>4. \A d \in Kids(calls[i].model) \ ToSet(calls[i].left) :
             d = calls[i + 1].model \/ Finished(d, home)
      BY <1>1, <3>1 DEF Progress, InProgress, n
    <3>5. i < n + 1
      BY <1>2, <3>1
    <3> QED BY <3>1, <3>2, <3>3, <3>4, <3>5
  <2> QED BY <2>1, <2>2, <2>3
<1>18. Progress(home)'
  <2>1. (\A i \in 1 .. Len(calls) : i < Len(calls) => Fresh(calls[i].model, home))'
    BY <1>10, <1>14, <1>17
  <2>2. (\A i \in 1 .. Len(calls) : \A d \in ToSet(calls[i].left) : \A x \in Below(d) : Fresh(x, home))'
    BY <1>10, <1>14, <1>17
  <2>3. (\A i \in 1 .. Len(calls) : \A d \in Kids(calls[i].model) \ ToSet(calls[i].left) :
          InProgress(i, d) \/ Finished(d, home))'
    BY <1>10, <1>14, <1>17 DEF InProgress
  <2> QED BY <2>1, <2>2, <2>3 DEF Progress
<1>19. Fresh(Top.model, home)'
  BY <1>10, <1>11, <1>14, <1>16 DEF Top
<1> QED BY <1>1, <1>13, <1>14, <1>18, <1>19 DEF Walking

(* What was housed stays housed.                                           *)
LEMMA HousedStays ==
  ASSUME program' = program, task' = task, NEW home, Housed(home)
  PROVE  Housed(home)'
<1>1. \A m : Below(m)' = Below(m) /\ Owned(m)' = Owned(m) /\ Kids(m)' = Kids(m)
  BY TreeStays DEF Kids
<1> QED BY <1>1 DEF Housed

(* A model that is finished is popped: its parent has it done.             *)
LEMMA ReturnKeeps ==
  ASSUME program \in Programs, program' = program, task' = task, NEW home, Walking(home), Standing', SameTree,
         \A n \in Models : n # Top.model => models'[n] = models[n],
         \A m \in {Top.model} : Finished(m, home)',
         Len(calls) # 1, Return, bound' = {}
  PROVE  pc' = "walk" /\ Walking(home)'
<1> DEFINE n == Len(calls)
<1>1. /\ Path /\ Progress(home) /\ Housed(home) /\ Wired /\ Top = calls[n]
      /\ n \in Nat \ {0, 1} /\ DOMAIN calls = 1 .. n
      /\ pc' = "walk" /\ calls' = SubSeq(calls, 1, n - 1)
  BY Frames DEF Walking, Standing, Return, Top
<1> DEFINE R == [model : Models, left : Seq(Models)]
<1>2. calls \in Seq(R)
  BY <1>1 DEF Path
<1> HIDE DEF n, R
<1>3. /\ calls' \in Seq(R) /\ Len(calls') = n - 1 /\ n - 1 \in 1 .. n - 1
      /\ \A i \in 1 .. n - 1 : calls'[i] = calls[i]
      /\ 1 \in 1 .. n - 1
  <2>1. 1 \in 1 .. n /\ n - 1 \in 1 .. n /\ n - 1 \in 1 .. n - 1 /\ 1 \in 1 .. n - 1
    BY <1>1
  <2> QED BY <1>1, <1>2, <2>1 DEF n
<1>4. /\ Models' = Models
      /\ \A m : Kids(m)' = Kids(m) /\ Below(m)' = Below(m)
  BY TreeStays
<1>5. ASSUME NEW i \in 1 .. n - 1
      PROVE  i \in 1 .. n /\ (i \in 1 .. n - 2 => i + 1 \in 1 .. n - 1) /\ (i \notin 1 .. n - 2 => i + 1 = n)
  BY <1>1
<1>6. Path'
  <2>1. (calls \in Seq([model : Models, left : Seq(Models)]) /\ calls # <<>> /\ calls[1].model = Root)'
    <3>1. calls' \in Seq([model : Models', left : Seq(Models')])
      BY <1>3, <1>4 DEF R
    <3>2. calls'[1].model = Root
      BY <1>1, <1>3 DEF Path
    <3>3. calls' # <<>>
      <4>1. Len(calls') # 0
        BY <1>1, <1>3
      <4> QED BY <4>1
    <3> QED BY <3>1, <3>2, <3>3
  <2>2. (\A i \in 1 .. Len(calls) : /\ ToSet(calls[i].left) \subseteq Kids(calls[i].model)
                                   /\ IsInjective(calls[i].left))'
    <3>1. \A i \in 1 .. n : /\ ToSet(calls[i].left) \subseteq Kids(calls[i].model)
                            /\ IsInjective(calls[i].left)
      BY <1>1 DEF Path, n
    <3> QED BY <1>3, <1>4, <1>5, <3>1
  <2>3. (\A i \in 1 .. Len(calls) - 1 : /\ calls[i + 1].model \in Kids(calls[i].model)
                                       /\ calls[i + 1].model \notin ToSet(calls[i].left))'
    <3>1. \A i \in 1 .. n - 1 : /\ calls[i + 1].model \in Kids(calls[i].model)
                                /\ calls[i + 1].model \notin ToSet(calls[i].left)
      BY <1>1 DEF Path, n
    <3>2. Len(calls') - 1 = n - 2 /\ \A i \in 1 .. n - 2 : i \in 1 .. n - 1
      BY <1>1, <1>3
    <3> QED BY <1>3, <1>4, <1>5, <3>1, <3>2
  <2> QED BY <2>1, <2>2, <2>3 DEF Path
<1>7. Progress(home)'
  <2>1. /\ \A i \in 1 .. n - 1 : \A m \in {calls[i].model} : Fresh(m, home)'
        /\ \A i \in 1 .. n : \A c \in ToSet(calls[i].left) : \A x \in Below(c) : Fresh(x, home)'
        /\ \A i \in 1 .. n : \A c \in Kids(calls[i].model) \ ToSet(calls[i].left) :
              InProgress(i, c) \/ Finished(c, home)'
    BY <1>1, ProgressStays DEF n
  <2>2. (\A i \in 1 .. Len(calls) : i < Len(calls) => Fresh(calls[i].model, home))'
    BY <1>3, <2>1
  <2>3. (\A i \in 1 .. Len(calls) : \A c \in ToSet(calls[i].left) : \A x \in Below(c) : Fresh(x, home))'
    BY <1>3, <1>4, <1>5, <2>1
  <2>4. (\A i \in 1 .. Len(calls) : \A c \in Kids(calls[i].model) \ ToSet(calls[i].left) :
          InProgress(i, c) \/ Finished(c, home))'
    <3> SUFFICES ASSUME NEW i \in 1 .. n - 1, NEW c \in Kids(calls[i].model) \ ToSet(calls[i].left),
                        ~ Finished(c, home)'
                 PROVE  InProgress(i, c)'
      BY <1>3, <1>4
    <3>1. InProgress(i, c) /\ i \in 1 .. n
      BY <1>5, <2>1
    <3>2. c = calls[i + 1].model
      BY <3>1 DEF InProgress
    <3>3. i + 1 # n
      BY <1>1, <3>2
    <3>4. i + 1 \in 1 .. n - 1
      BY <1>5, <3>3
    <3>5. c = calls'[i + 1].model /\ i < Len(calls')
      BY <1>3, <3>2, <3>4
    <3> QED BY <3>5 DEF InProgress
  <2> QED BY <2>2, <2>3, <2>4 DEF Progress
<1>8. Fresh(Top.model, home)'
  <2>1. Top' = calls[n - 1]
    BY <1>3 DEF Top
  <2>2. \A m \in {calls[n - 1].model} : Fresh(m, home)'
    BY <1>1, <1>3, ProgressStays DEF n
  <2> QED BY <2>1, <2>2
<1> QED BY <1>1, <1>6, <1>7, <1>8, HousedStays DEF Walking

LEMMA InWorkStays ==
  ASSUME program \in Programs, program' = program, task' = task, parameters' = parameters, Standing,
         NEW home, NEW m \in Models, InWork(m, home), SameTree,
         models'[m].results = models[m].results, models'[m].parameters = models[m].parameters,
         models'[m].exclusions = models[m].exclusions,
         \A c \in Kids(m) : models'[c] = models[c]
  PROVE  InWork(m, home)' /\ \A r : Valid(m, r)' <=> Valid(m, r)
<1>1. \A n : Kids(n)' = Kids(n) /\ Below(n)' = Below(n) /\ Owned(n)' = Owned(n) /\ GcdParams(n)' = GcdParams(n)
  BY TreeStays
<1>2. Assembled(m, parameters)'
  BY <1>1 DEF InWork, Assembled
<1>8. \A e : (RespectedIn(e, m)' <=> RespectedIn(e, m)) /\ (RespectedEverywhere(e)' <=> RespectedEverywhere(e))
  BY RespectStays DEF Standing
<1>3. \A r : Valid(m, r)' <=> Valid(m, r)
  BY <1>8 DEF Valid
<1>4. \A r \in RowsOf(GcdParams(m), parameters) : Expanded(r)' = Expanded(r)
  BY ExpandedStays
<1>5. RowsOf(GcdParams(m), parameters)' = RowsOf(GcdParams(m), parameters)
  BY <1>1 DEF RowsOf, ValueCounts
<1>6. (\A r \in RowsOf(GcdParams(m), parameters) : Valid(m, r) =>
        \A e \in task.exclusions :
          home[e] \in Below(m) /\ RespectedEverywhere(e) => ~ (e \subseteq Expanded(r)))'
  BY <1>1, <1>3, <1>4, <1>5, <1>8 DEF InWork
<1>7. /\ (models[m].results = <<>>)' /\ (models[m].parameters \in Seq(Int))'
      /\ (ToSet(models[m].parameters) = GcdParams(m))'
  BY <1>1 DEF InWork
<1>9. (\A c \in Kids(m) : parameters[PseudoOf(c)].order = models[m].order)'
  BY <1>1 DEF InWork, SameTree
<1> QED BY <1>2, <1>3, <1>6, <1>7, <1>9 DEF InWork

LEMMA GcdBeginsKeeps ==
  ASSUME program \in Programs, program' = program, NEW home, Walking(home), GcdBegins, pc' = "rows"
  PROVE  Walking(home)'
<1>1. PICK m \in Models : /\ Top.model = m /\ pc = "gcd" /\ Top.left = <<>> /\ Standing
                          /\ task' = task /\ calls' = calls /\ parameters' = parameters
                          /\ InWork(m, home) /\ Seeded(m) /\ bound = {}
  BY OffPath DEF Walking, GcdBegins
<1>2. PICK fixed, open : /\ models' = [models EXCEPT ![m].rowSeeds = fixed]
                         /\ run' = [open |-> open, rows |-> {}, seeds |-> fixed]
  <2>1. \E counts \in MyCounts : \E fixed \in Engine(counts)!FixedSeeds(Self.rowSeeds, Self.exclusions) :
          /\ models' = [models EXCEPT ![Top.model].rowSeeds = fixed]
          /\ run' = [open |-> { k \in AllEntries(counts) : ~ Violates(k) }, rows |-> {}, seeds |-> fixed]
    BY <1>1 DEF GcdBegins
  <2> QED BY <1>1, <2>1
<1>3. DOMAIN models = Models /\ IsModel(models[m]) /\ \A n \in Models : IsModel(models[n])
  BY <1>1 DEF Standing, Wired
<1>4. /\ models'[m] = [order |-> models[m].order, parameters |-> models[m].parameters,
                       submodels |-> models[m].submodels, exclusions |-> models[m].exclusions,
                       rowSeeds |-> fixed, results |-> models[m].results]
      /\ \A n \in Models : n # m => models'[n] = models[n]
      /\ DOMAIN models' = Models
  BY <1>2, <1>3 DEF IsModel
<1>5. \A c \in Kids(m) : models'[c] = models[c]
  BY <1>1, <1>4, KidsAreDone
<1>9. SameTree
  BY <1>1, <1>3, <1>4 DEF SameTree
<1>6. InWork(m, home)'
  BY <1>1, <1>4, <1>5, <1>9, InWorkStays
<1>7. Standing'
  <2>1. \A n \in Models : n # m => /\ IsModel(models'[n]) /\ models'[n].order = models[n].order
                                   /\ models'[n].submodels = models[n].submodels
    BY <1>3, <1>4
  <2>2. /\ IsModel(models'[m]) /\ models'[m].order = models[m].order
        /\ models'[m].submodels = models[m].submodels
    BY <1>4 DEF IsModel
  <2>3. \A n \in Models : \A p \in OwnParams(n) : p \in DOMAIN parameters' /\ parameters'[p] = parameters[p]
    BY <1>1 DEF Standing, IsInput
  <2> QED BY <1>1, <1>3, <1>4, <2>1, <2>2, <2>3, StandingStays
<1>8. IsFiniteSet(run'.rows) /\ \A r : r \notin run'.rows
  BY <1>2, FS_EmptySet
<1>10. RowInWork'
  <2>1. MyParams = ToSet(models[m].parameters) /\ Self = models[m] /\ Self' = models'[m]
    BY <1>1 DEF MyParams, Self, Top
  <2>2. IsFiniteSet(MyParams)
    BY <1>1, <2>1, MembersFinite DEF InWork
  <2>3. MyParams' = MyParams /\ Self.exclusions' = Self.exclusions
    BY <1>4, <2>1 DEF MyParams
  <2>4. Self.rowSeeds \in Seq(ToSet(Self.rowSeeds)) /\ (task.rowSeeds = <<>> => Self.rowSeeds = <<>>)
    BY <1>1, <2>1 DEF Seeded
  <2> QED BY <1>1, <2>2, <2>3, <2>4, GenerationBegins
<1> QED BY <1>1, <1>4, <1>6, <1>7, <1>8, <1>9, <1>10, WalkingOn

(* Nothing but the row and what it adds to changes.                        *)
LEMMA RowsGrow ==
  ASSUME program \in Programs, program' = program, NEW home, Walking(home),
         pc = "rows", pc' = "rows", UNCHANGED <<parameters, models, task, calls>>,
         RowInWork', IsFiniteSet(run'.rows),
         \A r \in run'.rows : r \in RowsOf(GcdParams(Top.model), parameters) /\ Valid(Top.model, r)
  PROVE  Walking(home)'
<1>1. PICK m \in Models : Top.model = m /\ Top.left = <<>> /\ Standing /\ InWork(m, home)
  BY OffPath DEF Walking
<1>2. SameTree
  BY <1>1 DEF SameTree
<1>3. /\ \A s : Valid(m, s)' <=> Valid(m, s)
      /\ RowsOf(GcdParams(m), parameters)' = RowsOf(GcdParams(m), parameters)
      /\ InWork(m, home)'
  <2>1. GcdParams(m)' = GcdParams(m)
    BY TreeStays
  <2>2. RowsOf(GcdParams(m), parameters)' = RowsOf(GcdParams(m), parameters)
    BY <2>1 DEF RowsOf, ValueCounts
  <2> QED BY <1>1, <1>2, <2>2, InWorkStays
<1>4. Standing'
  BY <1>1, TreeAlone
<1>5. (pc = "rows" =>
         /\ RowInWork /\ IsFiniteSet(run.rows)
         /\ \A s \in run.rows : \A n \in {Top.model} :
              (s \in RowsOf(GcdParams(n), parameters) /\ Valid(n, s)))'
  <2>1. Top.model' = m
    BY <1>1 DEF Top
  <2> QED BY <1>1, <1>3, <2>1
<1> QED BY <1>1, <1>2, <1>3, <1>4, <1>5, WalkingOn

LEMMA RowStepKeeps ==
  ASSUME program \in Programs, program' = program, NEW home, Walking(home),
         BindSeed \/ BindCombination \/ PickValue, pc' = "rows"
  PROVE  Walking(home)'
<1>1. UNCHANGED <<parameters, models, task, calls, run>> /\ pc = "rows"
  BY DEF BindSeed, BindCombination, PickValue, RowUnfinished, RowBegins
<1>2. RowInWork'
  BY <1>1, BindSeedKeeps, BindingKeeps DEF Walking
<1> QED BY <1>1, <1>2, RowsGrow DEF Walking

LEMMA AddRowKeeps ==
  ASSUME program \in Programs, program' = program, NEW home, Walking(home), AddRow
  PROVE  Walking(home)'
<1>1. PICK m \in Models : /\ Top.model = m /\ pc = "rows" /\ pc' = "rows" /\ Standing
                          /\ UNCHANGED <<parameters, models, task, calls>>
                          /\ InWork(m, home) /\ run'.rows = run.rows \cup {bound}
  BY OffPath DEF Walking, AddRow
<1>2. MyParams = GcdParams(m) /\ Self = models[m]
  BY <1>1 DEF InWork, MyParams, Self
<1>3. bound \in RowsOf(GcdParams(m), parameters) /\ Valid(m, bound) /\ RowInWork'
  <2>1. /\ bound \in RowsOf(MyParams, parameters) /\ RowInWork'
        /\ \A e \in Self.exclusions : Minds(e) => ~ (e \subseteq bound)
    BY <1>1, RowFinished DEF Walking
  <2>2. \A e : Minds(e) <=> RespectedIn(e, m)
    BY <1>1, MindsIsRespected DEF InWork, Standing
  <2> QED BY <1>2, <2>1, <2>2 DEF Valid
<1>4. IsFiniteSet(run.rows) /\ \A s \in run.rows : s \in RowsOf(GcdParams(m), parameters) /\ Valid(m, s)
  BY <1>1 DEF Walking
<1>5. IsFiniteSet(run'.rows) /\ \A s \in run'.rows : s \in RowsOf(GcdParams(m), parameters) /\ Valid(m, s)
  BY <1>1, <1>3, <1>4, FS_AddElement
<1> QED BY <1>1, <1>3, <1>5, RowsGrow

(***************************************************************************)
(* A model that has a row knows the columns of all submodels, and ends up  *)
(* with one for each parameter of its subtree.                             *)
(***************************************************************************)
LEMMA ColumnsAreOwned ==
  ASSUME program \in Programs, Standing, NEW m \in Models, Top.model = m, NEW home, InWork(m, home),
         NEW r \in RowsOf(GcdParams(m), parameters)
  PROVE  /\ Self.parameters \in Seq(Int) /\ MyParams = GcdParams(m)
         /\ \A c \in Kids(m) : ToSet(models[c].parameters) = Owned(c)
         /\ BySequence(Resolved(Self.parameters), parameters) \in Seq(Int)
         /\ ToSet(BySequence(Resolved(Self.parameters), parameters)) = Owned(m)
         /\ \A p \in Owned(m) : IsInput(p)
<1>1. Self.parameters \in Seq(Int) /\ ToSet(Self.parameters) = GcdParams(m) /\ MyParams = GcdParams(m)
  BY DEF InWork, Self, MyParams
<1>2. PICK at : Picks(r, m, at)
  BY RowPicks DEF InWork
<1>3. ASSUME NEW c \in Kids(m)
      PROVE  models[c].parameters \in Seq(Int) /\ ToSet(models[c].parameters) = Owned(c)
  <2>1. at[c] \in 0 .. Len(models[c].results) - 1
    BY <1>2 DEF Picks, PseudoValues, PseudoValueCount
  <2>2. models[c].results # <<>>
    <3>1. 0 .. Len(models[c].results) - 1 # {}
      BY <2>1
    <3> QED BY <3>1
  <2> QED BY <2>2 DEF InWork, Assembled
<1>4. \A p \in Owned(m) : IsInput(p)
  BY BelowFacts DEF Owned, Standing
<1> DEFINE params == Self.parameters
           pseudos == { q \in ToSet(params) : IsPseudo(q) }
<1>5. ASSUME NEW p \in ToSet(params), IsPseudo(p)
      PROVE  \E c \in Kids(m) : p = PseudoOf(c) /\ ModelOf(p) = models[c]
  <2>1. PICK c \in Kids(m) : p = PseudoOf(c)
    BY <1>1, <1>5, PseudoFacts DEF GcdParams
  <2> QED BY <2>1, PseudoFacts DEF ModelOf
<1>6. \A c \in Kids(m) : PseudoOf(c) \in pseudos /\ ModelOf(PseudoOf(c)) = models[c]
  BY <1>1, PseudoFacts DEF GcdParams, ModelOf
<1>7. \A c \in Kids(m) : \A q \in Owned(c) : ~ IsPseudo(q)
  BY PseudoFacts, ProgramFacts
<1>8. { p \in ToSet(params) : ~ IsPseudo(p) } = OwnParams(m)
  BY <1>1, PseudoFacts DEF GcdParams
<1>9. UNION { ToSet(ModelOf(p).parameters) : p \in pseudos } = UNION { Owned(c) : c \in Kids(m) }
  <2>1. \A p \in pseudos : \E c \in Kids(m) : ToSet(ModelOf(p).parameters) = Owned(c)
    BY <1>3, <1>5
  <2>2. \A c \in Kids(m) : \E p \in pseudos : ToSet(ModelOf(p).parameters) = Owned(c)
    BY <1>3, <1>6
  <2> HIDE DEF pseudos
  <2> QED BY <2>1, <2>2
<1>10. \A p \in ToSet(params) : IsPseudo(p) =>
          /\ ModelOf(p).parameters \in Seq(Int)
          /\ \A q \in ToSet(ModelOf(p).parameters) : ~ IsPseudo(q)
  BY <1>3, <1>5, <1>7
<1>11. Resolved(params) \in Seq(Int) /\ ToSet(Resolved(params)) = Owned(m)
  <2>1. Owned(m) = OwnParams(m) \cup UNION { Owned(c) : c \in Kids(m) }
    BY OwnedFacts
  <2>2. /\ Resolved(params) \in Seq(Int)
        /\ ToSet(Resolved(params)) = { p \in ToSet(params) : ~ IsPseudo(p) }
                                     \cup UNION { ToSet(ModelOf(p).parameters) : p \in pseudos }
    BY <1>1, <1>10, ResolvedMembers
  <2> QED BY <1>8, <1>9, <2>1, <2>2
<1>12. \A p \in ToSet(Resolved(params)) : parameters[p].sequence \in Int
  BY <1>4, <1>11 DEF IsInput
<1> QED BY <1>1, <1>3, <1>4, <1>11, <1>12, SortedBySequence

(* The rows of a model say no more than the rows of its generation did.    *)
LEMMA ResultsAreRid ==
  ASSUME program \in Programs, NEW home, Standing, NEW m \in Models, Top.model = m, InWork(m, home),
         NEW rows, IsFiniteSet(rows), rows # {},
         \A r \in rows : r \in RowsOf(GcdParams(m), parameters) /\ Valid(m, r),
         NEW columns, columns = BySequence(Resolved(Self.parameters), parameters),
         NEW results, results = ResultsOf(columns, rows),
         NEW e \in task.exclusions, home[e] \in Below(m), RespectedEverywhere(e),
         NEW v \in 0 .. Len(results) - 1
  PROVE  ~ (e \subseteq { <<columns[i], results[v + 1][i]>> : i \in DOMAIN columns })
<1>1. results \in Seq({ RowOf(columns, r) : r \in rows })
  BY ResultsAre
<1>2. PICK r \in rows : results[v + 1] = RowOf(columns, r)
  <2>1. Len(results) \in Nat /\ v + 1 \in 1 .. Len(results)
    BY <1>1
  <2>2. results[v + 1] \in { RowOf(columns, r) : r \in rows }
    BY <1>1, <2>1
  <2> QED BY <2>2
<1>3. r \in RowsOf(GcdParams(m), parameters) /\ Valid(m, r)
  OBVIOUS
<1>4. /\ Self.parameters \in Seq(Int) /\ MyParams = GcdParams(m)
      /\ \A c \in Kids(m) : ToSet(models[c].parameters) = Owned(c)
      /\ ToSet(columns) = Owned(m)
  BY <1>3, ColumnsAreOwned
<1>5. ASSUME NEW i \in DOMAIN columns
      PROVE  <<columns[i], results[v + 1][i]>> \in Expanded(r)
  <2>1. columns[i] \in Owned(m)
    BY <1>4 DEF ToSet
  <2>2. results[v + 1][i] = ColumnValue(columns[i], r)
    BY <1>2 DEF RowOf
  <2>3. <<columns[i], ColumnValue(columns[i], r)>> \in Expanded(r)
    BY <1>3, <1>4, <2>1, ColumnInRow
  <2> QED BY <2>2, <2>3
<1>6. ~ (e \subseteq Expanded(r))
  BY <1>3 DEF InWork
<1> QED BY <1>5, <1>6

LEMMA GcdEndsFinishes ==
  ASSUME program \in Programs, program' = program, NEW home, Walking(home), GcdEnds, pc' # "undefined"
  PROVE  /\ Standing' /\ Return /\ task' = task /\ bound' = {}
         /\ \A n \in Models : n # Top.model => models'[n] = models[n]
         /\ \A m \in {Top.model} : Finished(m, home)'
         /\ SameTree
         /\ \A m \in {Top.model} : \A columns \in {BySequence(Resolved(Self.parameters), parameters)} :
              models'[m].parameters = columns /\ models'[m].results = ResultsOf(columns, run.rows)
<1>1. PICK m \in Models : /\ Top.model = m /\ pc = "rows" /\ Standing /\ task' = task
                          /\ InWork(m, home) /\ IsFiniteSet(run.rows)
                          /\ \A r \in run.rows : r \in RowsOf(GcdParams(m), parameters) /\ Valid(m, r)
                          /\ bound' = {}
  BY OffPath DEF Walking, GcdEnds
<1>2. PICK columns, results, final :
        /\ columns = BySequence(Resolved(Self.parameters), parameters)
        /\ results = ResultsOf(columns, run.rows)
        /\ final = IF MustMark(columns) THEN Marked(columns, results, Self.exclusions) ELSE results
        /\ models' = [models EXCEPT ![m].parameters = columns, ![m].results = final]
        /\ parameters' = [p \in { q \in DOMAIN parameters : ~ (IsPseudo(q) /\ q \in MyParams) } |-> parameters[p]]
        /\ Return
  <2> DEFINE cols == BySequence(Resolved(Self.parameters), parameters)
             ress == ResultsOf(cols, run.rows)
             fin == IF MustMark(cols) THEN Marked(cols, ress, Self.exclusions) ELSE ress
  <2>1. /\ models' = [models EXCEPT ![Top.model].parameters = cols, ![Top.model].results = fin]
        /\ parameters' = [p \in { q \in DOMAIN parameters : ~ (IsPseudo(q) /\ q \in MyParams) } |-> parameters[p]]
        /\ Return
    BY <1>1 DEF GcdEnds
  <2> HIDE DEF cols, fin
  <2>2. models' = [models EXCEPT ![m].parameters = cols, ![m].results = fin]
    BY <1>1, <2>1
  <2> QED BY <2>1, <2>2 DEF cols, fin
<1>3. DOMAIN models = Models /\ \A n \in Models : IsModel(models[n])
  BY <1>1 DEF Standing, Wired
<1>4. /\ models'[m] = [order |-> models[m].order, parameters |-> columns, submodels |-> models[m].submodels,
                       exclusions |-> models[m].exclusions, rowSeeds |-> models[m].rowSeeds, results |-> final]
      /\ \A n \in Models : n # m => models'[n] = models[n]
      /\ DOMAIN models' = Models
  <2>1. models' = WithResults(models, m, columns, final)
    BY <1>2 DEF WithResults
  <2> QED BY <1>3, <2>1, ResultsEdited
<1>5. \A n \in Models : \A p \in OwnParams(n) : p \in DOMAIN parameters' /\ parameters'[p] = parameters[p]
  <2>1. \A n \in Models : \A p \in OwnParams(n) : p \in DOMAIN parameters /\ ~ IsPseudo(p)
    BY <1>1, PseudoFacts DEF Standing, IsInput
  <2> QED BY <1>2, <2>1
<1>6. Standing'
  <2>1. \A n \in Models : n # m => /\ IsModel(models'[n]) /\ models'[n].order = models[n].order
                                   /\ models'[n].submodels = models[n].submodels
    BY <1>3, <1>4
  <2>2. /\ IsModel(models'[m]) /\ models'[m].order = models[m].order
        /\ models'[m].submodels = models[m].submodels
    BY <1>4 DEF IsModel
  <2> QED BY <1>1, <1>3, <1>4, <1>5, <2>1, <2>2, StandingStays
<1>7. SameTree
  <2>1. \A n \in Models : models'[n].order = models[n].order /\ models'[n].submodels = models[n].submodels
    BY <1>4
  <2> QED BY <1>3, <1>4, <1>5, <2>1 DEF SameTree
<1>8. /\ models'[m].results = final /\ models'[m].parameters = columns
      /\ Below(m)' = Below(m) /\ Owned(m)' = Owned(m)
  BY <1>4, TreeStays
<1>9. results \in Seq({ RowOf(columns, r) : r \in run.rows })
  BY <1>1, <1>2, ResultsAre
<1>10. CASE run.rows = {}
  <2>1. results = <<>>
    <3>1. results \in Seq({})
      BY <1>9, <1>10
    <3> QED BY <3>1
  <2>2. final = <<>>
    <3>1. Marked(columns, <<>>, Self.exclusions) = <<>>
      BY DEF Marked
    <3> QED BY <1>2, <2>1, <3>1
  <2>3. Finished(m, home)'
    <3>1. <<>> \in Seq(ToSet(<<>>))
      BY OwnMembers
    <3> QED BY <1>8, <2>2, <3>1 DEF Finished
  <2>4. models'[m].parameters = columns /\ models'[m].results = results
    BY <1>8, <2>1, <2>2
  <2> QED BY <1>1, <1>2, <1>4, <1>6, <1>7, <2>3, <2>4
<1>11. CASE run.rows # {}
  <2>1. PICK r \in run.rows : r \in RowsOf(GcdParams(m), parameters)
    BY <1>1, <1>11
  <2>2. /\ columns \in Seq(Int) /\ ToSet(columns) = Owned(m)
        /\ \A p \in Owned(m) : parameters[p].isResult = FALSE
    BY <1>1, <1>2, <2>1, ColumnsAreOwned DEF IsInput
  <2>3. final = results
    <3>1. ResultParams(columns) = {}
      BY <2>2 DEF ResultParams
    <3> QED BY <1>2, <3>1 DEF MustMark
  <2>4. ASSUME NEW e \in task.exclusions, home[e] \in Below(m), RespectedEverywhere(e)
        PROVE  NoRowHas(m, e)'
    <3>1. \A v \in 0 .. Len(results) - 1 :
            ~ (e \subseteq { <<columns[i], results[v + 1][i]>> : i \in DOMAIN columns })
      BY <1>1, <1>2, <1>11, <2>4, ResultsAreRid
    <3>2. \A v : RowTerms(m, v)' = { <<columns[i], results[v + 1][i]>> : i \in DOMAIN columns }
      BY <1>8, <2>3 DEF RowTerms
    <3>3. PseudoValues(m)' = 0 .. Len(results) - 1
      BY <1>8, <2>3 DEF PseudoValues, PseudoValueCount
    <3> QED BY <3>1, <3>2, <3>3 DEF NoRowHas
  <2>5. results \in Seq(ToSet(results))
    BY <1>9, OwnMembers
  <2>8. \A e : RespectedEverywhere(e)' <=> RespectedEverywhere(e)
    BY <1>1, <1>7, RespectStays DEF Standing
  <2>6. Finished(m, home)'
    BY <1>1, <1>8, <2>2, <2>3, <2>4, <2>5, <2>8 DEF Finished
  <2>7. models'[m].parameters = columns /\ models'[m].results = results
    BY <1>8, <2>3
  <2> QED BY <1>1, <1>2, <1>4, <1>6, <1>7, <2>6, <2>7
<1> QED BY <1>10, <1>11

LEMMA GcdReturnsFinishes ==
  ASSUME program \in Programs, program' = program, NEW home, Walking(home), GcdReturns
  PROVE  /\ Standing' /\ SameTree /\ Return /\ task' = task /\ bound' = {}
         /\ \A n \in Models : n # Top.model => models'[n] = models[n]
         /\ \A m \in {Top.model} : Finished(m, home)'
<1>1. PICK m \in Models : /\ Top.model = m /\ pc = "gcd" /\ Standing
                          /\ UNCHANGED <<parameters, models, task>> /\ Return
                          /\ models[m].results = <<>> /\ bound' = {}
  BY OffPath DEF Walking, GcdReturns, InWork
<1>2. Finished(m, home)
  <2>1. <<>> \in Seq(ToSet(<<>>))
    BY OwnMembers
  <2> QED BY <1>1, <2>1 DEF Finished
<1>3. SameTree
  BY <1>1 DEF SameTree
<1> QED BY <1>1, <1>2, <1>3, TreeAlone

-----------------------------------------------------------------------------
(* Setting up and starting to generate *)

LEMMA SetUpIsPlaced ==
  ASSUME program \in Programs, SettingUp, FullySetUp
  PROVE  /\ Wired /\ Placed /\ Standing
         /\ \A m \in Models : /\ models[m].results = <<>> /\ models[m].parameters \in Seq(Int)
                              /\ models[m].exclusions = {} /\ models[m].rowSeeds = <<>>
<1>1. /\ DOMAIN models = Models /\ task.root = Root /\ Root \in Models /\ IsTask(task)
      /\ task.rowSeeds \in Seq(program.seeds)
  BY DEF SettingUp, FullySetUp, Models
<1>2. ASSUME NEW m \in Models
      PROVE  /\ IsModel(models[m]) /\ models[m].order \in Int /\ models[m].results = <<>>
             /\ models[m].exclusions = {} /\ models[m].rowSeeds = <<>>
             /\ models[m].parameters \in Seq(Int) /\ models[m].submodels \in Seq(Models)
             /\ IsInjective(models[m].submodels)
             /\ ToSet(models[m].submodels) \subseteq Kids(m)
  BY <1>1 DEF SettingUp, Begun
<1>3. ASSUME NEW m \in Models
      PROVE  ToSet(models[m].submodels) = Kids(m)
  <2>1. Kids(m) \subseteq ToSet(models[m].submodels)
    BY <1>1 DEF FullySetUp, Kids
  <2> QED BY <1>2, <2>1
<1>4. ASSUME NEW m \in Models
      PROVE  ToSet(models[m].parameters) = OwnParams(m) /\ \A p \in OwnParams(m) : IsInput(p)
  <2>1. /\ DOMAIN models[m].parameters = DOMAIN program.params[m]
        /\ \A i \in DOMAIN models[m].parameters :
             models[m].parameters[i] = ParamOf(m, i) /\ IsInput(ParamOf(m, i))
    <3>1. DOMAIN models[m].parameters = 1 .. Len(models[m].parameters)
      BY <1>2
    <3>2. DOMAIN program.params[m] = 1 .. Len(program.params[m])
      BY ProgramFacts
    <3>3. Len(models[m].parameters) = Len(program.params[m])
      BY <1>1 DEF FullySetUp
    <3>4. \A i \in DOMAIN models[m].parameters :
             models[m].parameters[i] = ParamOf(m, i) /\ IsInput(ParamOf(m, i))
      BY <1>1 DEF SettingUp, Begun
    <3> QED BY <3>1, <3>2, <3>3, <3>4
  <2> QED BY <2>1 DEF OwnParams, ToSet
<1>5. Wired
  BY <1>1, <1>2, <1>3 DEF Wired
<1>6. Placed
  BY <1>4 DEF Placed
<1>7. Standing
  BY <1>1, <1>2, <1>4, <1>5 DEF Standing
<1> QED BY <1>2, <1>5, <1>6, <1>7

LEMMA GenerationStarts ==
  ASSUME program \in Programs, program' = program, SettingUp, bound = {}, PictGenerate
  PROVE  pc' = "walk" /\ \E home : Walking(home)'
<1>1. /\ Wired /\ Placed /\ Standing /\ FullySetUp /\ PrepareForGeneration
      /\ pc' = "walk" /\ parameters' = parameters /\ bound' = {}
      /\ calls' = <<[model |-> Root, left |-> models[Root].submodels]>>
      /\ \A m \in Models : /\ models[m].results = <<>> /\ models[m].parameters \in Seq(Int)
                           /\ models[m].exclusions = {} /\ models[m].rowSeeds = <<>>
      /\ Root \in Models /\ task.root = Root /\ DOMAIN models = Models /\ IsTask(task)
      /\ task.rowSeeds \in Seq(program.seeds)
  BY SetUpIsPlaced DEF PictGenerate, Standing, Wired
<1> DEFINE derived == ClosureOver(AllParameters(task.root), parameters, task.exclusions)
<1>2. PICK home : home = [e \in derived |-> FindMatchingNode(e, Root)]
  OBVIOUS
<1>3. /\ task' = [task EXCEPT !.exclusions = derived]
      /\ models' = [m \in DOMAIN models |->
           IF m \notin SubtreeOf(task.root) THEN models[m]
           ELSE [models[m] EXCEPT
                   !.exclusions = @ \cup { e \in derived : FindMatchingNode(e, task.root) = m },
                   !.rowSeeds = @ \o task.rowSeeds]]
  BY <1>1 DEF PrepareForGeneration
<1>4. \A e \in derived : /\ home[e] \in Below(Root) /\ ParamsOf(e) \subseteq Owned(home[e])
                         /\ \A c \in Kids(home[e]) : ~ (ParamsOf(e) \subseteq Owned(c))
  <2> SUFFICES ASSUME NEW e \in derived
               PROVE  /\ home[e] \in Below(Root) /\ ParamsOf(e) \subseteq Owned(home[e])
                      /\ \A c \in Kids(home[e]) : ~ (ParamsOf(e) \subseteq Owned(c))
    OBVIOUS
  <2>1. ParamsOf(e) \subseteq AllParameters(Root)
    BY <1>1, ClosureParams
  <2>2. home[e] = FindMatchingNode(e, Root)
    BY <1>2
  <2> QED BY <1>1, <2>1, <2>2, HomeExists
<1> HIDE DEF derived
<1>5. task'.exclusions = derived /\ task'.root = Root /\ IsTask(task') /\ task'.rowSeeds = task.rowSeeds
  <2>1. task' = [root |-> task.root, exclusions |-> derived, rowSeeds |-> task.rowSeeds]
    BY <1>1, <1>3 DEF IsTask
  <2> QED BY <1>1, <2>1 DEF IsTask
<1>6. ASSUME NEW m \in Models
      PROVE  /\ IsModel(models'[m]) /\ models'[m].order = models[m].order
             /\ models'[m].submodels = models[m].submodels
             /\ models'[m].results = <<>> /\ models'[m].parameters = models[m].parameters
             /\ m \in Below(Root) => /\ models'[m].exclusions = { e \in derived : home[e] = m }
                                    /\ models'[m].rowSeeds = task.rowSeeds
  <2>1. IsModel(models[m]) /\ models[m].results = <<>> /\ models[m].exclusions = {} /\ models[m].rowSeeds = <<>>
    BY <1>1 DEF Standing
  <2>2. SubtreeOf(task.root) = Below(Root)
    BY <1>1, SubtreeIsBelow
  <2>3. CASE m \notin Below(Root)
    BY <1>1, <1>3, <2>1, <2>2, <2>3
  <2>4. CASE m \in Below(Root)
    <3> DEFINE added == { e \in derived : FindMatchingNode(e, task.root) = m }
               more == models[m].exclusions \cup added
               seeds == models[m].rowSeeds \o task.rowSeeds
    <3>1. models'[m] = [models[m] EXCEPT !.exclusions = @ \cup added, !.rowSeeds = @ \o task.rowSeeds]
      BY <1>1, <1>3, <2>2, <2>4
    <3> HIDE DEF added
    <3>2. models'[m] = [order |-> models[m].order, parameters |-> models[m].parameters,
                        submodels |-> models[m].submodels, exclusions |-> more,
                        rowSeeds |-> seeds, results |-> models[m].results]
      BY <2>1, <3>1 DEF IsModel
    <3>3. more = { e \in derived : home[e] = m }
      BY <1>1, <1>2, <2>1 DEF added
    <3>4. seeds = task.rowSeeds
      <4> PICK S : task.rowSeeds \in Seq(S)
        BY <1>1
      <4> QED BY <2>1
    <3> HIDE DEF more, seeds
    <3> QED BY <2>1, <3>2, <3>3, <3>4 DEF IsModel
  <2> QED BY <2>3, <2>4
<1>7. DOMAIN models' = Models
  BY <1>1, <1>3
<1>8. /\ Models' = Models
      /\ \A m : /\ Kids(m)' = Kids(m) /\ Below(m)' = Below(m)
                /\ OwnParams(m)' = OwnParams(m) /\ Owned(m)' = Owned(m)
  BY TreeStays
<1>9. Standing'
  <2>1. Wired'
    BY <1>1, <1>6, <1>7, <1>8 DEF Wired
  <2>2. (\A m \in Models : /\ IsModel(models[m]) /\ models[m].order \in Int
                           /\ IsInjective(models[m].submodels)
                           /\ \A p \in OwnParams(m) : IsInput(p))'
    <3>1. \A m \in Models : \A p \in OwnParams(m) : IsInput(p)'
      BY <1>1 DEF Standing, IsInput
    <3>2. \A m \in Models : models[m].order \in Int /\ IsInjective(models[m].submodels)
      BY <1>1 DEF Standing
    <3> QED BY <1>6, <1>8, <3>1, <3>2
  <2>3. (task.rowSeeds \in Seq(program.seeds))'
    BY <1>1, <1>5
  <2> QED BY <1>1, <1>5, <1>8, <2>1, <2>2, <2>3 DEF Standing
<1>10. Housed(home)'
  BY <1>4, <1>5, <1>8 DEF Housed
<1>11. \A m \in Below(Root) : Fresh(m, home)'
  <2>1. Below(Root) \subseteq Models
    BY <1>1, BelowFacts
  <2>2. \A m \in Models : ToSet(models[m].parameters) = OwnParams(m)
    BY <1>1 DEF Placed
  <2> QED BY <1>1, <1>5, <1>6, <1>8, <2>1, <2>2 DEF Fresh
<1>12. PICK subs : subs = models[Root].submodels
  OBVIOUS
<1>13. subs \in Seq(Models) /\ ToSet(subs) = Kids(Root) /\ IsInjective(subs)
  BY <1>1, <1>12 DEF Standing, Wired
<1>14. /\ Len(calls') = 1 /\ calls'[1] = [model |-> Root, left |-> subs]
       /\ calls'[1].model = Root /\ calls'[1].left = subs /\ 1 .. Len(calls') = {1}
       /\ calls' \in Seq([model : Models, left : Seq(Models)]) /\ calls' # <<>>
  <2>1. calls' = <<[model |-> Root, left |-> subs]>>
    BY <1>1, <1>12
  <2>2. [model |-> Root, left |-> subs] \in [model : Models, left : Seq(Models)]
    BY <1>1, <1>13
  <2> DEFINE R == [model : Models, left : Seq(Models)]
             f == [model |-> Root, left |-> subs]
  <2>3. calls' = <<f>> /\ f \in R /\ f.model = Root /\ f.left = subs
    BY <2>1, <2>2
  <2> HIDE DEF R, f
  <2>4. Len(calls') = 1 /\ calls'[1] = f /\ calls' \in Seq(R) /\ calls' # <<>> /\ 1 .. 1 = {1}
    BY <2>3
  <2> QED BY <2>3, <2>4 DEF R, f
<1>15. Path'
  <2>1. (\A i \in 1 .. Len(calls) : /\ ToSet(calls[i].left) \subseteq Kids(calls[i].model)
                                   /\ IsInjective(calls[i].left))'
    BY <1>8, <1>13, <1>14
  <2>2. (\A i \in 1 .. Len(calls) - 1 : /\ calls[i + 1].model \in Kids(calls[i].model)
                                       /\ calls[i + 1].model \notin ToSet(calls[i].left))'
    BY <1>14
  <2> QED BY <1>8, <1>14, <2>1, <2>2 DEF Path
<1>16. Progress(home)'
  <2>1. \A c \in Kids(Root) : \A x \in Below(c) : Fresh(x, home)'
    BY <1>1, <1>11, BelowFacts
  <2> QED BY <1>8, <1>13, <1>14, <2>1 DEF Progress
<1>17. Fresh(Top.model, home)'
  <2>1. Top.model' = Root
    BY <1>14 DEF Top
  <2> QED BY <1>1, <1>11, <2>1, BelowFacts
<1> QED BY <1>1, <1>9, <1>10, <1>15, <1>16, <1>17 DEF Walking

LEMMA BegunStays ==
  ASSUME program' = program, NEW m, models'[m] = models[m], Begun(m),
         \A p : IsInput(p) => IsInput(p)'
  PROVE  Begun(m)'
<1>1. Models' = Models /\ Kids(m)' = Kids(m)
  BY TreeStays
<1>2. \A i \in DOMAIN models[m].parameters :
        models[m].parameters[i] = ParamOf(m, i) /\ IsInput(ParamOf(m, i))'
  BY DEF Begun
<1>3. (\A i \in DOMAIN models[m].parameters :
        models[m].parameters[i] = ParamOf(m, i) /\ IsInput(ParamOf(m, i)))'
  BY <1>2
<1>4. (/\ IsModel(models[m])
       /\ models[m].order \in Int /\ models[m].results = <<>>
       /\ models[m].exclusions = {} /\ models[m].rowSeeds = <<>>
       /\ models[m].parameters \in Seq(Int)
       /\ Len(models[m].parameters) <= Len(program.params[m])
       /\ models[m].submodels \in Seq(Models)
       /\ IsInjective(models[m].submodels)
       /\ ToSet(models[m].submodels) \subseteq Kids(m))'
  BY <1>1 DEF Begun
<1> QED BY <1>3, <1>4 DEF Begun

LEMMA InputsStay ==
  ASSUME \A p \in DOMAIN parameters : p \in DOMAIN parameters' /\ parameters'[p] = parameters[p]
  PROVE  \A p : IsInput(p) => IsInput(p)'
BY DEF IsInput

LEMMA CreateModelSetsUp ==
  ASSUME program \in Programs, program' = program, SettingUp, PictCreateModel
  PROVE  SettingUp'
<1>1. PICK m \in Models \ DOMAIN models :
        models' = [n \in DOMAIN models \cup {m} |-> IF n = m THEN NewModel(0) ELSE models[n]]
  BY DEF PictCreateModel, Models
<1>2. task' = task /\ parameters' = parameters
  BY DEF PictCreateModel
<1>3. DOMAIN models' = DOMAIN models \cup {m} /\ models'[m] = NewModel(0)
      /\ \A n \in DOMAIN models : models'[n] = models[n]
  BY <1>1
<1>4. Begun(m)'
  <2>1. models'[m] = [order |-> 0, parameters |-> <<>>, submodels |-> <<>>,
                      exclusions |-> {}, rowSeeds |-> <<>>, results |-> <<>>]
    BY <1>3 DEF NewModel
  <2>2. IsModel(models'[m])
    BY <2>1 DEF IsModel
  <2>3. Len(<<>>) <= Len(program.params[m])
    BY ProgramFacts
  <2>4. IsInjective(<<>>) /\ ToSet(<<>>) = {}
    BY DEF IsInjective, ToSet
  <2> QED BY <2>1, <2>2, <2>3, <2>4 DEF Begun
<1>5. \A n \in DOMAIN models : Begun(n)'
  <2>1. \A p : IsInput(p) => IsInput(p)'
    BY <1>2, InputsStay
  <2> QED BY <1>3, <2>1, BegunStays DEF SettingUp
<1>6. IsTask(task)' /\ (task.root = Root => Root \in DOMAIN models)' /\ (DOMAIN models \subseteq Models)'
      /\ (task.rowSeeds \in Seq(program.seeds))'
  BY <1>1, <1>2, <1>3, TreeStays DEF IsTask, SettingUp
<1> QED BY <1>3, <1>4, <1>5, <1>6 DEF SettingUp

LEMMA AddParameterSetsUp ==
  ASSUME program \in Programs, program' = program, SettingUp, PictAddParameter
  PROVE  SettingUp'
<1>0. PICK m \in DOMAIN models : \E n, p :
        /\ n = Len(models[m].parameters) + 1 /\ p = ParamOf(m, n) /\ n <= Len(program.params[m])
        /\ parameters' = [q \in DOMAIN parameters \cup {p} |->
             IF q # p THEN parameters[q]
             ELSE [sequence |-> n, isResult |-> FALSE,
                   valueCount |-> program.params[m][n].valueCount,
                   order |-> program.params[m][n].order]]
        /\ models' = [models EXCEPT ![m].parameters = Append(@, p)]
  BY DEF PictAddParameter
<1>1. PICK n, p :
        /\ n = Len(models[m].parameters) + 1 /\ p = ParamOf(m, n) /\ n <= Len(program.params[m])
        /\ parameters' = [q \in DOMAIN parameters \cup {p} |->
             IF q # p THEN parameters[q]
             ELSE [sequence |-> n, isResult |-> FALSE,
                   valueCount |-> program.params[m][n].valueCount,
                   order |-> program.params[m][n].order]]
        /\ models' = [models EXCEPT ![m].parameters = Append(@, p)]
  BY <1>0
<1>2. task' = task /\ m \in Models /\ Begun(m) /\ m \in Nat
  BY ProgramFacts DEF PictAddParameter, SettingUp
<1>3. n \in Nat \ {0} /\ p \in Int /\ program.params[m][n].order \in Int
  <2>1. program.params[m] \in Seq([valueCount : Nat, order : Int])
    BY <1>2, ProgramFacts
  <2>2. Len(models[m].parameters) \in Nat /\ Len(program.params[m]) \in Nat
    BY <1>2, <2>1 DEF Begun
  <2>3. n \in Nat \ {0} /\ n \in 1 .. Len(program.params[m])
    BY <1>1, <2>2
  <2> DEFINE R == [valueCount : Nat, order : Int]
  <2>4. \A x \in R : x.order \in Int
    OBVIOUS
  <2>5. program.params[m] \in Seq(R)
    BY <2>1
  <2> HIDE DEF R
  <2>6. program.params[m][n] \in R
    BY <2>3, <2>5
  <2>7. PerModel * m \in Int
    BY <1>2, ProgramAssumption
  <2> QED BY <1>1, <2>3, <2>4, <2>6, <2>7 DEF ParamOf
<1>4. IsInput(p)' /\ \A q : IsInput(q) => IsInput(q)'
  <2>1. parameters'[p] = [sequence |-> n, isResult |-> FALSE,
                          valueCount |-> program.params[m][n].valueCount,
                          order |-> program.params[m][n].order]
    BY <1>1
  <2>2. IsInput(p)'
    BY <1>1, <1>3, <2>1 DEF IsInput
  <2>3. \A q : q # p => (IsInput(q) => IsInput(q)')
    BY <1>1 DEF IsInput
  <2> QED BY <2>2, <2>3
<1>5. /\ DOMAIN models' = DOMAIN models
      /\ models'[m] = [order |-> models[m].order, parameters |-> Append(models[m].parameters, p),
                       submodels |-> models[m].submodels, exclusions |-> models[m].exclusions,
                       rowSeeds |-> models[m].rowSeeds, results |-> models[m].results]
      /\ \A k \in DOMAIN models : k # m => models'[k] = models[k]
  BY <1>1, <1>2 DEF Begun, IsModel
<1>6. Begun(m)'
  <2> DEFINE s == models[m].parameters
  <2>1. /\ s \in Seq(Int) /\ Len(s) + 1 = n
        /\ \A i \in DOMAIN s : s[i] = ParamOf(m, i) /\ IsInput(ParamOf(m, i))
    BY <1>1, <1>2 DEF Begun
  <2> HIDE DEF s
  <2>2. /\ Append(s, p) \in Seq(Int) /\ Len(Append(s, p)) = n /\ DOMAIN Append(s, p) = 1 .. n
        /\ \A i \in 1 .. n : i # n => i \in DOMAIN s /\ Append(s, p)[i] = s[i]
        /\ Append(s, p)[n] = p
    BY <1>3, <2>1
  <2>3. \A i \in DOMAIN Append(s, p) : Append(s, p)[i] = ParamOf(m, i) /\ IsInput(ParamOf(m, i))'
    BY <1>1, <1>4, <2>1, <2>2
  <2>4. models'[m].parameters = Append(s, p)
    BY <1>5 DEF s
  <2>5. (\A i \in DOMAIN models[m].parameters :
           models[m].parameters[i] = ParamOf(m, i) /\ IsInput(ParamOf(m, i)))'
    BY <2>3, <2>4
  <2>6. IsModel(models'[m])
    BY <1>5 DEF IsModel
  <2>7. (/\ models[m].order \in Int /\ models[m].results = <<>>
         /\ models[m].exclusions = {} /\ models[m].rowSeeds = <<>>
         /\ models[m].parameters \in Seq(Int)
         /\ Len(models[m].parameters) <= Len(program.params[m]))'
    <3>1. /\ models[m].order \in Int /\ models[m].results = <<>>
          /\ models[m].exclusions = {} /\ models[m].rowSeeds = <<>>
      BY <1>2 DEF Begun
    <3>2. /\ models'[m].order \in Int /\ models'[m].results = <<>>
          /\ models'[m].exclusions = {} /\ models'[m].rowSeeds = <<>>
      BY <1>5, <3>1
    <3>3. n <= Len(program.params[m]) /\ program' = program
      BY <1>1
    <3> QED BY <2>2, <2>4, <3>2, <3>3
  <2>8. (/\ models[m].submodels \in Seq(Models)
         /\ IsInjective(models[m].submodels)
         /\ ToSet(models[m].submodels) \subseteq Kids(m))'
    BY <1>2, <1>5, TreeStays DEF Begun
  <2> QED BY <2>5, <2>6, <2>7, <2>8 DEF Begun
<1>7. \A k \in DOMAIN models : k # m => Begun(k)'
  BY <1>4, <1>5, BegunStays DEF SettingUp
<1>8. IsTask(task)' /\ (task.root = Root => Root \in DOMAIN models)' /\ (DOMAIN models \subseteq Models)'
      /\ (task.rowSeeds \in Seq(program.seeds))'
  BY <1>2, <1>5, TreeStays DEF IsTask, SettingUp
<1> QED BY <1>5, <1>6, <1>7, <1>8 DEF SettingUp


Attached(objects, c, p, order) ==
  [objects EXCEPT ![c].order = order, ![p].order = IF @ < order THEN order ELSE @,
                  ![p].submodels = Append(@, c)]

LEMMA ModelsAttached ==
  ASSUME NEW objects, NEW c \in DOMAIN objects, NEW p \in DOMAIN objects, c # p,
         IsModel(objects[c]), IsModel(objects[p]), NEW order, NEW edited,
         edited = Attached(objects, c, p, order)
  PROVE  /\ DOMAIN edited = DOMAIN objects
         /\ \A n \in DOMAIN objects : n # c /\ n # p => edited[n] = objects[n]
         /\ edited[c] = [order |-> order, parameters |-> objects[c].parameters,
                         submodels |-> objects[c].submodels, exclusions |-> objects[c].exclusions,
                         rowSeeds |-> objects[c].rowSeeds, results |-> objects[c].results]
         /\ edited[p] = [order |-> IF objects[p].order < order THEN order ELSE objects[p].order,
                         parameters |-> objects[p].parameters,
                         submodels |-> Append(objects[p].submodels, c),
                         exclusions |-> objects[p].exclusions,
                         rowSeeds |-> objects[p].rowSeeds, results |-> objects[p].results]
<1> DEFINE o == objects[p]
           e1 == [objects EXCEPT ![c].order = order]
           top == IF o.order < order THEN order ELSE o.order
           e2 == [e1 EXCEPT ![p].order = IF @ < order THEN order ELSE @]
<1>0. edited = [e2 EXCEPT ![p].submodels = Append(@, c)]
  BY DEF Attached
<1>1. /\ DOMAIN e1 = DOMAIN objects
      /\ \A n \in DOMAIN objects : n # c => e1[n] = objects[n]
      /\ e1[c] = [order |-> order, parameters |-> objects[c].parameters,
                  submodels |-> objects[c].submodels, exclusions |-> objects[c].exclusions,
                  rowSeeds |-> objects[c].rowSeeds, results |-> objects[c].results]
  BY DEF IsModel
<1> HIDE DEF e1
<1>2. /\ DOMAIN e2 = DOMAIN objects
      /\ \A n \in DOMAIN objects : n # p => e2[n] = e1[n]
      /\ e2[p] = [order |-> top, parameters |-> o.parameters, submodels |-> o.submodels,
                  exclusions |-> o.exclusions, rowSeeds |-> o.rowSeeds, results |-> o.results]
  BY <1>1 DEF IsModel
<1> HIDE DEF e2, top
<1> DEFINE list == Append(o.submodels, c)
<1>4. edited = [e2 EXCEPT ![p].submodels = list]
  BY <1>0, <1>2
<1> HIDE DEF list
<1>5. /\ DOMAIN edited = DOMAIN objects
      /\ \A n \in DOMAIN objects : n # p => edited[n] = e2[n]
      /\ edited[p] = [order |-> top, parameters |-> o.parameters, submodels |-> list,
                      exclusions |-> o.exclusions, rowSeeds |-> o.rowSeeds, results |-> o.results]
  BY <1>2, <1>4
<1> QED BY <1>1, <1>2, <1>5 DEF top, list

LEMMA AttachSetsUp ==
  ASSUME program \in Programs, program' = program, SettingUp, PictAttachChildModel
  PROVE  SettingUp'
<1>1. PICK link \in program.links :
        /\ {link.parent, link.child} \subseteq DOMAIN models
        /\ link.child \notin ToSet(models[link.parent].submodels)
        /\ models' = [models EXCEPT
             ![link.child].order = link.order,
             ![link.parent].order = IF @ < link.order THEN link.order ELSE @,
             ![link.parent].submodels = Append(@, link.child)]
        /\ task' = task /\ parameters' = parameters
  BY DEF PictAttachChildModel
<1>2. PICK c, p, order : c = link.child /\ p = link.parent /\ order = link.order
  OBVIOUS
<1>3. /\ c \in DOMAIN models /\ p \in DOMAIN models /\ c # p /\ order \in Int
      /\ c \in Kids(p) /\ c \in Models /\ p \in Models /\ Begun(c) /\ Begun(p)
      /\ c \notin ToSet(models[p].submodels)
  <2>1. c \in DOMAIN models /\ p \in DOMAIN models /\ c \in Kids(p) /\ order \in Int
    BY <1>1, <1>2, ProgramAssumption DEF Kids
  <2>2. c \in Models /\ p \in Models
    BY <2>1 DEF SettingUp
  <2>3. p \in Nat /\ c \in Nat /\ p < c
    BY <2>1, <2>2, ProgramFacts
  <2> QED BY <1>1, <1>2, <2>1, <2>2, <2>3 DEF SettingUp
<1>4. models' = Attached(models, c, p, order)
  BY <1>1, <1>2 DEF Attached
<1>5. /\ DOMAIN models' = DOMAIN models
      /\ \A n \in DOMAIN models : n # c /\ n # p => models'[n] = models[n]
      /\ models'[c] = [order |-> order, parameters |-> models[c].parameters,
                       submodels |-> models[c].submodels, exclusions |-> models[c].exclusions,
                       rowSeeds |-> models[c].rowSeeds, results |-> models[c].results]
      /\ models'[p] = [order |-> IF models[p].order < order THEN order ELSE models[p].order,
                       parameters |-> models[p].parameters,
                       submodels |-> Append(models[p].submodels, c),
                       exclusions |-> models[p].exclusions,
                       rowSeeds |-> models[p].rowSeeds, results |-> models[p].results]
  <2>1. IsModel(models[c]) /\ IsModel(models[p])
    BY <1>3 DEF Begun
  <2> QED BY <1>3, <1>4, <2>1, ModelsAttached
<1>6. \A q : IsInput(q) => IsInput(q)'
  BY <1>1, InputsStay
<1>7. ASSUME NEW n \in {c, p}, IsModel(models'[n]), models'[n].order \in Int,
             models'[n].parameters = models[n].parameters, models'[n].results = models[n].results,
             models'[n].exclusions = models[n].exclusions, models'[n].rowSeeds = models[n].rowSeeds,
             models'[n].submodels \in Seq(Models), IsInjective(models'[n].submodels),
             ToSet(models'[n].submodels) \subseteq Kids(n)
      PROVE  Begun(n)'
  <2>1. \A i \in DOMAIN models[n].parameters :
          models[n].parameters[i] = ParamOf(n, i) /\ IsInput(ParamOf(n, i))'
    BY <1>3, <1>6 DEF Begun
  <2>2. (\A i \in DOMAIN models[n].parameters :
          models[n].parameters[i] = ParamOf(n, i) /\ IsInput(ParamOf(n, i)))'
    BY <1>7, <2>1
  <2>3. (/\ models[n].submodels \in Seq(Models)
         /\ ToSet(models[n].submodels) \subseteq Kids(n))'
    BY <1>7, TreeStays
  <2>4. (/\ models[n].results = <<>> /\ models[n].parameters \in Seq(Int)
         /\ models[n].exclusions = {} /\ models[n].rowSeeds = <<>>
         /\ Len(models[n].parameters) <= Len(program.params[n]))'
    BY <1>3, <1>7 DEF Begun
  <2> QED BY <1>7, <2>2, <2>3, <2>4 DEF Begun
<1>8. Begun(c)'
  <2>1. IsModel(models'[c])
    BY <1>5 DEF IsModel
  <2>2. /\ models'[c].order = order /\ models'[c].submodels = models[c].submodels
        /\ models'[c].parameters = models[c].parameters /\ models'[c].results = models[c].results
        /\ models'[c].exclusions = models[c].exclusions /\ models'[c].rowSeeds = models[c].rowSeeds
    BY <1>5
  <2> QED BY <1>3, <1>7, <2>1, <2>2 DEF Begun
<1>9. Begun(p)'
  <2>1. IsModel(models'[p])
    BY <1>5 DEF IsModel
  <2>2. /\ models'[p].order = IF models[p].order < order THEN order ELSE models[p].order
        /\ models'[p].submodels = Append(models[p].submodels, c)
        /\ models'[p].parameters = models[p].parameters /\ models'[p].results = models[p].results
        /\ models'[p].exclusions = models[p].exclusions /\ models'[p].rowSeeds = models[p].rowSeeds
    BY <1>5
  <2> DEFINE s == models[p].submodels
  <2>3. s \in Seq(Models) /\ IsInjective(s) /\ ToSet(s) \subseteq Kids(p) /\ c \notin ToSet(s)
    BY <1>3 DEF Begun
  <2> HIDE DEF s
  <2>4. /\ Append(s, c) \in Seq(Models) /\ DOMAIN Append(s, c) = 1 .. Len(s) + 1 /\ Len(s) \in Nat
        /\ DOMAIN s = 1 .. Len(s)
        /\ \A i \in 1 .. Len(s) : Append(s, c)[i] = s[i]
        /\ Append(s, c)[Len(s) + 1] = c
    BY <1>3, <2>3
  <2>5. \A i \in 1 .. Len(s) + 1 : i = Len(s) + 1 \/ i \in 1 .. Len(s)
    BY <2>4
  <2>6. \A i \in 1 .. Len(s) : s[i] \in ToSet(s)
    BY <2>4 DEF ToSet
  <2>7. IsInjective(Append(s, c))
    <3> SUFFICES ASSUME NEW i \in 1 .. Len(s) + 1, NEW j \in 1 .. Len(s) + 1, Append(s, c)[i] = Append(s, c)[j]
                 PROVE  i = j
      BY <2>4 DEF IsInjective
    <3>1. \A k, l \in 1 .. Len(s) : s[k] = s[l] => k = l
      BY <2>3, <2>4 DEF IsInjective
    <3> QED BY <2>3, <2>4, <2>5, <2>6, <3>1
  <2>8. ToSet(Append(s, c)) \subseteq Kids(p)
    <3> SUFFICES ASSUME NEW i \in 1 .. Len(s) + 1 PROVE Append(s, c)[i] \in Kids(p)
      BY <2>4 DEF ToSet
    <3> QED BY <1>3, <2>3, <2>4, <2>5, <2>6
  <2>9. models'[p].order \in Int
    BY <1>3, <2>2 DEF Begun
  <2> QED BY <1>7, <2>1, <2>2, <2>4, <2>7, <2>8, <2>9 DEF s
<1>10. \A n \in DOMAIN models : n # c /\ n # p => Begun(n)'
  BY <1>5, <1>6, BegunStays DEF SettingUp
<1>11. IsTask(task)' /\ (task.root = Root => Root \in DOMAIN models)' /\ (DOMAIN models \subseteq Models)'
      /\ (task.rowSeeds \in Seq(program.seeds))'
  BY <1>1, <1>5, TreeStays DEF IsTask, SettingUp
<1> QED BY <1>5, <1>8, <1>9, <1>10, <1>11 DEF SettingUp

LEMMA TaskSetsUp ==
  ASSUME program \in Programs, program' = program, SettingUp, parameters' = parameters, models' = models,
         IsTask(task'), task'.root = Root => Root \in DOMAIN models,
         task'.rowSeeds \in Seq(program.seeds)
  PROVE  SettingUp'
<1>1. \A m \in DOMAIN models : Begun(m)'
  <2>1. \A p : IsInput(p) => IsInput(p)'
    BY InputsStay
  <2> QED BY <2>1, BegunStays DEF SettingUp
<1> QED BY <1>1, TreeStays DEF SettingUp, IsTask

-----------------------------------------------------------------------------
(* The invariant is inductive *)

(* What the client is given has none of the exclusions that rows obey, ... *)
Rid ==
  /\ Wired /\ Root \in Models
  /\ Results \in Seq(ToSet(Results))
  /\ \A e \in task.exclusions : RespectedEverywhere(e) => NoRowHas(Root, e)

(* ... and what it has fetched is what comes before the cursor.            *)
FetchedSoFar ==
  /\ cursor \in 1 .. Len(Results) + 1
  /\ fetched = SubSeq(Results, 1, cursor - 1)
  /\ left = 0 => cursor = Len(Results) + 1

ApiInv ==
  /\ program \in Programs
  /\ pc = "client" => SettingUp /\ bound = {}
  /\ pc \in {"walk", "gcd", "rows"} => \E home : Walking(home)
  /\ pc \in {"generated", "fetch"} /\ Root \in DOMAIN models => Rid
  /\ pc \notin {"fetch", "undefined"} => cursor = NoCursor
  /\ Delivered /\ cursor # NoCursor => FetchedSoFar

LEMMA WalkingStays ==
  ASSUME program \in Programs, program' = program, UNCHANGED treeVars, NEW home, Walking(home)
  PROVE  Walking(home)'
<1>1. UNCHANGED <<pc, parameters, models, task, calls, run, bound>>
  BY DEF treeVars
<1>2. Standing' /\ Housed(home)'
  BY <1>1, TreeAlone DEF Walking
<1>3. \A m : /\ Kids(m)' = Kids(m) /\ Below(m)' = Below(m) /\ GcdParams(m)' = GcdParams(m)
             /\ Fresh(m, home)' <=> Fresh(m, home)
             /\ Finished(m, home)' <=> Finished(m, home)
  BY <1>1, TreeAlone, TreeStays
<1>4. Models' = Models
  BY TreeStays
<1>5. Path'
  <2>1. Path
    BY DEF Walking
  <2>2. (calls \in Seq([model : Models, left : Seq(Models)]) /\ calls # <<>> /\ calls[1].model = Root)'
    BY <1>1, <1>4, <2>1 DEF Path
  <2>3. (\A i \in 1 .. Len(calls) : /\ ToSet(calls[i].left) \subseteq Kids(calls[i].model)
                                   /\ IsInjective(calls[i].left))'
    BY <1>1, <1>3, <2>1 DEF Path
  <2>4. (\A i \in 1 .. Len(calls) - 1 : /\ calls[i + 1].model \in Kids(calls[i].model)
                                       /\ calls[i + 1].model \notin ToSet(calls[i].left))'
    BY <1>1, <1>3, <2>1 DEF Path
  <2> QED BY <2>2, <2>3, <2>4 DEF Path
<1>6. Progress(home)'
  <2>0. Progress(home)
    BY DEF Walking
  <2>1. (\A i \in 1 .. Len(calls) : i < Len(calls) => Fresh(calls[i].model, home))'
    BY <1>1, <1>3, <2>0 DEF Progress
  <2>2. (\A i \in 1 .. Len(calls) : \A c \in ToSet(calls[i].left) : \A x \in Below(c) : Fresh(x, home))'
    BY <1>1, <1>3, <2>0 DEF Progress
  <2>3. (\A i \in 1 .. Len(calls) : \A c \in Kids(calls[i].model) \ ToSet(calls[i].left) :
          InProgress(i, c) \/ Finished(c, home))'
    BY <1>1, <1>3, <2>0 DEF Progress, InProgress
  <2> QED BY <2>1, <2>2, <2>3 DEF Progress
<1>7. PICK m : m = Top.model
  OBVIOUS
<1>8. Top' = Top
  BY <1>1 DEF Top
<1>9. (pc = "walk" => Fresh(Top.model, home))'
  BY <1>1, <1>3, <1>8 DEF Walking
<1>10. /\ m \in Models
       /\ InWork(m, home) => InWork(m, home)' /\ \A r : Valid(m, r)' <=> Valid(m, r)
  <2>1. SameTree
    BY <1>1 DEF SameTree
  <2> QED BY <1>1, <1>7, <2>1, OffPath, InWorkStays DEF Walking
<1>11. (pc # "walk" => Top.left = <<>> /\ InWork(Top.model, home))'
  BY <1>1, <1>7, <1>8, <1>10 DEF Walking
<1>13. (pc = "gcd" => Seeded(Top.model))' /\ (pc # "rows" => bound = {})'
  BY <1>1, <1>8 DEF Walking, Seeded
<1>14. RowInWork => RowInWork'
  <2>1. Self' = Self /\ MyParams' = MyParams
    BY <1>1, <1>8 DEF Self, MyParams
  <2> QED BY <1>1, <2>1, StillInWork DEF RowInWork
<1>12. (pc = "rows" =>
         /\ RowInWork /\ IsFiniteSet(run.rows)
         /\ \A r \in run.rows : r \in RowsOf(GcdParams(Top.model), parameters) /\ Valid(Top.model, r))'
  <2> SUFFICES ASSUME pc = "rows"
               PROVE  /\ RowInWork' /\ IsFiniteSet(run'.rows)
                      /\ \A r \in run'.rows : r \in RowsOf(GcdParams(m), parameters)' /\ Valid(m, r)'
    BY <1>1, <1>7, <1>8
  <2>1. RowsOf(GcdParams(m), parameters)' = RowsOf(GcdParams(m), parameters)
    BY <1>1, <1>3 DEF RowsOf, ValueCounts
  <2>2. InWork(m, home)
    BY <1>7 DEF Walking
  <2> QED BY <1>1, <1>7, <1>10, <1>14, <2>1, <2>2 DEF Walking
<1> QED BY <1>2, <1>5, <1>6, <1>9, <1>11, <1>12, <1>13 DEF Walking

LEMMA RidStays ==
  ASSUME program \in Programs, program' = program, parameters' = parameters, models' = models,
         \/ task'.exclusions \subseteq task.exclusions /\ task'.rowSeeds = task.rowSeeds
         \/ task'.exclusions = {},
         Rid
  PROVE  Rid'
<1>1. \A e : NoRowHas(Root, e)' <=> NoRowHas(Root, e)
  BY DEF NoRowHas, PseudoValues, PseudoValueCount, RowTerms
<1>2. Wired' /\ (Root \in Models)'
  BY TreeStays DEF Wired, Rid
<1>3. (Results \in Seq(ToSet(Results)))'
  BY DEF Rid, Results
<1>4. (\A e \in task.exclusions : RespectedEverywhere(e) => NoRowHas(Root, e))'
  <2>1. CASE task'.exclusions = {}
    BY <2>1
  <2>2. CASE task'.exclusions \subseteq task.exclusions /\ task'.rowSeeds = task.rowSeeds
    <3>1. SameTree /\ Wired
      BY DEF SameTree, Rid
    <3>2. \A e : RespectedEverywhere(e)' <=> RespectedEverywhere(e)
      BY <2>2, <3>1, RespectStays
    <3> QED BY <1>1, <2>2, <3>2 DEF Rid
  <2> QED BY <2>1, <2>2
<1> QED BY <1>2, <1>3, <1>4 DEF Rid

(* The whole task is generated when the root is.                           *)
LEMMA RootReturns ==
  ASSUME program \in Programs, program' = program, task' = task, NEW home, Walking(home), Standing',
         \A m \in {Top.model} : Finished(m, home)', Len(calls) = 1, Return
  PROVE  pc' = "generated" /\ Rid'
<1>1. pc' = "generated" /\ Top.model = Root
  BY DEF Return, Top, Walking, Path
<1>2. Finished(Root, home)' /\ Housed(home)'
  BY <1>1, HousedStays DEF Walking
<1>3. Wired' /\ (Root \in Models)'
  BY DEF Standing
<1>4. (\A e \in task.exclusions : RespectedEverywhere(e) => NoRowHas(Root, e))'
  <2>1. CASE models'[Root].results = <<>>
    <3>1. Len(models'[Root].results) = 0
      BY <2>1
    <3>2. \A v : v \notin PseudoValues(Root)'
      BY <3>1 DEF PseudoValues, PseudoValueCount
    <3> QED BY <3>2 DEF NoRowHas
  <2>2. CASE models'[Root].results # <<>>
    BY <1>2, <2>2 DEF Finished, Housed
  <2> QED BY <2>1, <2>2
<1>5. (Results \in Seq(ToSet(Results)))'
  BY <1>2 DEF Finished, Results
<1> QED BY <1>1, <1>3, <1>4, <1>5 DEF Rid

LEMMA SetupKeeps ==
  ASSUME ApiInv,
         PictCreateModel \/ PictAddParameter \/ PictAttachChildModel
           \/ PictSetRootModel \/ PictAddExclusion \/ PictAddSeed
  PROVE  ApiInv'
<1>1. /\ pc = "client" /\ SettingUp /\ program \in Programs /\ cursor = NoCursor
      /\ program' = program /\ cursor' = cursor /\ bound' = {}
  BY DEF ApiInv, Setup, clientVars, PictCreateModel, PictAddParameter, PictAttachChildModel,
         PictSetRootModel, PictAddExclusion, PictAddSeed
<1>2. pc' = "asserted" \/ (pc' = "client" /\ SettingUp')
  <2>1. CASE PictCreateModel
    BY <1>1, <2>1, CreateModelSetsUp DEF PictCreateModel
  <2>2. CASE PictAddParameter
    BY <1>1, <2>2, AddParameterSetsUp DEF PictAddParameter
  <2>3. CASE PictAttachChildModel
    BY <1>1, <2>3, AttachSetsUp DEF PictAttachChildModel
  <2>4. CASE PictSetRootModel
    <3>1. /\ task' = [task EXCEPT !.root = Root] /\ Root \in DOMAIN models
          /\ UNCHANGED <<pc, parameters, models>>
      BY <2>4 DEF PictSetRootModel
    <3>2. IsTask(task') /\ task'.rowSeeds \in Seq(program.seeds)
      BY <1>1, <3>1 DEF IsTask, SettingUp
    <3> QED BY <1>1, <3>1, <3>2, TaskSetsUp
  <2>5. CASE PictAddExclusion
    <3> SUFFICES ASSUME pc' # "asserted" PROVE pc' = "client" /\ SettingUp'
      OBVIOUS
    <3>1. PICK e : task' = [task EXCEPT !.exclusions = @ \cup {e}] /\ UNCHANGED <<pc, parameters, models>>
      BY <2>5 DEF PictAddExclusion
    <3>2. IsTask(task') /\ task'.root = task.root /\ task'.rowSeeds \in Seq(program.seeds)
      BY <1>1, <3>1 DEF IsTask, SettingUp
    <3>3. SettingUp'
      BY <1>1, <3>1, <3>2, TaskSetsUp DEF SettingUp
    <3> QED BY <1>1, <3>1, <3>3
  <2>6. CASE PictAddSeed
    <3>1. PICK s \in program.seeds : task' = [task EXCEPT !.rowSeeds = Append(@, s)] /\ UNCHANGED <<pc, parameters, models>>
      BY <2>6 DEF PictAddSeed
    <3>2. IsTask(task) /\ task.rowSeeds \in Seq(program.seeds)
      BY <1>1 DEF SettingUp
    <3>3. IsTask(task') /\ task'.root = task.root
      BY <3>1, <3>2 DEF IsTask
    <3>4. task'.rowSeeds = Append(task.rowSeeds, s)
      BY <3>1, <3>2 DEF IsTask
    <3>5. Append(task.rowSeeds, s) \in Seq(program.seeds)
      BY <3>2, AppendProperties
    <3>6. SettingUp'
      BY <1>1, <3>1, <3>3, <3>4, <3>5, TaskSetsUp DEF SettingUp
    <3> QED BY <1>1, <3>1, <3>6
  <2> QED BY <2>1, <2>2, <2>3, <2>4, <2>5, <2>6
<1> QED BY <1>1, <1>2 DEF ApiInv, Delivered

LEMMA GenerationKeeps ==
  ASSUME ApiInv, PictGenerate \/ ((Generate(parameters) \/ TreeStep) /\ UNCHANGED clientVars)
  PROVE  ApiInv'
<1>1. /\ program \in Programs /\ program' = program /\ cursor' = cursor
      /\ pc \notin {"fetch", "undefined"} /\ cursor = NoCursor
  BY DEF ApiInv, clientVars, PictGenerate, Setup, Generate, TreeStep, Descend, GcdReturns,
         GcdBegins, RowBegins, RowUnfinished, BindSeed, BindCombination, PickValue, AddRow, Stuck, GcdEnds
<1>2. CASE PictGenerate
  <2>1. SettingUp /\ bound = {}
    BY <1>2 DEF ApiInv, PictGenerate, Setup
  <2>2. pc' = "walk" /\ \E home : Walking(home)'
    BY <1>1, <1>2, <2>1, GenerationStarts
  <2> QED BY <1>1, <2>2 DEF ApiInv, Delivered
<1>3. CASE Generate(parameters) \/ TreeStep
  <2>1. pc \in {"walk", "gcd", "rows"}
    BY <1>3 DEF Generate, TreeStep, Descend, GcdReturns, GcdBegins, RowBegins, RowUnfinished,
                BindSeed, BindCombination, PickValue, AddRow, Stuck, GcdEnds
  <2>2. PICK home : Walking(home)
    BY <2>1 DEF ApiInv
  <2>3. \/ pc' \in {"asserted", "failed", "undefined"}
        \/ pc' \in {"walk", "gcd", "rows"} /\ Walking(home)'
        \/ pc' = "generated" /\ Rid'
    <3>1. CASE Generate(parameters)
      <4>1. pc' \in {"asserted", "undefined", "gcd"}
        BY <3>1 DEF Generate
      <4> QED BY <1>1, <2>2, <3>1, <4>1, GenerateKeeps
    <3>2. CASE Descend
      BY <1>1, <2>2, <3>2, DescendKeeps DEF Descend
    <3>3. CASE GcdReturns
      <4>1. /\ Standing' /\ SameTree /\ Return /\ task' = task /\ bound' = {}
            /\ \A n \in Models : n # Top.model => models'[n] = models[n]
            /\ \A m \in {Top.model} : Finished(m, home)'
        BY <1>1, <2>2, <3>3, GcdReturnsFinishes
      <4> QED BY <1>1, <2>2, <4>1, ReturnKeeps, RootReturns
    <3>4. CASE GcdBegins
      <4>1. pc' \in {"asserted", "undefined", "rows"}
        BY <3>4 DEF GcdBegins
      <4> QED BY <1>1, <2>2, <3>4, <4>1, GcdBeginsKeeps
    <3>5. CASE BindSeed \/ BindCombination \/ PickValue
      <4>1. pc' \in {"asserted", "rows"}
        BY <3>5 DEF BindSeed, BindCombination, PickValue, RowUnfinished, RowBegins
      <4> QED BY <1>1, <2>2, <3>5, <4>1, RowStepKeeps
    <3>6. CASE AddRow
      <4>1. pc' = "rows"
        BY <3>6 DEF AddRow
      <4> QED BY <1>1, <2>2, <3>6, <4>1, AddRowKeeps
    <3>7. CASE Stuck
      BY <3>7 DEF Stuck
    <3>8. CASE GcdEnds
      <4> SUFFICES ASSUME pc' # "undefined"
                   PROVE  \/ pc' \in {"walk", "gcd", "rows"} /\ Walking(home)'
                          \/ pc' = "generated" /\ Rid'
        OBVIOUS
      <4>1. /\ Standing' /\ SameTree /\ Return /\ task' = task /\ bound' = {}
            /\ \A n \in Models : n # Top.model => models'[n] = models[n]
            /\ \A m \in {Top.model} : Finished(m, home)'
        BY <1>1, <2>2, <3>8, GcdEndsFinishes
      <4> QED BY <1>1, <2>2, <4>1, ReturnKeeps, RootReturns
    <3> QED BY <1>3, <3>1, <3>2, <3>3, <3>4, <3>5, <3>6, <3>7, <3>8 DEF TreeStep
  <2> QED BY <1>1, <2>3 DEF ApiInv, Delivered
<1> QED BY <1>2, <1>3

LEMMA FetchingKeeps ==
  ASSUME ApiInv, PictGenerateReturns \/ PictResetResultFetching \/ PictGetNextResultRow
  PROVE  ApiInv'
<1>1. /\ program \in Programs /\ UNCHANGED <<program, parameters, models, task>>
      /\ pc \in {"generated", "fetch"} /\ pc' \in {"fetch", "undefined"}
  BY DEF ApiInv, PictGenerateReturns, PictResetResultFetching, PictGetNextResultRow, Fetching, treeVars
<1>2. Root \in DOMAIN models => Rid /\ Rid'
  BY <1>1, RidStays DEF ApiInv
<1>3. Results' = Results
  BY <1>1 DEF Results
<1>4. CASE PictGenerateReturns
  <2>1. cursor' = NoCursor
    BY <1>4 DEF ApiInv, PictGenerateReturns
  <2> QED BY <1>1, <1>2, <2>1 DEF ApiInv, Delivered
<1>5. CASE PictResetResultFetching
  <2>1. Rid /\ cursor' = 1 /\ fetched' = <<>> /\ left' = NotFetched
    BY <1>2, <1>5 DEF PictResetResultFetching, Fetching
  <2>2. FetchedSoFar'
    <3>1. SubSeq(Results, 1, 0) = <<>> /\ 1 \in 1 .. Len(Results) + 1
      BY <2>1 DEF Rid
    <3> QED BY <1>3, <2>1, <3>1 DEF FetchedSoFar, NotFetched
  <2> QED BY <1>1, <1>2, <2>2 DEF ApiInv
<1>6. CASE PictGetNextResultRow
  <2>1. /\ Rid /\ FetchedSoFar /\ cursor' = Advanced /\ left' = Len(Results) + 1 - cursor
    BY <1>2, <1>6 DEF PictGetNextResultRow, Fetching, ApiInv, Delivered
  <2>2. ASSUME pc' = "fetch"
        PROVE  FetchedSoFar'
    <3> DEFINE s == Results
    <3>1. s \in Seq(ToSet(s)) /\ Len(s) \in Nat /\ cursor \in 1 .. Len(s) + 1 /\ fetched = SubSeq(s, 1, cursor - 1)
      BY <2>1 DEF Rid, FetchedSoFar
    <3> HIDE DEF s
    <3>2. CASE cursor <= Len(s)
      <4>1. cursor' = cursor + 1 /\ fetched' = Append(fetched, s[cursor])
        BY <1>6, <2>1, <2>2, <3>2 DEF PictGetNextResultRow, Advanced, s
      <4>2. Append(SubSeq(s, 1, cursor - 1), s[cursor]) = SubSeq(s, 1, cursor)
        BY <3>1, <3>2
      <4>3. cursor + 1 \in 1 .. Len(s) + 1 /\ cursor + 1 - 1 = cursor /\ Len(s) + 1 - cursor # 0
        BY <3>1, <3>2
      <4> QED BY <1>3, <2>1, <3>1, <4>1, <4>2, <4>3 DEF FetchedSoFar, s
    <3>3. CASE ~ (cursor <= Len(s))
      <4>1. cursor' = cursor /\ fetched' = fetched
        BY <1>6, <2>1, <3>3 DEF PictGetNextResultRow, Advanced, s
      <4>2. cursor = Len(s) + 1
        BY <3>1, <3>3
      <4> QED BY <1>3, <2>1, <3>1, <4>1, <4>2 DEF FetchedSoFar, s
    <3> QED BY <3>2, <3>3
  <2> QED BY <1>1, <1>2, <2>2 DEF ApiInv, Delivered
<1> QED BY <1>4, <1>5, <1>6

LEMMA DeletingKeeps ==
  ASSUME ApiInv, PictDeleteModel \/ PictDeleteTask
  PROVE  ApiInv'
<1>1. program \in Programs /\ program' = program /\ pc = "fetch" /\ pc' = "fetch"
  BY DEF ApiInv, PictDeleteModel, PictDeleteTask, Fetching, clientVars
<1>2. CASE PictDeleteModel
  <2>1. Root \in DOMAIN models /\ models' = [m \in DOMAIN models \ SubtreeOf(Root) |-> models[m]]
    BY <1>2 DEF PictDeleteModel, Fetching
  <2>2. Rid
    BY <1>1, <2>1 DEF ApiInv
  <2>3. Root \in SubtreeOf(Root)
    BY <1>1, <2>2, SubtreeIsBelow, BelowFacts DEF Rid
  <2>4. Root \notin DOMAIN models'
    BY <2>1, <2>3
  <2> QED BY <1>1, <2>4 DEF ApiInv, Delivered
<1>3. CASE PictDeleteTask
  <2>1. UNCHANGED <<parameters, models>> /\ task' = NoTask /\ cursor' = NoCursor
    BY <1>3 DEF PictDeleteTask
  <2>2. Root \in DOMAIN models => Rid'
    <3> SUFFICES ASSUME Root \in DOMAIN models PROVE Rid'
      OBVIOUS
    <3>1. Rid /\ task'.exclusions = {}
      BY <1>1, <2>1 DEF ApiInv, NoTask
    <3> QED BY <1>1, <2>1, <3>1, RidStays
  <2> QED BY <1>1, <2>1, <2>2 DEF ApiInv, Delivered
<1> QED BY <1>2, <1>3

LEMMA NothingChanges ==
  ASSUME ApiInv, UNCHANGED <<treeVars, program, cursor, left, fetched>>
  PROVE  ApiInv'
<1>1. UNCHANGED <<pc, parameters, models, task, bound, program, cursor, left, fetched>> /\ program \in Programs
  BY DEF treeVars, ApiInv
<1>2. SettingUp => SettingUp'
  <2>1. SettingUp => SettingUp'
    <3> SUFFICES ASSUME SettingUp PROVE SettingUp'
      OBVIOUS
    <3>1. IsTask(task') /\ (task'.root = Root => Root \in DOMAIN models) /\ task'.rowSeeds \in Seq(program.seeds)
      BY <1>1 DEF SettingUp
    <3> QED BY <1>1, <3>1, TaskSetsUp
  <2> QED BY <2>1
<1>3. \A home : Walking(home) => Walking(home)'
  BY <1>1, WalkingStays
<1>4. Rid => Rid'
  BY <1>1, RidStays
<1>5. Results' = Results
  BY <1>1 DEF Results
<1>6. (pc \in {"walk", "gcd", "rows"} => \E home : Walking(home))'
  BY <1>1, <1>3 DEF ApiInv
<1>7. (Delivered /\ cursor # NoCursor => FetchedSoFar)'
  BY <1>1, <1>5 DEF ApiInv, Delivered, FetchedSoFar
<1> QED BY <1>1, <1>2, <1>4, <1>6, <1>7 DEF ApiInv

LEMMA ApiInvInductive ==
  ASSUME ApiInv, [Next]_vars
  PROVE  ApiInv'
<1>1. CASE PictAllocateResultBuffer \/ PictFreeResultBuffer \/ UNCHANGED vars
  <2>1. UNCHANGED <<treeVars, program, cursor, left, fetched>>
    BY <1>1 DEF PictAllocateResultBuffer, PictFreeResultBuffer, vars, clientVars
  <2> QED BY <2>1, NothingChanges
<1> QED BY <1>1, SetupKeeps, GenerationKeeps, FetchingKeeps, DeletingKeeps DEF Next

LEMMA ApiInvInitially ==
  ASSUME Init
  PROVE  ApiInv
<1>1. SettingUp
  <2>1. IsTask(task) /\ task.root # Root
    BY DEF Init, NoTask, IsTask, NoModel, Root
  <2>2. DOMAIN models = {} /\ task.rowSeeds \in Seq(program.seeds)
    BY DEF Init, NoTask
  <2> QED BY <2>1, <2>2 DEF SettingUp
<1> QED BY <1>1 DEF Init, ApiInv, Delivered

(***************************************************************************)
(* At every step the models below a frame are as generate has left them    *)
(* so far: untouched, in work or finished, each with the exclusions that   *)
(* PrepareForGeneration gave it (model.cpp:534-571, task.cpp).             *)
(***************************************************************************)
THEOREM TreeStaysConsistent == Spec => []ApiInv
<1>1. Init => ApiInv
  BY ApiInvInitially
<1>2. ApiInv /\ [Next]_vars => ApiInv'
  BY ApiInvInductive
<1> QED BY <1>1, <1>2, PTL DEF Spec

(***************************************************************************)
(* No row a client is given contains an exclusion of its task that the     *)
(* models it is generated in obey, at one order or at orders one and two   *)
(* with the exclusion a pair, whatever tree the client set up: however the *)
(* exclusions were shared out to the models, and rewritten in terms of     *)
(* pseudo-parameters on the way up (model.cpp:1016-1099, task.cpp), though *)
(* a row is built with each choice checked only against some exclusions    *)
(* (model.cpp:220-350).                                                    *)
(***************************************************************************)
THEOREM RowsHaveNoExclusion == Spec => []NoExcludedRow
<1>1. ApiInv => NoExcludedRow
  <2> SUFFICES ASSUME ApiInv, Delivered, NEW n \in DOMAIN Results,
                      NEW e \in task.exclusions, RespectedEverywhere(e)
               PROVE  ~ (e \subseteq TermsOf(Root, n))
    BY DEF NoExcludedRow
  <2>1. Rid
    BY DEF ApiInv, Delivered
  <2>2. DOMAIN Results = 1 .. Len(Results) /\ Len(Results) \in Nat
    BY <2>1 DEF Rid
  <2>3. n - 1 \in PseudoValues(Root)
    BY <2>2 DEF PseudoValues, PseudoValueCount, Results
  <2> QED BY <2>1, <2>3 DEF Rid, NoRowHas, TermsOf
<1> QED BY <1>1, TreeStaysConsistent, PTL

(***************************************************************************)
(* PictGetNextResultRow gives the rows in order, each once, and has given  *)
(* all of them when it returns zero (pictapi.h:240-250).                   *)
(***************************************************************************)
THEOREM RowsFetchedOnce == Spec => []FetchedEachOnce
<1>1. ApiInv => FetchedEachOnce
  <2> SUFFICES ASSUME ApiInv, Delivered, cursor # NoCursor
               PROVE  /\ Len(fetched) = cursor - 1 /\ IsPrefix(fetched, Results)
                      /\ left = 0 => fetched = Results
    BY DEF FetchedEachOnce
  <2> DEFINE s == Results
  <2>1. /\ s \in Seq(ToSet(s)) /\ cursor \in 1 .. Len(s) + 1 /\ Len(s) \in Nat
        /\ fetched = SubSeq(s, 1, cursor - 1) /\ (left = 0 => cursor = Len(s) + 1)
    BY DEF ApiInv, Delivered, Rid, FetchedSoFar
  <2> HIDE DEF s
  <2>2. /\ Len(fetched) = cursor - 1 /\ Len(fetched) <= Len(s)
        /\ SubSeq(fetched, 1, Len(fetched)) = SubSeq(s, 1, Len(fetched))
    BY <2>1
  <2>3. left = 0 => fetched = s
    BY <2>1
  <2> QED BY <2>2, <2>3 DEF IsPrefix, s
<1> QED BY <1>1, TreeStaysConsistent, PTL

=============================================================================
