------------------------ MODULE DeviceClassesProofs ------------------------
(***************************************************************************)
(* What lvmd reports is what it allocates from, for every configuration    *)
(* that an lvmd of its own accepts: any number of classes, names, volume   *)
(* groups and thin pools.  And what the capacities are for (Placement):    *)
(* pods run beside their volumes, and a selected node has room for them.   *)
(***************************************************************************)
EXTENDS DeviceClasses, Placement, FiniteSetTheorems, TLAPS

Types ==
    /\ config \in Seq(Class)
    /\ phase \in {"start", "build", "refused", "serve"}
    /\ built \in 0..Len(config)

(* A process that builds its maps has accepted the configuration.          *)
Accepted ==
    phase \in {"build", "serve"} =>
        ValidateDeviceClasses /\ \A i \in DOMAIN config : config[i].vg \in PresentVGs

Thin(i) == config[i].type = "thin"

(* Each map has the classes entered so far, under their own keys, and      *)
(* nothing else.                                                           *)
NameMap ==
    /\ DOMAIN byName = Names \cup {NoName}
    /\ \A i \in 1..built : byName[config[i].name] = i
    /\ \A n \in Names \cup {NoName} : byName[n] # 0 => byName[n] \in 1..built /\ config[byName[n]].name = n
VGMap ==
    /\ DOMAIN byVG = VGs
    /\ \A i \in 1..built : ~Thin(i) => byVG[config[i].vg] = i
    /\ \A v \in VGs : byVG[v] # 0 =>
          byVG[v] \in 1..built /\ ~Thin(byVG[v]) /\ config[byVG[v]].vg = v
PoolMap ==
    /\ DOMAIN byPool = VGs \X Pools
    /\ \A i \in 1..built : Thin(i) => byPool[<<config[i].vg, config[i].pool>>] = i
    /\ \A v \in VGs, p \in Pools : byPool[<<v, p>>] # 0 =>
          /\ byPool[<<v, p>>] \in 1..built /\ Thin(byPool[<<v, p>>])
          /\ config[byPool[<<v, p>>]].vg = v /\ config[byPool[<<v, p>>]].pool = p
Default ==
    /\ \A i \in 1..built : config[i].default => defaultDeviceClass = i
    /\ defaultDeviceClass # 0 =>
          defaultDeviceClass \in 1..built /\ config[defaultDeviceClass].default

Progress ==
    /\ phase = "start" => built = 0
    /\ phase = "serve" => built = Len(config)

ClassInv == Types /\ Accepted /\ NameMap /\ VGMap /\ PoolMap /\ Default /\ Progress

-----------------------------------------------------------------------------
(* A configuration is a sequence of classes. *)
LEMMA ConfigIsSeq ==
    ASSUME NEW c \in UNION {[1..n -> Class] : n \in Indexes}
    PROVE  c \in Seq(Class)
    BY ClassAssumption DEF Indexes

(* At most one class is the default one: counted by ValidateDeviceClasses. *)
LEMMA OneDefault ==
    ASSUME config \in Seq(Class), ValidateDeviceClasses,
           NEW i \in DOMAIN config, NEW j \in DOMAIN config,
           config[i].default, config[j].default
    PROVE  i = j
    <1> SUFFICES ASSUME i # j PROVE FALSE
      OBVIOUS
    <1> DEFINE S == {k \in DOMAIN config : config[k].default}
    <1>1. DOMAIN config = 1..Len(config) /\ Len(config) \in Nat
      OBVIOUS
    <1>2. IsFiniteSet(1..Len(config))
      BY <1>1, FS_Interval
    <1>3. IsFiniteSet(S)
      BY <1>1, <1>2, FS_Subset
    <1>4. Cardinality(S) <= 1
      BY DEF ValidateDeviceClasses
    <1>5. IsFiniteSet({i}) /\ Cardinality({i}) = 1
      BY ZenonT(30), FS_Singleton
    <1> DEFINE T == {i} \cup {j}
    <1>6. j \notin {i}
      OBVIOUS
    <1>7. Cardinality(T) = Cardinality({i}) + 1
      BY ZenonT(30), <1>5, <1>6, FS_AddElement
    <1>8. T \in SUBSET S
      OBVIOUS
    <1>9. Cardinality(T) <= Cardinality(S)
      BY ZenonT(30), <1>3, <1>8, FS_Subset
    <1>10. Cardinality(S) \in Nat
      BY <1>3, FS_CardinalityType
    <1> HIDE DEF S, T
    <1> QED BY <1>4, <1>5, <1>7, <1>9, <1>10

(* Two classes of an accepted configuration differ in name and target. *)
LEMMA ClassesDiffer ==
    ASSUME config \in Seq(Class), ValidateDeviceClasses,
           NEW i \in DOMAIN config, NEW j \in DOMAIN config, i # j
    PROVE  config[i].name # config[j].name /\ Target(config[i]) # Target(config[j])
    <1>1. DOMAIN config = 1..Len(config) /\ Len(config) \in Nat
      OBVIOUS
    <1>2. i < j \/ j < i
      BY <1>1
    <1> QED BY <1>2 DEF ValidateDeviceClasses, Distinct

(* One turn of the loop enters the next class under keys nobody has. *)
LEMMA BuildStep ==
    ASSUME ClassInv, NewDeviceClassManager
    PROVE  ClassInv'
    <1> DEFINE i == built + 1
    <1> DEFINE dc == config[i]
    <1> USE DEF ClassInv
    <1>1. DOMAIN config = 1..Len(config) /\ Len(config) \in Nat /\ built \in Nat
      BY DEF Types
    <1>2. i \in DOMAIN config /\ i \notin 1..built /\ phase = "build"
      BY <1>1 DEF NewDeviceClassManager
    <1>3. 1..i = (1..built) \cup {i} /\ 1..i \subseteq DOMAIN config /\ 0 \notin 1..i
      BY <1>1, <1>2
    <1>4. ValidateDeviceClasses
      BY <1>2 DEF Accepted
    <1>5. dc \in Class
      BY <1>1, <1>2 DEF Types
    <1>6. dc.name \in Names \cup {NoName} /\ dc.vg \in VGs /\ (dc.type = "thin" => dc.pool \in Pools)
      BY ZenonT(30), <1>2, <1>4, <1>5 DEF Class, ValidateDeviceClasses, ClassIsValid
    <1>7. ~(dc.type = "thin" /\ dc.pool = NoName)
      BY <1>6, ClassAssumption
    <1>8. /\ built' = i /\ phase' = phase /\ config' = config
          /\ defaultDeviceClass' = IF dc.default THEN i ELSE defaultDeviceClass
          /\ byName' = [byName EXCEPT ![dc.name] = i]
          /\ byVG' = IF dc.type = "thin" THEN byVG ELSE [byVG EXCEPT ![dc.vg] = i]
          /\ byPool' = IF dc.type = "thin" THEN [byPool EXCEPT ![<<dc.vg, dc.pool>>] = i] ELSE byPool
      BY ZenonT(30), <1>7 DEF NewDeviceClassManager
    <1>9. \A k \in 1..built : config[k].name # dc.name /\ Target(config[k]) # Target(dc)
      BY <1>2, <1>3, <1>4, ClassesDiffer DEF Types
    <1>10. \A k \in 1..built : dc.default => ~config[k].default
      BY <1>2, <1>3, <1>4, OneDefault DEF Types
    <1>11. Types' /\ Accepted' /\ Progress'
      BY <1>1, <1>2, <1>8 DEF Types, Accepted, Progress, ValidateDeviceClasses
    <1> HIDE DEF i, dc
    <1>12. dc = config[i]
      BY DEF dc
    <1>13. NameMap'
      BY <1>3, <1>6, <1>8, <1>9, <1>12 DEF NameMap
    <1>14. Default'
      BY ZenonT(30), <1>3, <1>8, <1>10, <1>12 DEF Default
    <1>15. VGMap'
      <2>1. CASE dc.type = "thin"
        BY ZenonT(30), <1>3, <1>8, <1>12, <2>1 DEF VGMap, Thin
      <2>2. CASE dc.type # "thin"
        <3>1. \A k \in 1..built : config[k].type # "thin" => config[k].vg # dc.vg
          BY ZenonT(30), <1>9, <2>2 DEF Target
        <3> QED BY <1>3, <1>6, <1>8, <1>12, <2>2, <3>1 DEF VGMap, Thin
      <2> QED BY <2>1, <2>2
    <1>16. PoolMap'
      <2>1. CASE dc.type # "thin"
        BY <1>3, <1>8, <1>12, <2>1 DEF PoolMap, Thin
      <2>2. CASE dc.type = "thin"
        <3>1. \A k \in 1..built : config[k].type = "thin" =>
                 <<config[k].vg, config[k].pool>> # <<dc.vg, dc.pool>>
          BY ZenonT(30), <1>9, <2>2 DEF Target
        <3> DEFINE key == <<dc.vg, dc.pool>>
        <3>2. byPool' = [byPool EXCEPT ![key] = i] /\ key \in VGs \X Pools
          BY ZenonT(30), <1>6, <1>8, <2>2
        <3>3. /\ DOMAIN byPool' = VGs \X Pools /\ byPool'[key] = i
              /\ \A x \in VGs \X Pools : x # key => byPool'[x] = byPool[x]
          <4> HIDE DEF key
          <4> QED BY ZenonT(30), <3>2 DEF PoolMap
        <3>4. ASSUME NEW k \in 1..i, config[k].type = "thin"
              PROVE  byPool'[<<config[k].vg, config[k].pool>>] = k
          <4>1. CASE k = i
            BY ZenonT(30), <1>12, <3>3, <4>1
          <4>2. CASE k # i
            <5>1. k \in 1..built /\ byPool[<<config[k].vg, config[k].pool>>] = k
              BY ZenonT(30), <1>3, <3>4, <4>2 DEF PoolMap, Thin
            <5>2. <<config[k].vg, config[k].pool>> \in VGs \X Pools
              <6>1. config[k] \in Class /\ ClassIsValid(config[k])
                BY <1>1, <1>2, <1>3, <1>4 DEF Types, ValidateDeviceClasses
              <6> QED BY ZenonT(30), <3>4, <6>1 DEF Class, ClassIsValid
            <5> QED BY ZenonT(30), <3>1, <3>3, <3>4, <5>1, <5>2
          <4> QED BY <4>1, <4>2
        <3>5. ASSUME NEW v \in VGs, NEW p \in Pools, byPool'[<<v, p>>] # 0
              PROVE  /\ byPool'[<<v, p>>] \in 1..i /\ config[byPool'[<<v, p>>]].type = "thin"
                     /\ config[byPool'[<<v, p>>]].vg = v /\ config[byPool'[<<v, p>>]].pool = p
          <4>1. CASE <<v, p>> = key
            BY <1>3, <1>12, <2>2, <3>3, <4>1
          <4>2. CASE <<v, p>> # key
            <5>1. byPool'[<<v, p>>] = byPool[<<v, p>>]
              BY ZenonT(30), <3>3, <4>2
            <5>2. byPool[<<v, p>>] # 0 =>
                     /\ byPool[<<v, p>>] \in 1..built /\ config[byPool[<<v, p>>]].type = "thin"
                     /\ config[byPool[<<v, p>>]].vg = v /\ config[byPool[<<v, p>>]].pool = p
              BY ZenonT(30) DEF PoolMap, Thin
            <5> QED BY ZenonT(30), <1>3, <3>5, <5>1, <5>2
          <4> QED BY <4>1, <4>2
        <3>6. config' = config /\ built' = i
          BY ZenonT(30), <1>8
        <3>7. \A k \in 1..built' : Thin(k)' => byPool'[<<config'[k].vg, config'[k].pool>>] = k
          BY ZenonT(30), <3>4, <3>6 DEF Thin
        <3>8. \A v \in VGs, p \in Pools : byPool'[<<v, p>>] # 0 =>
                 /\ byPool'[<<v, p>>] \in 1..built' /\ config'[byPool'[<<v, p>>]].type = "thin"
                 /\ config'[byPool'[<<v, p>>]].vg = v /\ config'[byPool'[<<v, p>>]].pool = p
          BY <3>5, <3>6
        <3> QED BY ZenonT(30), <3>3, <3>7, <3>8 DEF PoolMap, Thin
      <2> QED BY <2>1, <2>2
    <1> QED BY <1>11, <1>13, <1>14, <1>15, <1>16

(* The other steps leave the maps alone; without a class they are empty. *)
LEMMA OtherSteps ==
    ASSUME ClassInv, ~Embedded, subMain \/ Serve \/ UNCHANGED vars
    PROVE  ClassInv'
    <1> USE DEF ClassInv
    <1>1. /\ config' = config /\ built' = built /\ defaultDeviceClass' = defaultDeviceClass
          /\ byName' = byName /\ byVG' = byVG /\ byPool' = byPool
      BY DEF subMain, Serve, vars
    <1>2. NameMap' /\ VGMap' /\ PoolMap' /\ Default'
      <2>1. NameMap' /\ Default'
        BY ZenonT(30), <1>1 DEF NameMap, Default
      <2>2. VGMap'
        BY ZenonT(30), <1>1 DEF VGMap, Thin
      <2>3. PoolMap'
        BY <1>1 DEF PoolMap, Thin
      <2> QED BY <2>1, <2>2, <2>3
    <1>3. ValidateDeviceClasses' = ValidateDeviceClasses
      BY <1>1 DEF ValidateDeviceClasses
    <1>4. Types' /\ Accepted' /\ Progress'
      BY <1>1, <1>3 DEF Types, Accepted, Progress, subMain, Serve, vars
    <1> QED BY <1>2, <1>4

(* The invariant holds before lvmd has looked at the configuration. *)
LEMMA InitInv ==
    ASSUME Init PROVE ClassInv
    <1>1. config \in Seq(Class)
      BY ConfigIsSeq DEF Init
    <1>2. Types /\ Accepted /\ Progress
      BY <1>1 DEF Init, Types, Accepted, Progress
    <1>3. NameMap /\ VGMap /\ PoolMap /\ Default
      BY DEF Init, NameMap, VGMap, PoolMap, Default
    <1> QED BY <1>2, <1>3 DEF ClassInv

(* The inductive invariant: the three maps and the default class agree     *)
(* with the part of the configuration that has been entered, since         *)
(* ValidateDeviceClasses has seen to it that no two classes share a key.   *)
THEOREM ClassInvariant ==
    ASSUME ~Embedded
    PROVE  Spec => []ClassInv
    <1>1. ASSUME ClassInv, [Next]_vars PROVE ClassInv'
      BY <1>1, BuildStep, OtherSteps DEF Next
    <1> QED BY <1>1, InitInv, PTL DEF Spec

(* lvmd that has accepted its configuration does not panic on it, and      *)
(* finds every class by its name (device_class_manager.go:144).            *)
THEOREM ClassesAreServed ==
    ASSUME ~Embedded
    PROVE  Spec => []EveryClassIsServed
    <1>1. ASSUME ClassInv PROVE EveryClassIsServed
      <2> USE <1>1 DEF ClassInv
      <2>1. phase # "panicked"
        BY DEF Types
      <2>2. ASSUME phase = "serve", NEW i \in DOMAIN config PROVE DeviceClass(config[i].name) = i
        <3>1. i \in 1..built
          BY <2>2 DEF Types, Progress
        <3>2. config[i].name # NoName
          BY <2>2 DEF Accepted, ValidateDeviceClasses, ClassIsValid
        <3> QED BY <3>1, <3>2 DEF NameMap, DeviceClass
      <2> QED BY <2>1, <2>2 DEF EveryClassIsServed
    <1> QED BY <1>1, ClassInvariant, PTL

(* A class that serves a name is the only one, and is never the empty      *)
(* name's unless it is the default.                                        *)
LEMMA Serving ==
    ASSUME ClassInv, phase = "serve", NEW name \in Names \cup {NoName}, NEW i \in DOMAIN config
    PROVE  (IF name = NoName THEN config[i].default ELSE config[i].name = name)
              <=> DeviceClass(name) = i
    <1> USE DEF ClassInv
    <1>1. DOMAIN config = 1..built /\ built \in Nat /\ 0 \notin DOMAIN config
      BY DEF Types, Progress
    <1>2. \A k \in DOMAIN config : config[k].name # NoName
      BY ZenonT(30) DEF Accepted, ValidateDeviceClasses, ClassIsValid
    <1>3. byName[NoName] = 0
      BY <1>1, <1>2 DEF NameMap
    <1>4. CASE name = NoName
      BY <1>1, <1>3, <1>4 DEF Default, DeviceClass
    <1>5. CASE name # NoName
      BY <1>1, <1>5 DEF NameMap, DeviceClass
    <1> QED BY <1>4, <1>5

(* An item of a report is a class with its own target ... *)
LEMMA ItemsAreTargets ==
    ASSUME ClassInv, phase = "serve", NEW j \in Items
    PROVE  j.class \in DOMAIN config /\ j.of = Target(config[j.class])
    <1> USE DEF ClassInv
    <1>1. 0 \notin DOMAIN config
      BY DEF Types
    <1>2. CASE /\ j \in [class : DOMAIN config, of : {<<v, p>> : v \in PresentVGs, p \in Pools}]
               /\ j.class = FindDeviceClassByThinPoolName(j.of[1], j.of[2])
      <2>1. PICK v \in PresentVGs, p \in Pools : j.of = <<v, p>>
        BY <1>2
      <2>2. j.class \in DOMAIN config /\ j.class = byPool[<<v, p>>]
        BY <1>2, <2>1 DEF FindDeviceClassByThinPoolName
      <2>3. v \in VGs
        BY ClassAssumption
      <2>4. Thin(j.class) /\ config[j.class].vg = v /\ config[j.class].pool = p
        BY <1>1, <2>2, <2>3 DEF PoolMap
      <2> QED BY <2>1, <2>2, <2>4 DEF Target, Thin
    <1>3. CASE /\ j \in [class : DOMAIN config, of : {<<v>> : v \in PresentVGs}]
               /\ j.class = FindDeviceClassByVGName(j.of[1])
      <2>1. PICK v \in PresentVGs : j.of = <<v>>
        BY <1>3
      <2>2. j.class \in DOMAIN config /\ j.class = byVG[v]
        BY <1>3, <2>1 DEF FindDeviceClassByVGName
      <2>3. v \in VGs
        BY ClassAssumption
      <2>4. ~Thin(j.class) /\ config[j.class].vg = v
        BY ZenonT(30), <1>1, <2>2, <2>3 DEF VGMap
      <2> QED BY <2>1, <2>2, <2>4 DEF Target, Thin
    <1> QED BY <1>2, <1>3 DEF Items

(* ... and there is one for each class. *)
LEMMA TargetsAreItems ==
    ASSUME ClassInv, phase = "serve", NEW i \in DOMAIN config
    PROVE  [class |-> i, of |-> Target(config[i])] \in Items
    <1> USE DEF ClassInv
    <1>1. i \in 1..built /\ config[i] \in Class
      BY DEF Types, Progress
    <1>2. config[i].vg \in PresentVGs /\ (Thin(i) => config[i].pool \in Pools)
      BY ZenonT(30), <1>1 DEF Accepted, ValidateDeviceClasses, ClassIsValid, Class, Thin
    <1>3. CASE Thin(i)
      <2>1. Target(config[i]) = <<config[i].vg, config[i].pool>>
        BY <1>3 DEF Thin, Target
      <2>2. i = byPool[<<config[i].vg, config[i].pool>>]
        BY <1>1, <1>3 DEF PoolMap
      <2> QED BY <1>2, <1>3, <2>1, <2>2 DEF Items, FindDeviceClassByThinPoolName
    <1>4. CASE ~Thin(i)
      <2>1. Target(config[i]) = <<config[i].vg>>
        BY <1>4 DEF Thin, Target
      <2>2. i = byVG[config[i].vg]
        BY ZenonT(30), <1>1, <1>4 DEF VGMap
      <2> QED BY <1>2, <2>1, <2>2 DEF Items, FindDeviceClassByVGName
    <1> QED BY <1>3, <1>4

(* The capacity annotated for a class (updateNode,                         *)
(* metrics_exporter.go:199) is that of the volume group or thin pool its   *)
(* volumes are created in, and a name without a class has none.            *)
THEOREM CapacityIsTrue ==
    ASSUME ~Embedded
    PROVE  Spec => []CapacityIsOfItsClass
    <1>1. ASSUME ClassInv PROVE CapacityIsOfItsClass
      <2> SUFFICES ASSUME phase = "serve", NEW name \in Names \cup {NoName}
                   PROVE  Annotated(name) = IF DeviceClass(name) = 0 THEN {} ELSE {Allocates(name)}
        BY DEF CapacityIsOfItsClass
      <2> DEFINE d == DeviceClass(name)
      <2> DEFINE Of(c) == IF name = NoName THEN config[c].default ELSE config[c].name = name
      <2>1. \A c \in DOMAIN config : Of(c) <=> d = c
        BY <1>1, Serving
      <2>2. d = 0 \/ d \in DOMAIN config
        BY <1>1 DEF ClassInv, Types, NameMap, Default, DeviceClass
      <2>3. 0 \notin DOMAIN config
        BY <1>1 DEF ClassInv, Types
      <2>4. \A j \in Items : j.class \in DOMAIN config /\ j.of = Target(config[j.class])
        BY <1>1, ItemsAreTargets
      <2>5. Annotated(name) = {j.of : j \in {k \in Items : Of(k.class)}}
        BY DEF Annotated
      <2>6. Allocates(name) = Target(config[d])
        BY DEF Allocates
      <2> HIDE DEF d, Of
      <2>7. {k \in Items : Of(k.class)} = {k \in Items : k.class = d}
        BY <2>1, <2>4
      <2>8. \A j \in Items : j.class = d => j.of = Target(config[d])
        BY <2>4
      <2>9. d # 0 => \E j \in Items : j.class = d
        <3> SUFFICES ASSUME d # 0 PROVE \E j \in Items : j.class = d
          OBVIOUS
        <3>1. [class |-> d, of |-> Target(config[d])] \in Items
          BY <1>1, <2>2, TargetsAreItems
        <3> QED BY <3>1
      <2>10. CASE d = 0
        <3>1. {k \in Items : k.class = d} = {}
          BY <2>3, <2>4, <2>10
        <3> QED BY ZenonT(30), <2>5, <2>7, <2>10, <3>1 DEF d
      <2>11. CASE d # 0
        <3>1. {j.of : j \in {k \in Items : k.class = d}} = {Target(config[d])}
          BY <2>8, <2>9, <2>11
        <3> QED BY ZenonT(30), <2>5, <2>6, <2>7, <2>11, <3>1 DEF d
      <2> QED BY <2>10, <2>11
    <1> QED BY <1>1, ClassInvariant, PTL

-----------------------------------------------------------------------------
(* Sums over the subsets of a finite set, as in CapacityWatchProofs, and   *)
(* what adding claims to the set does to them.                             *)

\* A bound on a number is one on the numbers below it.
LEMMA BelowBound ==
    ASSUME NEW a \in Nat, NEW b \in Nat, NEW c \in Nat, b <= c
    PROVE  /\ a <= b => a <= c
           /\ \A m \in Nat : a < b + m => a < c + m
  OBVIOUS

\* Bounds on two numbers make one on their sum; an excess is added once.
LEMMA AddBounds ==
    ASSUME NEW a \in Nat, NEW b \in Nat, NEW c \in Nat, NEW d \in Nat, NEW m \in Nat
    PROVE  /\ a <= b /\ c <= d => a + c <= b + d
           /\ a <= b /\ c < d + m => a + c < (b + d) + m
           /\ a < b + m /\ c <= d => a + c < (b + d) + m
  OBVIOUS

\* Every set of natural numbers has a least one.
LEMMA LeastNumber == ASSUME NEW T, T \subseteq Nat, T # {} PROVE \E n \in T : \A m \in T : n <= m
<1>1. PICK x \in T : \A y \in T : ~ (<<y, x>> \in OpToRel(<, Nat))
  BY ZenonT(30), NatLessThanWellFounded, WFMin
<1>2. \A y \in T : ~ (y < x)
  BY ZenonT(30), <1>1 DEF OpToRel
<1> QED
  BY <1>2

Pick(s) == CHOOSE x \in s : TRUE

Sums(v, S) == CHOOSE f : f = [s \in SUBSET S |-> IF s = {} THEN 0 ELSE v[Pick(s)] + f[s \ {Pick(s)}]]

\* A set that is not empty has its pick.
LEMMA PickIn == ASSUME NEW s, s # {} PROVE Pick(s) \in s
  BY DEF Pick

\* Without its pick, or any other element, a finite set has one element less.
LEMMA OneLess ==
    ASSUME NEW s, IsFiniteSet(s), NEW x \in s
    PROVE  /\ IsFiniteSet(s \ {x}) /\ Cardinality(s \ {x}) = Cardinality(s) - 1
           /\ Cardinality(s) \in Nat \ {0} /\ Cardinality(s \ {x}) \in Nat
<1>1. IsFiniteSet(s \ {x}) /\ Cardinality(s \ {x}) = Cardinality(s) - 1
  BY ZenonT(30), FS_RemoveElement
<1>2. Cardinality(s) \in Nat /\ Cardinality(s \ {x}) \in Nat
  BY ZenonT(30), <1>1, FS_CardinalityType
<1>3. Cardinality(s) # 0
  BY ZenonT(30), FS_EmptySet
<1> QED
  BY <1>1, <1>2, <1>3

\* The recursive definition of the sums defines them.
LEMMA SumsDefined ==
    ASSUME NEW S, IsFiniteSet(S), NEW v
    PROVE  LET f == Sums(v, S)
           IN  f = [s \in SUBSET S |-> IF s = {} THEN 0 ELSE v[Pick(s)] + f[s \ {Pick(s)}]]
<1> DEFINE D(n)       == {s \in SUBSET S : Cardinality(s) <= n}
           Good(n, f) == f = [s \in D(n) |-> IF s = {} THEN 0 ELSE v[Pick(s)] + f[s \ {Pick(s)}]]
           Bad        == {n \in Nat : ~ \E f : Good(n, f)}
<1>1. \A s \in SUBSET S : IsFiniteSet(s) /\ Cardinality(s) \in Nat
  BY ZenonT(30), FS_Subset, FS_CardinalityType
<1>2. Bad = {}
  <2> SUFFICES ASSUME Bad # {} PROVE FALSE
    BY ZenonT(30)
  <2>1. PICK n \in Bad : \A m \in Bad : n <= m
    <3>1. Bad \subseteq Nat
      OBVIOUS
    <3> HIDE DEF Bad
    <3> QED
      BY ZenonT(30), <3>1, LeastNumber
  <2>2. n \in Nat /\ ~ \E f : Good(n, f)
    BY ZenonT(30)
  <2>3. CASE n = 0
    <3> DEFINE f == [s \in D(n) |-> 0]
    <3>1. \A s \in D(n) : s = {}
      <4> SUFFICES ASSUME NEW s \in D(n) PROVE s = {}
        BY ZenonT(30)
      <4>1. IsFiniteSet(s) /\ Cardinality(s) \in Nat /\ Cardinality(s) <= 0
        BY <1>1, <2>3
      <4>2. Cardinality(s) = 0
        BY <4>1
      <4> QED
        BY ZenonT(30), <4>1, <4>2, FS_EmptySet
    <3>2. Good(n, f)
      BY ZenonT(30), <3>1
    <3> QED
      BY ZenonT(30), <2>2, <3>2
  <2>4. CASE n # 0
    <3>1. n - 1 \in Nat /\ ~ (n <= n - 1)
      BY <2>2, <2>4
    <3>2. PICK g : Good(n - 1, g)
      BY ZenonT(30), <2>1, <3>1
    <3> DEFINE f == [s \in D(n) |-> IF s = {} THEN 0 ELSE v[Pick(s)] + g[s \ {Pick(s)}]]
    <3>3. ASSUME NEW s \in D(n), s # {} PROVE f[s \ {Pick(s)}] = g[s \ {Pick(s)}]
      <4> DEFINE t == s \ {Pick(s)}
      <4>1. Cardinality(t) <= n - 1 /\ Cardinality(t) <= n
        BY <1>1, <2>2, <3>3, PickIn, OneLess
      <4>2. t \in D(n - 1) /\ t \in D(n)
        BY ZenonT(30), <4>1
      <4> HIDE DEF t
      <4>3. f[t] = IF t = {} THEN 0 ELSE v[Pick(t)] + g[t \ {Pick(t)}]
        BY ZenonT(30), <4>2
      <4>4. g[t] = IF t = {} THEN 0 ELSE v[Pick(t)] + g[t \ {Pick(t)}]
        BY ZenonT(30), <3>2, <4>2
      <4> QED
        BY ZenonT(30), <4>3, <4>4 DEF t
    <3>4. Good(n, f)
      <4>1. \A s \in D(n) : (IF s = {} THEN 0 ELSE v[Pick(s)] + g[s \ {Pick(s)}])
                              = (IF s = {} THEN 0 ELSE v[Pick(s)] + f[s \ {Pick(s)}])
        BY ZenonT(30), <3>3
      <4> QED
        BY ZenonT(30), <4>1
    <3> QED
      BY ZenonT(30), <2>2, <3>4
  <2> QED
    BY <2>3, <2>4
<1>3. \E f : f = [s \in SUBSET S |-> IF s = {} THEN 0 ELSE v[Pick(s)] + f[s \ {Pick(s)}]]
  <2> DEFINE N == Cardinality(S)
  <2>1. N \in Nat
    BY ZenonT(30), FS_CardinalityType
  <2>2. PICK f : Good(N, f)
    BY ZenonT(30), <1>2, <2>1
  <2>3. D(N) = SUBSET S
    BY ZenonT(30), FS_Subset
  <2> QED
    BY ZenonT(30), <2>2, <2>3
<1> QED
  BY ZenonT(30), <1>3 DEF Sums

\* The equation of a sum.
LEMMA SumsAt ==
    ASSUME NEW S, IsFiniteSet(S), NEW v, NEW s \in SUBSET S
    PROVE  Sums(v, S)[s] = IF s = {} THEN 0 ELSE v[Pick(s)] + Sums(v, S)[s \ {Pick(s)}]
<1> DEFINE f == Sums(v, S)
           h == [t \in SUBSET S |-> IF t = {} THEN 0 ELSE v[Pick(t)] + f[t \ {Pick(t)}]]
<1>1. f = h
  BY ZenonT(30), SumsDefined
<1>2. h[s] = IF s = {} THEN 0 ELSE v[Pick(s)] + f[s \ {Pick(s)}]
  BY ZenonT(30)
<1>3. f[s] = h[s]
  <2> HIDE DEF h, f
  <2> QED
    BY ZenonT(30), <1>1
<1> HIDE DEF h
<1> QED
  BY ZenonT(30), <1>2, <1>3

\* The same for all subsets at once.
LEMMA SumsStep ==
    ASSUME NEW S, IsFiniteSet(S), NEW v
    PROVE  \A s \in SUBSET S :
               Sums(v, S)[s] = IF s = {} THEN 0 ELSE v[Pick(s)] + Sums(v, S)[s \ {Pick(s)}]
BY ZenonT(30), SumsAt

\* Induction over the subsets of a finite set.
LEMMA SubsetInduction ==
    ASSUME NEW S, IsFiniteSet(S), NEW T,
           \A s \in SUBSET S : (\A x \in s : s \ {x} \in T) => s \in T
    PROVE  \A s \in SUBSET S : s \in T
<1> DEFINE Bad == {n \in Nat : \E s \in SUBSET S : s \notin T /\ Cardinality(s) = n}
<1>1. \A s \in SUBSET S : IsFiniteSet(s) /\ Cardinality(s) \in Nat
  BY ZenonT(30), FS_Subset, FS_CardinalityType
<1>2. SUFFICES ASSUME Bad # {} PROVE FALSE
  <2> SUFFICES ASSUME NEW s \in SUBSET S, s \notin T PROVE Bad # {}
    BY ZenonT(30)
  <2>1. Cardinality(s) \in Bad
    BY ZenonT(30), <1>1
  <2> QED
    BY ZenonT(30), <2>1
<1>3. PICK n \in Bad : \A m \in Bad : n <= m
  <2>1. Bad \subseteq Nat
    BY ZenonT(30)
  <2> HIDE DEF Bad
  <2> QED
    BY ZenonT(30), <1>2, <2>1, LeastNumber
<1>4. PICK s \in SUBSET S : s \notin T /\ Cardinality(s) = n
  BY ZenonT(30)
<1>5. ASSUME NEW x \in s PROVE s \ {x} \in T
  <2>0. IsFiniteSet(s)
    BY ZenonT(30), <1>1
  <2>1. /\ Cardinality(s \ {x}) = n - 1 /\ n \in Nat /\ n - 1 \in Nat
    <3>1. Cardinality(s \ {x}) = Cardinality(s) - 1 /\ Cardinality(s \ {x}) \in Nat
          /\ Cardinality(s) \in Nat \ {0}
      BY ZenonT(30), <2>0, OneLess
    <3> HIDE DEF Bad
    <3> QED
      BY <1>4, <3>1
  <2>2. ~ (n <= n - 1)
    BY <2>1
  <2>3. n - 1 \notin Bad
    BY ZenonT(30), <1>3, <2>2
  <2>4. s \ {x} \in SUBSET S
    BY ZenonT(30)
  <2> QED
    BY ZenonT(30), <2>1, <2>3, <2>4
<1> QED
  BY ZenonT(30), <1>4, <1>5

\* Sums are natural numbers.
LEMMA SumsNat ==
    ASSUME NEW S, IsFiniteSet(S), NEW v \in [S -> Nat]
    PROVE  \A s \in SUBSET S : Sums(v, S)[s] \in Nat
<1> DEFINE f == Sums(v, S)
           T == {s \in SUBSET S : f[s] \in Nat}
<1>1. ASSUME NEW s \in SUBSET S, \A x \in s : s \ {x} \in T PROVE s \in T
  <2>1. f[s] = IF s = {} THEN 0 ELSE v[Pick(s)] + f[s \ {Pick(s)}]
    BY ZenonT(30), SumsAt
  <2>2. CASE s = {}
    BY <2>1, <2>2
  <2>3. CASE s # {}
    <3>1. Pick(s) \in S /\ v[Pick(s)] \in Nat /\ f[s \ {Pick(s)}] \in Nat
      BY ZenonT(30), <1>1, <2>3, PickIn
    <3> QED
      BY <2>1, <2>3, <3>1
  <2> QED
    BY <2>2, <2>3
<1> HIDE DEF T
<1>2. \A s \in SUBSET S : s \in T
  BY ZenonT(30), <1>1, SubsetInduction
<1> QED
  BY ZenonT(30), <1>2 DEF T

\* The order in which the elements are added does not matter.
LEMMA SumsAnyOrder ==
    ASSUME NEW S, IsFiniteSet(S), NEW v \in [S -> Nat]
    PROVE  \A s \in SUBSET S : \A x \in s : Sums(v, S)[s] = v[x] + Sums(v, S)[s \ {x}]
<1> DEFINE f == Sums(v, S)
           T == {s \in SUBSET S : \A x \in s : f[s] = v[x] + f[s \ {x}]}
<1>1. ASSUME NEW s \in SUBSET S, \A y \in s : s \ {y} \in T PROVE s \in T
  <2> SUFFICES ASSUME NEW x \in s PROVE f[s] = v[x] + f[s \ {x}]
    BY ZenonT(30)
  <2> DEFINE c == Pick(s)
  <2>1. c \in s /\ f[s] = v[c] + f[s \ {c}]
    BY ZenonT(30), SumsAt, PickIn
  <2>2. CASE c = x
    BY ZenonT(30), <2>1, <2>2
  <2>3. CASE c # x
    <3> DEFINE rest == s \ {c, x}
    <3> HIDE DEF c
    <3>1. s \ {c} \in T /\ s \ {x} \in T /\ x \in s \ {c} /\ c \in s \ {x}
      BY ZenonT(30), <1>1, <2>1, <2>3
    <3>2. (s \ {c}) \ {x} = rest /\ (s \ {x}) \ {c} = rest
      BY ZenonT(30)
    <3>3. f[s \ {c}] = v[x] + f[rest] /\ f[s \ {x}] = v[c] + f[rest]
      BY ZenonT(30), <3>1, <3>2
    <3>4. v[x] \in Nat /\ v[c] \in Nat /\ f[rest] \in Nat
      BY ZenonT(30), <2>1, SumsNat
    <3> HIDE DEF f, rest
    <3> QED
      BY <2>1, <3>3, <3>4
  <2> QED
    BY ZenonT(30), <2>2, <2>3
<1> HIDE DEF T
<1>2. \A s \in SUBSET S : s \in T
  BY ZenonT(30), <1>1, SubsetInduction
<1> QED
  BY ZenonT(30), <1>2 DEF T

\* A sum over some of the elements is one of the sums over all of them.
LEMMA SumsWithin ==
    ASSUME NEW S, IsFiniteSet(S), NEW A \in SUBSET S, NEW v
    PROVE  \A s \in SUBSET A : Sums(v, A)[s] = Sums(v, S)[s]
<1> DEFINE f == Sums(v, A)
           g == Sums(v, S)
           T == {s \in SUBSET A : f[s] = g[s]}
<1>0. IsFiniteSet(A)
  BY ZenonT(30), FS_Subset
<1>1. ASSUME NEW s \in SUBSET A, \A x \in s : s \ {x} \in T PROVE s \in T
  <2>0. s \in SUBSET S
    BY ZenonT(30)
  <2>1. f[s] = IF s = {} THEN 0 ELSE v[Pick(s)] + f[s \ {Pick(s)}]
    BY ZenonT(30), <1>0, SumsAt
  <2>2. g[s] = IF s = {} THEN 0 ELSE v[Pick(s)] + g[s \ {Pick(s)}]
    BY ZenonT(30), <2>0, SumsAt
  <2>3. s # {} => f[s \ {Pick(s)}] = g[s \ {Pick(s)}]
    BY ZenonT(30), <1>1, PickIn
  <2> QED
    BY ZenonT(30), <2>1, <2>2, <2>3
<1> HIDE DEF T
<1>2. \A s \in SUBSET A : s \in T
  BY ZenonT(30), <1>0, <1>1, SubsetInduction
<1> QED
  BY ZenonT(30), <1>2 DEF T

\* More elements, a larger sum.
LEMMA SumsGrow ==
    ASSUME NEW S, IsFiniteSet(S), NEW v \in [S -> Nat]
    PROVE  \A t \in SUBSET S : \A s \in SUBSET t : Sums(v, S)[s] <= Sums(v, S)[t]
<1> DEFINE f == Sums(v, S)
           T == {t \in SUBSET S : \A s \in SUBSET t : f[s] <= f[t]}
<1>0. \A t \in SUBSET S : f[t] \in Nat
  BY ZenonT(30), SumsNat
<1>1. ASSUME NEW t \in SUBSET S, \A x \in t : t \ {x} \in T PROVE t \in T
  <2> SUFFICES ASSUME NEW s \in SUBSET t PROVE f[s] <= f[t]
    BY ZenonT(30)
  <2>1. CASE s = t
    <3>1. f[t] \in Nat
      BY ZenonT(30), <1>0
    <3> HIDE DEF f
    <3> QED
      BY <2>1, <3>1
  <2>2. CASE s # t
    <3>1. PICK x \in t : x \notin s
      BY ZenonT(30), <2>2
    <3>2. s \in SUBSET (t \ {x}) /\ t \ {x} \in T
      BY ZenonT(30), <1>1, <3>1
    <3>3. f[s] <= f[t \ {x}]
      BY ZenonT(30), <3>2
    <3>4. f[t] = v[x] + f[t \ {x}]
      <4>1. \A u \in SUBSET S : \A y \in u : f[u] = v[y] + f[u \ {y}]
        BY ZenonT(30), SumsAnyOrder
      <4> QED
        BY ZenonT(30), <4>1
    <3>5. f[s] \in Nat /\ f[t \ {x}] \in Nat /\ v[x] \in Nat
      BY ZenonT(30), <1>0
    <3> HIDE DEF f
    <3> QED
      BY <3>3, <3>4, <3>5
  <2> QED
    BY <2>1, <2>2
<1> HIDE DEF T
<1>2. \A t \in SUBSET S : t \in T
  BY ZenonT(30), <1>1, SubsetInduction
<1> QED
  BY ZenonT(30), <1>2 DEF T

-----------------------------------------------------------------------------
(***************************************************************************)
(* Where CreateVolume's volumes are: for every set of pods, claims and     *)
(* nodes, any sizes and capacities, and any number of restarts and         *)
(* timeouts of binding.                                                    *)
(***************************************************************************)
\* What the proofs need of the constants.
LEMMA NamesAreApart == OwnerOf \in [Claims -> Pods] /\ "absent" \notin Nodes /\ "pending" \notin Nodes
  BY PlacementAssumption

PlacedShape ==
    /\ pod \in [Pods -> {"new", "pending", "scheduled", "running"}]
    /\ selected \in [Pods -> Nodes \cup {None}]
    /\ claim \in [Claims -> Nodes \cup {"absent", "pending"}]

(* From its scheduling on, what a pod has of its volumes is on its node.   *)
OnItsNode ==
    \A p \in Pods : pod[p] \in {"scheduled", "running"} =>
        /\ selected[p] \in Nodes
        /\ \A c \in Claims : OwnerOf[c] = p /\ claim[c] \in Nodes => claim[c] = selected[p]

HasThemAll ==
    \A p \in Pods : pod[p] = "running" => \A c \in Claims : OwnerOf[c] = p => claim[c] \in Nodes

PlacedInv == PlacedShape /\ OnItsNode /\ HasThemAll

\* A step that takes pod p off its node, and binds or creates no claim.
LEMMA UnplacedStep ==
    ASSUME PlacedInv, NEW p \in Pods, Unplaced(p), claim' = claim
    PROVE  PlacedInv'
<1>1. pod' = [pod EXCEPT ![p] = "pending"] /\ selected' = [selected EXCEPT ![p] = None]
  BY DEF Unplaced
<1>2. PlacedShape'
  BY ZenonT(30), <1>1 DEF PlacedInv, PlacedShape
<1>3. OnItsNode' /\ HasThemAll'
  BY ZenonT(30), <1>1 DEF PlacedInv, PlacedShape, OnItsNode, HasThemAll
<1> QED
  BY <1>2, <1>3 DEF PlacedInv

\* The webhook, the extender and kube-scheduler: a pod with volumes goes to
\* their node.
LEMMA PodSteps ==
    ASSUME PlacedInv, NEW p \in Pods,
           Handle(p) \/ Schedule(p) \/ Run(p)
               \/ BindTimeout(p) \/ Restart(p)
    PROVE  PlacedInv'
<1> USE NamesAreApart DEF PlacedInv, PlacedShape, OnItsNode, HasThemAll, Bound, ClaimsOf
<1>1. CASE Handle(p)
  BY ZenonT(30), <1>1 DEF Handle
<1>2. CASE Schedule(p)
  <2>1. PICK n \in Nodes :
            /\ \A c \in Claims : OwnerOf[c] = p /\ claim[c] \in Nodes => claim[c] = n
            /\ selected' = [selected EXCEPT ![p] = n]
    BY ZenonT(30), <1>2 DEF Schedule, filterNodes
  <2>2. pod[p] = "pending" /\ pod' = [pod EXCEPT ![p] = "scheduled"] /\ claim' = claim
    BY ZenonT(30), <1>2 DEF Schedule
  <2> QED
    BY ZenonT(30), <2>1, <2>2
<1>3. CASE Run(p)
  BY ZenonT(30), <1>3 DEF Run
<1>4. CASE BindTimeout(p)
  BY ZenonT(30), <1>4, UnplacedStep DEF BindTimeout
<1>5. CASE Restart(p)
  <2>1. /\ pod' = [pod EXCEPT ![p] = "new"] /\ selected' = [selected EXCEPT ![p] = None]
        /\ claim' = [c \in Claims |-> IF c \in {d \in ClaimsOf(p) : d \in Ephemeral} THEN "absent" ELSE claim[c]]
    BY ZenonT(30), <1>5 DEF Restart
  <2>2. \A c \in Claims : OwnerOf[c] # p => claim'[c] = claim[c]
    BY ZenonT(30), <2>1
  <2>3. claim' \in [Claims -> Nodes \cup {"absent", "pending"}]
    BY ZenonT(30), <2>1
  <2> QED
    BY ZenonT(30), <2>1, <2>2, <2>3
<1> QED
  BY ZenonT(30), <1>1, <1>2, <1>3, <1>4, <1>5

\* CreateVolume allocates on the node that is selected now.
LEMMA ClaimSteps ==
    ASSUME PlacedInv, NEW c \in Claims, CreateClaim(c) \/ CreateVolumeOf(c)
    PROVE  PlacedInv'
<1> USE NamesAreApart DEF PlacedInv, PlacedShape, OnItsNode, HasThemAll
<1>1. CASE CreateClaim(c)
  BY <1>1 DEF CreateClaim, podVars
<1>2. CASE CreateVolumeOf(c)
  <2> DEFINE p == OwnerOf[c]
  <2>0. p \in Pods /\ pod[p] = "scheduled" /\ claim[c] = "pending"
    BY ZenonT(30), <1>2 DEF CreateVolumeOf
  <2>1. CASE claim' = [claim EXCEPT ![c] = selected[p]] /\ UNCHANGED <<pod, selected>>
    BY ZenonT(30), <2>0, <2>1
  <2>2. CASE Unplaced(p) /\ claim' = claim
    BY ZenonT(30), <2>0, <2>2, UnplacedStep
  <2> QED
    BY ZenonT(30), <1>2, <2>1, <2>2 DEF CreateVolumeOf
<1> QED
  BY ZenonT(30), <1>1, <1>2

\* At first no pod is anywhere.
LEMMA PlacedAtFirst == ASSUME PlacementInit PROVE PlacedInv
  BY ZenonT(30) DEF PlacementInit, PlacedInv, PlacedShape, OnItsNode, HasThemAll

\* Volumes stay with their pods.
LEMMA PlacedStep == ASSUME PlacedInv, [PlacementNext]_placementVars PROVE PlacedInv'
<1>1. CASE UNCHANGED <<pod, selected, claim>>
  BY <1>1 DEF PlacedInv, PlacedShape, OnItsNode, HasThemAll
<1>2. CASE UNCHANGED placementVars
  BY <1>1, <1>2 DEF placementVars, podVars
<1>3. CASE \E n \in Nodes : Report(n)
  BY <1>1, <1>3 DEF Report, podVars
<1> QED
  BY ZenonT(30), <1>2, <1>3, PodSteps, ClaimSteps DEF PlacementNext

\* A pod that runs is on the node of all its volumes, for every race of pods
\* for the same space, stale annotations, rescheduled pods and restarts: the
\* node CreateVolume allocates on (controller.go) is the one the pod was
\* scheduled to.
THEOREM VolumesAreWithTheirPods == PlacementSpec => []RunsWithItsVolumes
<1>1. PlacementInit => PlacedInv
  BY ZenonT(30), PlacedAtFirst
<1>2. PlacedInv /\ [PlacementNext]_placementVars => PlacedInv'
  BY ZenonT(30), PlacedStep
<1>3. PlacedInv => RunsWithItsVolumes
  BY ZenonT(30) DEF PlacedInv, OnItsNode, HasThemAll, RunsWithItsVolumes, ClaimsOf
<1> QED
  BY <1>1, <1>2, <1>3, PTL DEF PlacementSpec

-----------------------------------------------------------------------------
(* What the webhook requests is enough.  The webhook adds up requests as   *)
(* they are, CreateVolume rounds each of them up: the sum of the rounded   *)
(* ones exceeds the other by less than a sector if one request at most is  *)
(* not whole sectors, and the free space is whole sectors.                 *)

\* What SumOver computes.
LEMMA SumOverIsSum ==
    ASSUME NEW S, IsFiniteSet(S), NEW A \in SUBSET S, NEW v
    PROVE  SumOver(A, v) = Sums(v, S)[A]
<1>1. SumOver(A, v) = Sums(v, A)[A]
  BY ZenonT(30) DEF SumOver, MapThenSumSet, MapThenFoldSet, Sums, Pick
<1>2. Sums(v, A)[A] = Sums(v, S)[A]
  <2>1. \A s \in SUBSET A : Sums(v, A)[s] = Sums(v, S)[s]
    BY ZenonT(30), SumsWithin
  <2> QED
    BY ZenonT(30), <2>1
<1> QED
  BY ZenonT(30), <1>1, <1>2

Whole(n) == \E k \in Nat : n = k * MinimumSectorSize

\* Whole sectors add up to whole sectors.
LEMMA WholeSum ==
    ASSUME NEW a, NEW b, Whole(a), Whole(b) PROVE Whole(a + b)
<1>1. PICK j \in Nat : a = j * MinimumSectorSize
  BY DEF Whole
<1>2. PICK k \in Nat : b = k * MinimumSectorSize
  BY DEF Whole
<1>3. MinimumSectorSize \in Nat
  BY SizeAssumption
<1>4. a + b = (j + k) * MinimumSectorSize /\ j + k \in Nat
  BY <1>1, <1>2, <1>3
<1> QED
  BY ZenonT(30), <1>4 DEF Whole

\* The same for any number of them.
LEMMA SumsWhole ==
    ASSUME NEW S, IsFiniteSet(S), NEW v \in [S -> Nat], \A x \in S : Whole(v[x])
    PROVE  \A s \in SUBSET S : Whole(Sums(v, S)[s])
<1> DEFINE f == Sums(v, S)
           T == {s \in SUBSET S : Whole(f[s])}
<1>0. Whole(0)
  <2>1. 0 = 0 * MinimumSectorSize
    BY SizeAssumption
  <2> QED
    BY <2>1 DEF Whole
<1>1. ASSUME NEW s \in SUBSET S, \A x \in s : s \ {x} \in T PROVE s \in T
  <2>1. f[s] = IF s = {} THEN 0 ELSE v[Pick(s)] + f[s \ {Pick(s)}]
    BY ZenonT(30), SumsAt
  <2>2. s # {} => Whole(v[Pick(s)]) /\ Whole(f[s \ {Pick(s)}])
    BY ZenonT(30), <1>1, PickIn
  <2>3. s # {} => Whole(v[Pick(s)] + f[s \ {Pick(s)}])
    BY ZenonT(30), <2>2, WholeSum
  <2> QED
    BY ZenonT(30), <1>0, <2>1, <2>3
<1> HIDE DEF T
<1>2. \A s \in SUBSET S : s \in T
  BY ZenonT(30), <1>1, SubsetInduction
<1> QED
  BY ZenonT(30), <1>2 DEF T

\* Division with remainder.
LEMMA Division ==
    ASSUME NEW a \in Nat, NEW b \in Nat \ {0}
    PROVE  a \div b \in Nat /\ a % b \in 0..(b - 1) /\ a = (a \div b) * b + (a % b)
  BY SMT

\* Between a number of whole sectors and the next there is none.
LEMMA NextWhole ==
    ASSUME NEW a, NEW b, Whole(a), Whole(b), a < b + MinimumSectorSize PROVE a <= b
<1> DEFINE m == MinimumSectorSize
<1>1. PICK j \in Nat : a = j * m
  BY DEF Whole
<1>2. PICK k \in Nat : b = k * m
  BY DEF Whole
<1>3. m \in Nat \ {0}
  BY SizeAssumption
<1>4. CASE j <= k
  <2>1. k - j \in Nat
    BY <1>4
  <2>2. k * m = j * m + (k - j) * m /\ (k - j) * m \in Nat /\ j * m \in Nat
    BY <1>3, <2>1
  <2> QED
    BY <1>1, <1>2, <2>2
<1>5. CASE j > k
  <2>1. j - k - 1 \in Nat
    BY <1>5
  <2>2. j * m = k * m + m + (j - k - 1) * m /\ (j - k - 1) * m \in Nat /\ k * m \in Nat
    BY <1>3, <2>1
  <2> QED
    BY <1>1, <1>2, <1>3, <2>2
<1> QED
  BY <1>4, <1>5

\* Sizes without a remainder are whole sectors.
LEMMA NoRemainder == ASSUME NEW n \in Nat, n % MinimumSectorSize = 0 PROVE Whole(n)
<1>1. MinimumSectorSize \in Nat \ {0}
  BY SizeAssumption
<1>2. n \div MinimumSectorSize \in Nat /\ n = (n \div MinimumSectorSize) * MinimumSectorSize
  <2>1. /\ n \div MinimumSectorSize \in Nat
        /\ n = (n \div MinimumSectorSize) * MinimumSectorSize + (n % MinimumSectorSize)
    BY ZenonT(30), <1>1, Division
  <2>2. (n \div MinimumSectorSize) * MinimumSectorSize \in Nat
    BY <1>1, <2>1
  <2> QED
    BY <2>1, <2>2
<1> QED
  BY ZenonT(30), <1>2 DEF Whole

\* A request without a limit is given the least whole sectors that hold it.
LEMMA LeastSectors ==
    ASSUME NEW w \in Nat \ {0}, w + MinimumSectorSize - 1 <= MaxInt
    PROVE  LET b == convertRequestCapacityBytes(w, 0).bytes
           IN  /\ b \in Nat /\ Whole(b) /\ b < w + MinimumSectorSize
               /\ \A n \in Nat : Whole(n) /\ w <= n => b <= n
<1> DEFINE m == MinimumSectorSize
           a == w + m - 1
           q == a \div m
           b == convertRequestCapacityBytes(w, 0).bytes
<1>1. m \in Nat \ {0} /\ MaxInt \in Nat
  BY SizeAssumption
<1>2. a \in Nat
  BY <1>1
<1>3. CASE w % m = 0
  <2>1. b = w
    BY <1>1, <1>3 DEF convertRequestCapacityBytes, RoundedRequest, Success
  <2>2. Whole(w)
    BY ZenonT(30), <1>3, NoRemainder
  <2>3. w \in Nat /\ w < w + m
    BY <1>1
  <2> QED
    BY ZenonT(30), <2>1, <2>2, <2>3
<1>4. CASE w % m # 0
  <2>1. roundUp(w, m) = q * m
    BY <1>1, <1>2 DEF roundUp, Wrap, Quotient
  <2>2. b = roundUp(w, m)
    BY <1>1, <1>4 DEF convertRequestCapacityBytes, RoundedRequest, Success
  <2>3. q \in Nat /\ a % m \in 0..(m - 1) /\ a = q * m + (a % m)
    BY ZenonT(30), <1>1, <1>2, Division
  <2> HIDE DEF q
  <2>4. q * m \in Nat
    BY <1>1, <2>3
  <2>5. w <= q * m /\ q * m < w + m
    BY <1>1, <2>3, <2>4
  <2>6. Whole(q * m)
    BY ZenonT(30), <2>3 DEF Whole
  <2>7. ASSUME NEW n \in Nat, Whole(n), w <= n PROVE q * m <= n
    <3>1. q * m < n + m
      BY <1>1, <2>4, <2>5, <2>7
    <3> QED
      BY ZenonT(30), <2>6, <2>7, <3>1, NextWhole
  <2> HIDE DEF b
  <2>8. b = q * m
    BY ZenonT(30), <2>1, <2>2
  <2>9. b \in Nat /\ Whole(b) /\ b < w + m /\ \A n \in Nat : Whole(n) /\ w <= n => b <= n
    BY ZenonT(30), <2>4, <2>5, <2>6, <2>7, <2>8
  <2> QED
    BY ZenonT(30), <2>9 DEF b
<1> QED
  BY <1>3, <1>4

\* The default size is whole sectors.
LEMMA DefaultIsWhole == DefaultSize \in Nat \ {0} /\ Whole(DefaultSize)
<1>1. PICK k \in 1..MaxInt : DefaultSize = k * MinimumSectorSize
  BY SizeAssumption
<1>2. MinimumSectorSize \in Nat \ {0} /\ MaxInt \in Nat /\ k \in Nat \ {0}
  BY SizeAssumption
<1>3. k * MinimumSectorSize \in Nat \ {0}
  BY <1>2
<1> QED
  BY <1>1, <1>2, <1>3 DEF Whole

\* CreateVolume gives a claim what the webhook counts for it, rounded up.
LEMMA SizeOfClaim ==
    ASSUME ExactSizes, NEW c \in Claims
    PROVE  /\ requestedSize(c) \in Nat /\ SizeOf(c) \in Nat /\ Whole(SizeOf(c))
           /\ SizeOf(c) < requestedSize(c) + MinimumSectorSize
           /\ requestedSize(c) % MinimumSectorSize = 0 => SizeOf(c) <= requestedSize(c)
<1> DEFINE m == MinimumSectorSize
           w == MinMaxAllocationsFromSettings(RequestOf[c], Minimum)
           r == requestedSize(c)
<1>1. /\ m \in Nat \ {0} /\ MaxInt \in Nat /\ RequestOf[c] \in Nat /\ Minimum \in Nat
      /\ DefaultSize \in Nat \ {0}
  BY SizeAssumption, PlacementAssumption, DefaultIsWhole
<1>2. Minimum <= r /\ r + m - 1 <= MaxInt
  BY ZenonT(30) DEF ExactSizes
<1>3. r \in Nat
  BY <1>1 DEF requestedSize
<1>4. SizeOf(c) = convertRequestCapacityBytes(w, 0).bytes
  BY DEF SizeOf
<1>5. CASE w = 0
  <2>1. RequestOf[c] = 0
    BY <1>1, <1>5 DEF MinMaxAllocationsFromSettings, GetMinimumAllocationSize
  <2>2. r = DefaultSize /\ SizeOf(c) = DefaultSize
    BY <1>4, <1>5, <2>1 DEF requestedSize, convertRequestCapacityBytes, DefaultRequest, Success
  <2>3. DefaultSize < DefaultSize + m /\ DefaultSize <= DefaultSize
    BY <1>1
  <2> QED
    BY ZenonT(30), <1>3, <2>2, <2>3, DefaultIsWhole
<1>6. CASE w # 0
  <2>1. w \in Nat \ {0} /\ w <= r
    BY <1>1, <1>2, <1>6 DEF MinMaxAllocationsFromSettings, GetMinimumAllocationSize, requestedSize
  <2>2. w + m - 1 <= MaxInt
    <3> HIDE DEF w, r
    <3> QED
      BY <1>1, <1>2, <1>3, <2>1
  <2> HIDE DEF w
  <2>3. /\ SizeOf(c) \in Nat /\ Whole(SizeOf(c)) /\ SizeOf(c) < w + m
        /\ \A n \in Nat : Whole(n) /\ w <= n => SizeOf(c) <= n
    BY ZenonT(30), <1>4, <2>1, <2>2, LeastSectors
  <2>4. r % m = 0 => SizeOf(c) <= r
    BY ZenonT(30), <1>3, <2>1, <2>3, NoRemainder
  <2>5. SizeOf(c) < r + m
    <3> HIDE DEF r
    <3> QED
      BY <1>1, <1>3, <2>1, <2>3
  <2> QED
    BY ZenonT(30), <1>3, <2>3, <2>4, <2>5
<1> QED
  BY <1>5, <1>6

Requests == [c \in Claims |-> requestedSize(c)]

\* Claims of one pod and class: rounding each of them up costs less than a sector.
LEMMA RoundingCostsLittle ==
    ASSUME ExactSizes, NEW A \in SUBSET Claims,
           \A c, d \in A : OwnerOf[c] = OwnerOf[d] /\ ClassOf[c] = ClassOf[d]
    PROVE  /\ SumOver(A, VolumeSizes) \in Nat /\ SumOver(A, Requests) \in Nat
           /\ Whole(SumOver(A, VolumeSizes))
           /\ SumOver(A, VolumeSizes) < SumOver(A, Requests) + MinimumSectorSize
<1> DEFINE m == MinimumSectorSize
           v == VolumeSizes
           r == Requests
           f == Sums(v, Claims)
           g == Sums(r, Claims)
           T == {s \in SUBSET A : /\ f[s] < g[s] + m
                                  /\ (\A c \in s : r[c] % m = 0) => f[s] <= g[s]}
<1>1. IsFiniteSet(Claims) /\ IsFiniteSet(A) /\ m \in Nat \ {0}
  BY ZenonT(30), FS_Subset, SizeAssumption DEF ExactSizes
<1>2. /\ v \in [Claims -> Nat] /\ r \in [Claims -> Nat]
      /\ \A c \in Claims : /\ Whole(v[c]) /\ v[c] < r[c] + m
                           /\ r[c] % m = 0 => v[c] <= r[c]
  BY ZenonT(30), SizeOfClaim DEF VolumeSizes, Requests
<1>3. \A c, d \in A : r[c] % m # 0 /\ r[d] % m # 0 => c = d
  <2>1. \A c \in A : r[c] = requestedSize(c)
    BY ZenonT(30) DEF Requests
  <2> SUFFICES ASSUME NEW c \in A, NEW d \in A, r[c] % m # 0, r[d] % m # 0 PROVE c = d
    BY ZenonT(30)
  <2>2. c \in Claims /\ d \in Claims /\ OwnerOf[c] = OwnerOf[d] /\ ClassOf[c] = ClassOf[d]
    BY ZenonT(30)
  <2>3. requestedSize(c) % MinimumSectorSize # 0 /\ requestedSize(d) % MinimumSectorSize # 0
    BY ZenonT(30), <2>1
  <2>4. \A x, y \in Claims :
          (/\ OwnerOf[x] = OwnerOf[y] /\ ClassOf[x] = ClassOf[y]
           /\ requestedSize(x) % MinimumSectorSize # 0 /\ requestedSize(y) % MinimumSectorSize # 0)
             => x = y
    BY ZenonT(30) DEF ExactSizes
  <2> QED
    BY ZenonT(30), <2>2, <2>3, <2>4
<1> HIDE DEF v, r
<1>4. /\ \A s \in SUBSET Claims : f[s] \in Nat /\ Whole(f[s])
      /\ \A s \in SUBSET Claims : g[s] \in Nat
  <2>1. \A s \in SUBSET Claims : f[s] \in Nat
    BY ZenonT(30), <1>1, <1>2, SumsNat
  <2>2. \A s \in SUBSET Claims : g[s] \in Nat
    BY ZenonT(30), <1>1, <1>2, SumsNat
  <2>3. \A s \in SUBSET Claims : Whole(f[s])
    BY ZenonT(30), <1>1, <1>2, SumsWhole
  <2> QED
    BY ZenonT(30), <2>1, <2>2, <2>3
<1>5. ASSUME NEW s \in SUBSET A, \A x \in s : s \ {x} \in T PROVE s \in T
  <2>1. s \in SUBSET Claims
    BY ZenonT(30)
  <2>2. f[s] = IF s = {} THEN 0 ELSE v[Pick(s)] + f[s \ {Pick(s)}]
    <3>1. \A u \in SUBSET Claims : f[u] = IF u = {} THEN 0 ELSE v[Pick(u)] + f[u \ {Pick(u)}]
      BY ZenonT(30), <1>1, SumsStep
    <3> QED
      BY ZenonT(30), <2>1, <3>1
  <2>3. g[s] = IF s = {} THEN 0 ELSE r[Pick(s)] + g[s \ {Pick(s)}]
    <3>1. \A u \in SUBSET Claims : g[u] = IF u = {} THEN 0 ELSE r[Pick(u)] + g[u \ {Pick(u)}]
      BY ZenonT(30), <1>1, SumsStep
    <3> QED
      BY ZenonT(30), <2>1, <3>1
  <2>4. CASE s = {}
    <3>1. f[s] = 0 /\ g[s] = 0
      BY ZenonT(30), <2>2, <2>3, <2>4
    <3> HIDE DEF f, g
    <3>2. f[s] < g[s] + m /\ f[s] <= g[s]
      BY <1>1, <3>1
    <3> QED
      BY ZenonT(30), <3>2
  <2>5. CASE s # {}
    <3> DEFINE x == Pick(s)
               t == s \ {x}
    <3>1. x \in s /\ x \in Claims /\ t \in T /\ t \in SUBSET Claims
      BY ZenonT(30), <1>5, <2>5, PickIn
    <3>2. f[s] = v[x] + f[t] /\ g[s] = r[x] + g[t]
      BY ZenonT(30), <2>2, <2>3, <2>5
    <3> HIDE DEF x
    <3>3. v[x] \in Nat /\ r[x] \in Nat /\ f[t] \in Nat /\ g[t] \in Nat
      BY ZenonT(30), <1>2, <1>4, <3>1
    <3>4. /\ v[x] < r[x] + m /\ f[t] < g[t] + m
          /\ r[x] % m = 0 => v[x] <= r[x]
          /\ (\A c \in t : r[c] % m = 0) => f[t] <= g[t]
      BY ZenonT(30), <1>2, <3>1
    <3>5. /\ v[x] <= r[x] /\ f[t] <= g[t] => f[s] <= g[s]
          /\ v[x] <= r[x] /\ f[t] < g[t] + m => f[s] < g[s] + m
          /\ v[x] < r[x] + m /\ f[t] <= g[t] => f[s] < g[s] + m
      <4> HIDE DEF f, g, t
      <4>1. m \in Nat
        BY ZenonT(30), <1>1
      <4> HIDE DEF m
      <4>2. /\ v[x] <= r[x] /\ f[t] <= g[t] => v[x] + f[t] <= r[x] + g[t]
            /\ v[x] <= r[x] /\ f[t] < g[t] + m => v[x] + f[t] < (r[x] + g[t]) + m
            /\ v[x] < r[x] + m /\ f[t] <= g[t] => v[x] + f[t] < (r[x] + g[t]) + m
        BY ZenonT(30), <3>3, <4>1, AddBounds
      <4> QED
        BY ZenonT(30), <3>2, <4>2
    <3>6. CASE r[x] % m = 0
      <4>1. v[x] <= r[x]
        BY ZenonT(30), <3>4, <3>6
      <4>2. f[s] < g[s] + m
        BY ZenonT(30), <3>4, <3>5, <4>1
      <4>3. (\A c \in s : r[c] % m = 0) => f[t] <= g[t]
        BY ZenonT(30), <3>4
      <4>4. f[t] <= g[t] => f[s] <= g[s]
        BY ZenonT(30), <3>5, <4>1
      <4> QED
        BY ZenonT(30), <4>2, <4>3, <4>4
    <3>7. CASE r[x] % m # 0
      <4>1. \A c \in t : r[c] % m = 0
        BY ZenonT(30), <1>3, <3>1, <3>7
      <4>2. f[t] <= g[t]
        BY ZenonT(30), <3>4, <4>1
      <4>3. f[s] < g[s] + m
        BY ZenonT(30), <3>4, <3>5, <4>2
      <4> QED
        BY ZenonT(30), <3>1, <3>7, <4>3
    <3> QED
      BY ZenonT(30), <3>6, <3>7
  <2> QED
    BY ZenonT(30), <2>4, <2>5
<1>6. A \in T
  <2> HIDE DEF T
  <2>1. \A s \in SUBSET A : s \in T
    BY ZenonT(30), <1>1, <1>5, SubsetInduction
  <2> QED
    BY ZenonT(30), <2>1
<1>7. SumOver(A, v) = f[A] /\ SumOver(A, r) = g[A]
  BY ZenonT(30), <1>1, SumOverIsSum
<1> QED
  BY ZenonT(30), <1>4, <1>6, <1>7 DEF v, r

\* All a pod needs of each class, as the webhook counts it.
PodSizes(p) ==
    [dc \in {ClassOf[c] : c \in ClaimsOf(p)} |-> SumOver({c \in ClaimsOf(p) : ClassOf[c] = dc}, Requests)]

(* The annotation of a pod whose claims the webhook could see is complete. *)
AnnotationIsComplete ==
    /\ requested = [p \in Pods |-> requested[p]]
    /\ \A p \in Pods : requested[p] # NoAnnotation /\ ClaimsOf(p) \cap Late = {} => requested[p] = PodSizes(p)

FreeIsWhole ==
    free \in [Nodes -> [Classes -> Nat]] /\ \A n \in Nodes, dc \in Classes : Whole(free[n][dc])

\* The webhook counts every claim that exists, and waits for those that must.
LEMMA HandleCountsAll ==
    ASSUME AnnotationIsComplete, NEW p \in Pods, Handle(p) PROVE AnnotationIsComplete'
<1>1. requested' = [requested EXCEPT ![p] = volumesCapacity(p)]
  BY ZenonT(30) DEF Handle
<1>2. requested' = [q \in Pods |-> requested'[q]]
  BY ZenonT(30), <1>1 DEF AnnotationIsComplete
<1>3. \A q \in Pods : q # p => requested'[q] = requested[q]
  BY ZenonT(30), <1>1 DEF AnnotationIsComplete
<1>4. requested'[p] = volumesCapacity(p)
  BY ZenonT(30), <1>1 DEF AnnotationIsComplete
<1>5. ClaimsOf(p) \cap Late = {} => Counted(p) = ClaimsOf(p)
  BY ZenonT(30) DEF Handle, Counted
<1>6. volumesCapacity(p) # NoAnnotation /\ ClaimsOf(p) \cap Late = {} => volumesCapacity(p) = PodSizes(p)
  BY ZenonT(30), <1>5 DEF volumesCapacity, PodSizes, Requests
<1>7. ASSUME NEW q \in Pods, requested'[q] # NoAnnotation, ClaimsOf(q) \cap Late = {}
      PROVE  requested'[q] = PodSizes(q)
  BY ZenonT(30), <1>3, <1>4, <1>6, <1>7 DEF AnnotationIsComplete
<1> QED
  BY ZenonT(30), <1>2, <1>7 DEF AnnotationIsComplete, ClaimsOf, PodSizes, Requests, NoAnnotation, requestedSize

\* The other steps leave the annotations of the pods alone, or remove one.
LEMMA AnnotationSteps ==
    ASSUME AnnotationIsComplete, PlacementNext PROVE AnnotationIsComplete'
<1>1. CASE requested' = requested
  BY ZenonT(30), <1>1 DEF AnnotationIsComplete
<1>2. ASSUME NEW p \in Pods, Restart(p) PROVE AnnotationIsComplete'
  <2>1. requested' = [requested EXCEPT ![p] = NoAnnotation]
    BY ZenonT(30), <1>2 DEF Restart
  <2> QED
    BY ZenonT(30), <2>1 DEF AnnotationIsComplete
<1>3. ASSUME NEW p \in Pods, Schedule(p) \/ Run(p) \/ BindTimeout(p) PROVE requested' = requested
  BY ZenonT(30), <1>3 DEF Schedule, Run, BindTimeout
<1>4. ASSUME NEW c \in Claims, CreateClaim(c) \/ CreateVolumeOf(c) PROVE requested' = requested
  BY ZenonT(30), <1>4 DEF CreateClaim, CreateVolumeOf, podVars
<1>5. ASSUME NEW n \in Nodes, Report(n) PROVE requested' = requested
  BY ZenonT(30), <1>5 DEF Report, podVars
<1> QED
  BY ZenonT(30), <1>1, <1>2, <1>3, <1>4, <1>5, HandleCountsAll DEF PlacementNext

\* The volumes of a class that go with a pod give back whole sectors.
LEMMA WholeSizes ==
    ASSUME ExactSizes, NEW A \in SUBSET Claims
    PROVE  SumOver(A, VolumeSizes) \in Nat /\ Whole(SumOver(A, VolumeSizes))
<1>1. IsFiniteSet(Claims)
  BY ZenonT(30) DEF ExactSizes
<1>2. VolumeSizes \in [Claims -> Nat] /\ \A c \in Claims : Whole(VolumeSizes[c])
  BY ZenonT(30), SizeOfClaim DEF VolumeSizes
<1>3. \A s \in SUBSET Claims : Sums(VolumeSizes, Claims)[s] \in Nat
  BY ZenonT(30), <1>1, <1>2, SumsNat
<1>4. \A s \in SUBSET Claims : Whole(Sums(VolumeSizes, Claims)[s])
  BY ZenonT(30), <1>1, <1>2, SumsWhole
<1>5. SumOver(A, VolumeSizes) = Sums(VolumeSizes, Claims)[A]
  BY ZenonT(30), <1>1, SumOverIsSum
<1> QED
  BY ZenonT(30), <1>3, <1>4, <1>5

\* Taking whole sectors from whole sectors leaves whole sectors.
LEMMA WholeDifference ==
    ASSUME NEW a \in Nat, NEW b \in Nat, Whole(a), Whole(b), b <= a PROVE a - b \in Nat /\ Whole(a - b)
<1> DEFINE m == MinimumSectorSize
<1>1. PICK j \in Nat : a = j * m
  BY DEF Whole
<1>2. PICK k \in Nat : b = k * m
  BY DEF Whole
<1>3. m \in Nat \ {0}
  BY SizeAssumption
<1>4. k <= j
  <2> SUFFICES ASSUME k > j PROVE FALSE
    OBVIOUS
  <2>1. k - j - 1 \in Nat
    OBVIOUS
  <2>2. k * m = j * m + m + (k - j - 1) * m /\ (k - j - 1) * m \in Nat /\ j * m \in Nat
    BY <1>3, <2>1
  <2> QED
    BY <1>1, <1>2, <1>3, <2>2
<1>5. j - k \in Nat /\ a - b = (j - k) * m
  BY <1>1, <1>2, <1>3, <1>4
<1>6. a - b \in Nat
  OBVIOUS
<1> QED
  BY ZenonT(30), <1>5, <1>6 DEF Whole

\* CreateVolume takes the size of the volume from a node with enough space.
LEMMA CreateVolumeKeepsWhole ==
    ASSUME ExactSizes, PlacedInv, FreeIsWhole, NEW c \in Claims, CreateVolumeOf(c) PROVE FreeIsWhole'
<1> DEFINE n  == selected[OwnerOf[c]]
           dc == ClassOf[c]
<1>1. CASE free' = free
  BY ZenonT(30), <1>1 DEF FreeIsWhole
<1>2. CASE SizeOf(c) <= free[n][dc] /\ free' = [free EXCEPT ![n][dc] = @ - SizeOf(c)]
  <2>1. n \in Nodes /\ dc \in Classes
    <3>1. OwnerOf[c] \in Pods /\ dc \in Classes /\ pod[OwnerOf[c]] = "scheduled"
      BY ZenonT(30), PlacementAssumption DEF CreateVolumeOf
    <3> QED
      BY ZenonT(30), <3>1 DEF PlacedInv, OnItsNode
  <2>2. free[n] \in [Classes -> Nat] /\ free[n][dc] \in Nat /\ Whole(free[n][dc])
    BY ZenonT(30), <2>1 DEF FreeIsWhole
  <2> DEFINE left == free[n][dc] - SizeOf(c)
  <2>3. left \in Nat /\ Whole(left)
    BY ZenonT(30), <1>2, <2>2, SizeOfClaim, WholeDifference
  <2>4. free' = [free EXCEPT ![n] = [free[n] EXCEPT ![dc] = left]]
    BY ZenonT(30), <1>2, <2>1, <2>2 DEF FreeIsWhole
  <2> HIDE DEF left
  <2>5. [free[n] EXCEPT ![dc] = left] \in [Classes -> Nat]
    BY ZenonT(30), <2>2, <2>3
  <2>6. free' \in [Nodes -> [Classes -> Nat]]
    BY ZenonT(30), <2>4, <2>5 DEF FreeIsWhole
  <2>7. ASSUME NEW x \in Nodes, NEW y \in Classes PROVE Whole(free'[x][y])
    <3>1. CASE x # n
      BY ZenonT(30), <2>4, <3>1 DEF FreeIsWhole
    <3>2. CASE x = n
      <4>1. free'[x] = [free[n] EXCEPT ![dc] = left]
        BY ZenonT(30), <2>1, <2>4, <3>2 DEF FreeIsWhole
      <4>2. free'[x][y] = IF y = dc THEN left ELSE free[n][y]
        BY ZenonT(30), <2>2, <4>1
      <4> QED
        BY ZenonT(30), <2>1, <2>3, <4>2 DEF FreeIsWhole
    <3> QED
      BY ZenonT(30), <3>1, <3>2
  <2> QED
    BY ZenonT(30), <2>6, <2>7 DEF FreeIsWhole, Whole
<1> QED
  BY ZenonT(30), <1>1, <1>2 DEF CreateVolumeOf

\* The volumes of a deleted pod's templates are given back.
LEMMA RestartKeepsWhole ==
    ASSUME ExactSizes, FreeIsWhole, NEW p \in Pods, Restart(p) PROVE FreeIsWhole'
<1> DEFINE Gone(n, dc) == {c \in {d \in ClaimsOf(p) : d \in Ephemeral} : claim[c] = n /\ ClassOf[c] = dc}
           Now(n, dc)  == free[n][dc] + SumOver(Gone(n, dc), VolumeSizes)
<1>1. free' = [n \in Nodes |-> [dc \in Classes |-> Now(n, dc)]]
  BY ZenonT(30) DEF Restart
<1>2. ASSUME NEW n \in Nodes, NEW dc \in Classes PROVE Now(n, dc) \in Nat /\ Whole(Now(n, dc))
  <2>1. Gone(n, dc) \in SUBSET Claims
    BY ZenonT(30) DEF ClaimsOf
  <2> HIDE DEF Gone
  <2>2. SumOver(Gone(n, dc), VolumeSizes) \in Nat /\ Whole(SumOver(Gone(n, dc), VolumeSizes))
    BY ZenonT(30), <2>1, WholeSizes
  <2>3. free[n][dc] \in Nat /\ Whole(free[n][dc])
    BY ZenonT(30) DEF FreeIsWhole
  <2>4. \A a, b \in Nat : a + b \in Nat
    OBVIOUS
  <2> QED
    BY ZenonT(30), <2>2, <2>3, <2>4, WholeSum
<1> HIDE DEF Now
<1>3. free' \in [Nodes -> [Classes -> Nat]]
  BY ZenonT(30), <1>1, <1>2
<1>4. \A n \in Nodes, dc \in Classes : Whole(free'[n][dc])
  BY ZenonT(30), <1>1, <1>2
<1> QED
  BY ZenonT(30), <1>3, <1>4 DEF FreeIsWhole, Whole

RoomInv == PlacedInv /\ AnnotationIsComplete /\ FreeIsWhole

\* The invariant of the placement is kept by every step.
LEMMA RoomStep ==
    ASSUME ExactSizes, RoomInv, [PlacementNext]_placementVars PROVE RoomInv'
<1>1. PlacedInv'
  BY ZenonT(30), PlacedStep DEF RoomInv
<1>2. AnnotationIsComplete'
  <2>1. CASE UNCHANGED placementVars
    <3>1. requested' = requested
      BY ZenonT(30), <2>1 DEF placementVars, podVars
    <3> QED
      BY ZenonT(30), <3>1 DEF RoomInv, AnnotationIsComplete
  <2> QED
    BY ZenonT(30), <2>1, AnnotationSteps DEF RoomInv
<1>3. FreeIsWhole'
  <2>1. CASE free' = free
    BY ZenonT(30), <2>1 DEF RoomInv, FreeIsWhole
  <2>2. ASSUME NEW p \in Pods, Handle(p) \/ Schedule(p) \/ Run(p) \/ BindTimeout(p) PROVE free' = free
    BY ZenonT(30), <2>2 DEF Handle, Schedule, Run, BindTimeout
  <2>3. ASSUME NEW c \in Claims, CreateClaim(c) PROVE free' = free
    BY ZenonT(30), <2>3 DEF CreateClaim
  <2>4. ASSUME NEW n \in Nodes, Report(n) PROVE free' = free
    BY ZenonT(30), <2>4 DEF Report
  <2>5. UNCHANGED placementVars => free' = free
    BY ZenonT(30) DEF placementVars
  <2>6. ASSUME NEW p \in Pods, Restart(p) PROVE FreeIsWhole'
    BY ZenonT(30), <2>6, RestartKeepsWhole DEF RoomInv
  <2>7. ASSUME NEW c \in Claims, CreateVolumeOf(c) PROVE FreeIsWhole'
    BY ZenonT(30), <2>7, CreateVolumeKeepsWhole DEF RoomInv
  <2> QED
    BY ZenonT(30), <2>1, <2>2, <2>3, <2>4, <2>5, <2>6, <2>7 DEF PlacementNext
<1> QED
  BY ZenonT(30), <1>1, <1>2, <1>3 DEF RoomInv

\* The invariant holds of empty nodes and new pods.
LEMMA RoomInit == ASSUME ExactSizes, PlacementInit PROVE RoomInv
<1>1. AnnotationIsComplete
  BY ZenonT(30) DEF PlacementInit, AnnotationIsComplete
<1>2. free = Capacity /\ Capacity \in [Nodes -> [Classes -> 0..MaxInt]] /\ MaxInt \in Nat
  BY ZenonT(30), PlacementAssumption, SizeAssumption DEF PlacementInit
<1>3. \A x \in 0..MaxInt : x \in Nat
  BY <1>2
<1>4. free \in [Nodes -> [Classes -> Nat]]
  BY ZenonT(30), <1>2, <1>3
<1>5. ASSUME NEW n \in Nodes, NEW dc \in Classes PROVE Whole(free[n][dc])
  BY ZenonT(30), <1>2, <1>4, NoRemainder DEF ExactSizes
<1> QED
  BY ZenonT(30), <1>1, <1>4, <1>5, PlacedAtFirst DEF RoomInv, FreeIsWhole

\* Nothing but the scheduler schedules a pod.
LEMMA OnlySchedule ==
    ASSUME PlacedShape, PlacementNext, NEW p \in Pods, pod[p] = "pending", pod'[p] = "scheduled"
    PROVE  Schedule(p)
<1> USE DEF PlacedShape
<1>1. ASSUME NEW q \in Pods, Handle(q) \/ Run(q) \/ BindTimeout(q) \/ Restart(q) PROVE FALSE
  <2>1. \E s \in {"pending", "running", "new"} : pod' = [pod EXCEPT ![q] = s]
    BY ZenonT(30), <1>1 DEF Handle, Run, BindTimeout, Restart, Unplaced
  <2> QED
    BY ZenonT(30), <2>1
<1>2. ASSUME NEW q \in Pods, Schedule(q) PROVE q = p
  BY ZenonT(30), <1>2 DEF Schedule
<1>3. ASSUME NEW c \in Claims, CreateClaim(c) \/ CreateVolumeOf(c) PROVE FALSE
  <2>1. pod' = pod \/ pod' = [pod EXCEPT ![OwnerOf[c]] = "pending"]
    BY ZenonT(30), <1>3 DEF CreateClaim, CreateVolumeOf, Unplaced, podVars
  <2> QED
    BY ZenonT(30), <2>1
<1>4. ASSUME NEW n \in Nodes, Report(n) PROVE FALSE
  BY ZenonT(30), <1>4 DEF Report, podVars
<1> QED
  BY ZenonT(30), <1>1, <1>2, <1>3, <1>4 DEF PlacementNext

\* What the extender passes for a pod is enough for the volumes of the pod.
LEMMA ScheduledHasRoom ==
    ASSUME ExactSizes, RoomInv, NEW p \in Pods, NEW n \in filterNodes(p),
           requested[p] # NoAnnotation, ClaimsOf(p) \cap Late = {},
           annotation[n] = free[n], NEW dc \in Classes
    PROVE  Needed(p, dc) <= free[n][dc]
<1> DEFINE A == {c \in ClaimsOf(p) : ClassOf[c] = dc}
           B == {c \in ClaimsOf(p) : ~Bound(c) /\ ClassOf[c] = dc}
           v == VolumeSizes
<1>1. A \in SUBSET Claims /\ B \in SUBSET A /\ B \in SUBSET Claims
  BY ZenonT(30) DEF ClaimsOf
<1>2. \A c, d \in A : OwnerOf[c] = OwnerOf[d] /\ ClassOf[c] = ClassOf[d]
  BY ZenonT(30) DEF ClaimsOf
<1>3. n \in Nodes /\ free[n][dc] \in Nat /\ Whole(free[n][dc])
  BY ZenonT(30) DEF filterNodes, RoomInv, FreeIsWhole
<1>4. requested[p] = PodSizes(p)
  BY ZenonT(30) DEF RoomInv, AnnotationIsComplete
<1>5. A # {} => SumOver(A, Requests) <= free[n][dc]
  <2> SUFFICES ASSUME A # {} PROVE SumOver(A, Requests) <= free[n][dc]
    BY ZenonT(30)
  <2>1. dc \in {ClassOf[c] : c \in ClaimsOf(p)}
    BY ZenonT(30)
  <2>2. dc \in DOMAIN requested[p] /\ requested[p][dc] = SumOver(A, Requests)
    BY ZenonT(30), <1>4, <2>1 DEF PodSizes
  <2>3. free[n][dc] >= requested[p][dc]
    BY ZenonT(30), <2>2 DEF filterNodes, filterNode
  <2>4. SumOver(A, Requests) \in Nat
    BY ZenonT(30), <1>1, <1>2, RoundingCostsLittle
  <2> HIDE DEF A
  <2> QED
    BY ZenonT(30), <1>3, <2>2, <2>3, <2>4
<1>6. IsFiniteSet(Claims) /\ v \in [Claims -> Nat]
  BY ZenonT(30), SizeOfClaim DEF ExactSizes, VolumeSizes
<1>7. SumOver(A, v) = Sums(v, Claims)[A] /\ SumOver(B, v) = Sums(v, Claims)[B]
  BY ZenonT(30), <1>1, <1>6, SumOverIsSum
<1> HIDE DEF A, B, v
<1>8. SumOver(B, v) <= SumOver(A, v)
  <2>1. \A t \in SUBSET Claims : \A s \in SUBSET t : Sums(v, Claims)[s] <= Sums(v, Claims)[t]
    BY ZenonT(30), <1>6, SumsGrow
  <2> QED
    BY ZenonT(30), <1>1, <1>7, <2>1
<1>9. /\ SumOver(A, v) \in Nat /\ SumOver(A, Requests) \in Nat /\ Whole(SumOver(A, v))
      /\ SumOver(A, v) < SumOver(A, Requests) + MinimumSectorSize
  BY ZenonT(30), <1>1, <1>2, RoundingCostsLittle DEF v
<1>10. SumOver(B, v) \in Nat
  BY ZenonT(30), <1>1, WholeSizes DEF v
<1>11. CASE A = {}
  <2>1. Sums(v, Claims)[{}] = 0
    <3>1. {} \in SUBSET Claims
      BY ZenonT(30)
    <3>2. \A s \in SUBSET Claims :
             Sums(v, Claims)[s] = IF s = {} THEN 0 ELSE v[Pick(s)] + Sums(v, Claims)[s \ {Pick(s)}]
      BY ZenonT(30), <1>6, SumsStep
    <3> QED
      BY ZenonT(30), <3>1, <3>2
  <2>2. SumOver(A, v) = 0
    BY ZenonT(30), <1>7, <1>11, <2>1
  <2>3. SumOver(B, v) <= free[n][dc]
    <3>1. 0 \in Nat /\ 0 <= free[n][dc]
      BY <1>3
    <3> QED
      BY ZenonT(30), <1>3, <1>8, <1>10, <2>2, <3>1, BelowBound
  <2> QED
    BY ZenonT(30), <2>3 DEF Needed, B, v
<1>12. CASE A # {}
  <2>1. SumOver(A, Requests) <= free[n][dc]
    BY ZenonT(30), <1>5, <1>12
  <2>2. MinimumSectorSize \in Nat
    BY SizeAssumption
  <2>3. SumOver(A, v) < free[n][dc] + MinimumSectorSize
    BY ZenonT(30), <1>3, <1>9, <2>1, <2>2, BelowBound
  <2>4. SumOver(A, v) <= free[n][dc]
    BY ZenonT(30), <1>3, <1>9, <2>3, NextWhole
  <2>5. SumOver(B, v) <= free[n][dc]
    BY ZenonT(30), <1>3, <1>8, <1>9, <1>10, <2>4, BelowBound
  <2> QED
    BY ZenonT(30), <2>5 DEF Needed, B, v
<1> QED
  BY <1>11, <1>12

\* The node the extender passes for a pod, by an annotation that is exact, has
\* room for all volumes the pod still needs, for every set of pods, nodes,
\* classes and claims, and whatever was created, rescheduled and restarted
\* before: filterNode's comparison in bytes (predicate.go) is enough for what
\* CreateVolume allocates (controller.go) after its rounding.
THEOREM NodeHasRoom == ASSUME ExactSizes PROVE PlacementSpec => SelectedNodeHasRoom
<1> DEFINE Chosen ==
             \A p \in Pods :
               (/\ pod[p] = "pending" /\ pod'[p] = "scheduled"
                /\ requested[p] # NoAnnotation
                /\ ClaimsOf(p) \cap Late = {}
                /\ annotation[selected'[p]] = free[selected'[p]])
                   => \A dc \in Classes : Needed(p, dc) <= free[selected'[p]][dc]
<1>1. PlacementInit => RoomInv
  BY ZenonT(30), RoomInit
<1>2. RoomInv /\ [PlacementNext]_placementVars => RoomInv'
  BY ZenonT(30), RoomStep
<1>3. RoomInv /\ [PlacementNext]_placementVars => [Chosen]_placementVars
  <2> SUFFICES ASSUME RoomInv, PlacementNext, NEW p \in Pods,
                      pod[p] = "pending", pod'[p] = "scheduled",
                      requested[p] # NoAnnotation, ClaimsOf(p) \cap Late = {},
                      annotation[selected'[p]] = free[selected'[p]], NEW dc \in Classes
               PROVE  Needed(p, dc) <= free[selected'[p]][dc]
    BY ZenonT(30)
  <2>1. Schedule(p)
    BY ZenonT(30), OnlySchedule DEF RoomInv, PlacedInv
  <2>2. selected'[p] \in filterNodes(p)
    BY ZenonT(30), <2>1 DEF Schedule, RoomInv, PlacedInv, PlacedShape
  <2> QED
    BY ZenonT(30), <2>2, ScheduledHasRoom
<1> QED
  BY <1>1, <1>2, <1>3, PTL DEF PlacementSpec, SelectedNodeHasRoom
=============================================================================
