---------------------------- MODULE DeviceClasses ----------------------------
(***************************************************************************)
(* The device classes of lvmd.  ValidateDeviceClasses decides on the       *)
(* configuration when lvmd starts, NewDeviceClassManager builds a map by   *)
(* name, one by volume group and one by thin pool.  Volumes are created    *)
(* through the first, capacities are reported through the other two: the   *)
(* node is annotated with the capacity of a class by what is found from    *)
(* the volume groups.  Lengths and patterns of names are left out.         *)
(***************************************************************************)
EXTENDS Naturals, Sequences, FiniteSets

CONSTANTS Names, VGs, Pools,
          PresentVGs,  \* the volume groups of the machine, each with all Pools
          NoName,      \* the empty string; for a pool, no thin pool configuration
          MaxClasses,  \* Bound: device classes of a configuration
          Embedded     \* lvmd runs in topolvm-node

ASSUME ClassAssumption ==
    /\ NoName \notin Names /\ NoName \notin Pools
    /\ PresentVGs \subseteq VGs
    /\ MaxClasses \in Nat /\ Embedded \in BOOLEAN

VARIABLES config,   \* the device classes of the configuration file
          phase,    \* of the process
          built,    \* how many classes NewDeviceClassManager has entered
          defaultDeviceClass, byName, byVG, byPool  \* indexes of config, 0 for none

vars == <<config, phase, built, defaultDeviceClass, byName, byVG, byPool>>

Class == [name : Names \cup {NoName}, vg : VGs, type : {"", "thick", "thin"},
          pool : Pools \cup {NoName}, ratioOK : BOOLEAN, default : BOOLEAN]

Indexes == 0..MaxClasses

Init ==
    /\ config \in UNION {[1..n -> Class] : n \in Indexes}
    /\ phase = "start" /\ built = 0 /\ defaultDeviceClass = 0
    /\ byName = [n \in Names \cup {NoName} |-> 0]
    /\ byVG = [v \in VGs |-> 0]
    /\ byPool = [vp \in VGs \X Pools |-> 0]

\* What a class allocates from: its volume group, or a thin pool in it.
Target(dc) == IF dc.type = "thin" THEN <<dc.vg, dc.pool>> ELSE <<dc.vg>>

-----------------------------------------------------------------------------
(* Starting lvmd *)

\* Mutant: a thin class needs no thin pool.
ClassIsNamed(dc) == dc.name # NoName

ClassIsValid(dc) ==
    /\ dc.name # NoName
    /\ dc.type = "thin" => dc.pool # NoName /\ dc.ratioOK

\* Mutant: thin pools of thick classes, which are ignored, make them distinct.
DistinctPools(dc, other) == dc.name # other.name /\ (dc.vg # other.vg \/ dc.pool # other.pool)

\* No two classes have the same name or the same volume group or thin pool.
Distinct(dc, other) == dc.name # other.name /\ Target(dc) # Target(other)

ValidateDeviceClasses ==
    /\ Len(config) >= 1
    /\ \A i \in DOMAIN config : ClassIsValid(config[i])
    /\ \A i, j \in DOMAIN config : i < j => Distinct(config[j], config[i])
    /\ Cardinality({i \in DOMAIN config : config[i].default}) <= 1

\* lvmd validates and looks for the volume groups and thin pools; topolvm-node
\* with an embedded lvmd does neither.
subMain ==
    /\ phase = "start"
    /\ phase' = IF Embedded \/ (ValidateDeviceClasses /\ \A i \in DOMAIN config : config[i].vg \in PresentVGs)
                THEN "build" ELSE "refused"
    /\ UNCHANGED <<config, built, defaultDeviceClass, byName, byVG, byPool>>

\* One turn of the loop in NewDeviceClassManager.
NewDeviceClassManager ==
    LET i == built + 1
        dc == config[i]
    IN  /\ phase = "build" /\ built < Len(config)
        /\ defaultDeviceClass' = IF dc.default THEN i ELSE defaultDeviceClass
        /\ byName' = [byName EXCEPT ![dc.name] = i]
        /\ IF dc.type = "thin" /\ dc.pool = NoName
           THEN phase' = "panicked" /\ UNCHANGED <<built, byVG, byPool>>
           ELSE /\ built' = i /\ UNCHANGED phase
                /\ byVG' = IF dc.type = "thin" THEN byVG ELSE [byVG EXCEPT ![dc.vg] = i]
                /\ byPool' = IF dc.type = "thin" THEN [byPool EXCEPT ![<<dc.vg, dc.pool>>] = i] ELSE byPool
        /\ UNCHANGED config

Serve ==
    /\ phase = "build" /\ built = Len(config)
    /\ phase' = "serve"
    /\ UNCHANGED <<config, built, defaultDeviceClass, byName, byVG, byPool>>

Next == subMain \/ NewDeviceClassManager \/ Serve

Spec == Init /\ [][Next]_vars

-----------------------------------------------------------------------------
(* Serving *)

\* The class a request names, 0 if there is none: the class without a name is
\* the default one.
DeviceClass(name) ==
    IF name = NoName /\ defaultDeviceClass # 0 THEN defaultDeviceClass ELSE byName[name]

\* What a volume of the class is created in; storagePoolForDeviceClass.
Allocates(name) == Target(config[DeviceClass(name)])

FindDeviceClassByVGName(vg) == byVG[vg]

FindDeviceClassByThinPoolName(vg, pool) == byPool[<<vg, pool>>]

\* The items of send: a class, and the volume group or pool whose space is sent.
Items ==
    {i \in [class : DOMAIN config, of : {<<v, p>> : v \in PresentVGs, p \in Pools}] :
        i.class = FindDeviceClassByThinPoolName(i.of[1], i.of[2])}
    \cup
    {i \in [class : DOMAIN config, of : {<<v>> : v \in PresentVGs}] :
        i.class = FindDeviceClassByVGName(i.of[1])}

\* updateNode: what the annotation of a class says the free space of; the
\* annotation for no name holds that of the default class.
Annotated(name) ==
    {i.of : i \in {j \in Items : IF name = NoName THEN config[j.class].default
                                 ELSE config[j.class].name = name}}

-----------------------------------------------------------------------------
(* Properties *)

\* The capacity the scheduler sees for a class is that of the volume group or
\* thin pool the volumes of the class are created in, although the two are
\* found through different maps; a class without capacity creates no volumes.
CapacityIsOfItsClass ==
    phase = "serve" =>
        \A name \in Names \cup {NoName} :
            Annotated(name) = IF DeviceClass(name) = 0 THEN {} ELSE {Allocates(name)}

\* lvmd that has accepted its configuration does not crash on it, and serves
\* every class of the configuration by its name.
EveryClassIsServed ==
    /\ phase # "panicked"
    /\ phase = "serve" => \A i \in DOMAIN config : DeviceClass(config[i].name) = i
=============================================================================
