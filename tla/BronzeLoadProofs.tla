-------------------------- MODULE BronzeLoadProofs --------------------------
(***************************************************************************)
(* For one load script at a time, any number of partitions, versions and   *)
(* restarts: bronze.transactions is always a whole copy of one version,    *)
(* and the script implements BronzePublish.  The inductive invariant says  *)
(* what the staging table holds at each statement of the running script.   *)
(***************************************************************************)
EXTENDS BronzeLoad, FiniteSetTheorems, TLAPS

OneScript == \A k, l \in Loaders : k = l

(* Each of the given partitions once, and all from one version.            *)
Holds(table, parts, snap) ==
  /\ \A c \in table : c.part \in parts /\ c.snap = snap
  /\ \A p \in parts : \E c \in table : c.part = p
  /\ \A c, d \in table : c.part = d.part => c = d

(* What the script has left to do, and what it finds in the staging table. *)
StagingInv ==
  \A l \in Loaders :
    /\ load[l].pc # "idle" => lake.version > 0
    /\ load[l].pc \in {"drop", "create", "plan"} => load[l].left = Parts
    /\ load[l].pc \in {"drop", "create", "plan"} => load[l].snap = None
    /\ load[l].pc = "plan" => staging = {}
    /\ load[l].pc = "write" =>
         Holds(staging, Parts \ load[l].left, load[l].snap)

Loaded == target # None => \E snap \in Snapshot : Holds(target, Parts, snap)

IndInv == TypeOK /\ StagingInv /\ Loaded

-----------------------------------------------------------------------------
LEMMA TypeInit == Init => TypeOK
  BY LoadAssumption DEF Init, TypeOK, Busy, Idle, Snapshot, Bronze!Snapshot

(* Every step keeps the types.                                             *)
LEMMA TypeStep ==
  ASSUME TypeOK, [Next]_vars
  PROVE  TypeOK'
<1> USE DEF TypeOK, Busy
<1>1. CASE UNCHANGED vars
  BY <1>1 DEF vars
<1>2. CASE Ingest
  <2>1. lake' \in Snapshot
    BY <1>2 DEF Ingest, Snapshot, Bronze!Snapshot
  <2> QED BY <1>2, <2>1 DEF Ingest
<1>3. ASSUME NEW l \in Loaders, Begin(l) PROVE TypeOK'
  BY <1>3, LoadAssumption DEF Begin
<1>4. ASSUME NEW l \in Loaders, DropStaging(l) PROVE TypeOK'
  BY <1>4 DEF DropStaging
<1>5. ASSUME NEW l \in Loaders, CreateStaging(l) PROVE TypeOK'
  BY <1>5 DEF CreateStaging
<1>6. ASSUME NEW l \in Loaders, NEW p \in Parts, Insert(l, p) PROVE TypeOK'
  <2>1. load[l].snap \in Snapshot
    BY <1>6 DEF Insert
  <2>2. staging' \in SUBSET Chunk
    BY <1>6, <2>1 DEF Insert, Chunk
  <2> QED BY <1>6, <2>2 DEF Insert
<1>7. ASSUME NEW l \in Loaders, Swap(l) PROVE TypeOK'
  BY <1>7 DEF Swap, Idle
<1>8. ASSUME NEW l \in Loaders, Stop(l) PROVE TypeOK'
  BY <1>8 DEF Stop, Idle
<1>9. ASSUME NEW l \in Loaders, Plan(l) PROVE TypeOK'
  <2>1. /\ lake \in Snapshot /\ lake # None /\ loads' \in Nat
        /\ UNCHANGED <<lake, staging, target>>
        /\ load' = [load EXCEPT ![l].pc = "write", ![l].snap = lake]
    BY <1>9, LoadAssumption DEF Plan
  <2>2. load'[l].snap = lake /\ \A k \in Loaders \ {l} : load'[k] = load[k]
    BY <2>1
  <2>3. /\ load' \in [Loaders -> [pc : {"idle", "drop", "create", "plan", "write"},
                                  snap : Snapshot \cup {None}, left : SUBSET Parts]]
        /\ \A k \in Loaders : load'[k].pc = "write" => load'[k].snap # None
    BY <2>1, <2>2
  <2> QED BY <2>1, <2>3
<1> QED BY <1>1, <1>2, <1>3, <1>4, <1>5, <1>6, <1>7, <1>8, <1>9 DEF Next

(* The types, for any number of scripts at once.                           *)
THEOREM TypeCorrect == Spec => []TypeOK
<1> QED BY TypeInit, TypeStep, PTL DEF Spec

-----------------------------------------------------------------------------
LEMMA HoldsIsWhole ==
  ASSUME NEW table, NEW snap, Holds(table, Parts, snap)
  PROVE  Whole(table) /\ SnapOf(table) = snap
<1>1. ASSUME NEW p \in Parts
      PROVE  Cardinality({c \in table : c.part = p}) = 1
  <2>1. PICK c \in table : c.part = p
    BY DEF Holds
  <2>2. {d \in table : d.part = p} = {c}
    BY <2>1 DEF Holds
  <2> QED BY <2>2, FS_Singleton
<1>2. \A c, d \in table : c.snap = d.snap
  BY DEF Holds
<1>3. PICK p \in Parts : TRUE
  BY LoadAssumption
<1>4. \E c \in table : TRUE
  BY <1>3 DEF Holds
<1>5. SnapOf(table) = snap
  BY <1>4 DEF SnapOf, Holds
<1> QED BY <1>1, <1>2, <1>5 DEF Whole

LEMMA InitInd == Init => IndInv
<1>1. Init => StagingInv /\ Loaded
  BY DEF Init, StagingInv, Loaded, Idle
<1> QED BY <1>1, TypeInit DEF IndInv

(* An insert adds the one partition it takes off the list.                 *)
LEMMA InsertHolds ==
  ASSUME NEW table, NEW left \in SUBSET Parts, NEW p \in left, NEW snap, NEW by,
         Holds(table, Parts \ left, snap)
  PROVE  Holds(table \cup {[snap |-> snap, part |-> p, by |-> by]},
               Parts \ (left \ {p}), snap)
<1> DEFINE new == [snap |-> snap, part |-> p, by |-> by]
           more == table \cup {new}
           parts == Parts \ (left \ {p})
<1>1. new.part = p /\ new.snap = snap
  OBVIOUS
<1> HIDE DEF new
<1>2. parts = (Parts \ left) \cup {p} /\ p \notin Parts \ left
  OBVIOUS
<1> HIDE DEF parts
<1>3. \A c \in more : c.part \in parts /\ c.snap = snap
  BY <1>1, <1>2 DEF Holds
<1>4. \A q \in parts : \E c \in more : c.part = q
  BY <1>1, <1>2 DEF Holds
<1>5. \A c, d \in more : c.part = d.part => c = d
  BY <1>1, <1>2 DEF Holds
<1>6. Holds(more, parts, snap)
  BY <1>3, <1>4, <1>5 DEF Holds
<1> QED BY <1>6 DEF new, parts

(* Every step of a lone script keeps the invariant.                        *)
LEMMA IndStep ==
  ASSUME OneScript, IndInv, [Next]_vars
  PROVE  IndInv'
<1>1. TypeOK /\ StagingInv /\ Loaded /\ TypeOK'
  BY TypeStep DEF IndInv
<1>2. CASE UNCHANGED vars
  BY <1>1, <1>2 DEF vars, StagingInv, Loaded, IndInv
<1>3. CASE Ingest
  <2>1. lake'.version > 0
    BY <1>1, <1>3 DEF Ingest, TypeOK, Snapshot, Bronze!Snapshot
  <2>2. StagingInv'
    BY <1>1, <1>3, <2>1 DEF Ingest, StagingInv
  <2> QED BY <1>1, <1>3, <2>2 DEF Ingest, Loaded, IndInv
<1>4. ASSUME NEW l \in Loaders, Begin(l) PROVE IndInv'
  <2>1. StagingInv'
    BY <1>1, <1>4 DEF OneScript, Begin, StagingInv, TypeOK
  <2> QED BY <1>1, <1>4, <2>1 DEF Begin, Loaded, IndInv
<1>5. ASSUME NEW l \in Loaders, DropStaging(l) PROVE IndInv'
  <2>1. load[l].left = Parts /\ load[l].snap = None /\ lake'.version > 0
    BY <1>1, <1>5 DEF DropStaging, StagingInv
  <2>2. /\ load'[l].pc = "create" /\ load'[l].left = Parts /\ load'[l].snap = None
        /\ \A k \in Loaders : k = l
    BY <1>1, <1>5, <2>1 DEF DropStaging, TypeOK, OneScript
  <2>3. StagingInv'
    BY <2>1, <2>2 DEF StagingInv
  <2> QED BY <1>1, <1>5, <2>3 DEF DropStaging, Loaded, IndInv
<1>6. ASSUME NEW l \in Loaders, CreateStaging(l) PROVE IndInv'
  <2>1. /\ load[l].left = Parts /\ load[l].snap = None /\ lake'.version > 0
        /\ load' = [load EXCEPT ![l].pc = "plan"] /\ staging' = {}
    BY <1>1, <1>6 DEF CreateStaging, StagingInv
  <2>2. /\ load'[l].pc = "plan" /\ load'[l].left = Parts /\ load'[l].snap = None
        /\ \A k \in Loaders : k = l
    BY <1>1, <2>1 DEF TypeOK, OneScript
  <2>3. StagingInv'
    BY <2>1, <2>2 DEF StagingInv
  <2> QED BY <1>1, <1>6, <2>3 DEF CreateStaging, Loaded, IndInv
<1>7. ASSUME NEW l \in Loaders, NEW p \in Parts, Insert(l, p) PROVE IndInv'
  <2> DEFINE left == load[l].left
             snap == load[l].snap
  <2>1. Holds(staging, Parts \ left, snap) /\ left \in SUBSET Parts /\ p \in left
    BY <1>1, <1>7 DEF Insert, StagingInv, TypeOK
  <2>2. Holds(staging', Parts \ (left \ {p}), snap)
    BY <1>7, <2>1, InsertHolds DEF Insert
  <2>3. /\ load'[l].pc = "write" /\ load'[l].left = left \ {p} /\ load'[l].snap = snap
        /\ \A k \in Loaders : k = l
    BY <1>1, <1>7 DEF Insert, TypeOK, OneScript
  <2>4. lake'.version > 0
    BY <1>1, <1>7 DEF Insert, StagingInv
  <2>5. StagingInv'
    BY <2>2, <2>3, <2>4 DEF StagingInv
  <2> QED BY <1>1, <1>7, <2>5 DEF Insert, Loaded, IndInv
<1>8. ASSUME NEW l \in Loaders, Swap(l) PROVE IndInv'
  <2>1. Holds(target', Parts, load[l].snap)
    BY <1>1, <1>8 DEF Swap, StagingInv
  <2>2. load[l].snap \in Snapshot
    BY <1>1, <1>8 DEF Swap, TypeOK, Busy
  <2>3. StagingInv'
    BY <1>1, <1>8 DEF Swap, OneScript, StagingInv, TypeOK, Idle
  <2> QED BY <1>1, <2>1, <2>2, <2>3 DEF Loaded, IndInv
<1>9. ASSUME NEW l \in Loaders, Stop(l) PROVE IndInv'
  <2>1. StagingInv'
    BY <1>1, <1>9 DEF Stop, OneScript, StagingInv, TypeOK, Idle
  <2> QED BY <1>1, <1>9, <2>1 DEF Stop, Loaded, IndInv
<1>10. ASSUME NEW l \in Loaders, Plan(l) PROVE IndInv'
  <2>1. /\ load[l].left = Parts /\ staging' = {} /\ lake'.version > 0
        /\ load' = [load EXCEPT ![l].pc = "write", ![l].snap = lake]
    BY <1>1, <1>10 DEF Plan, StagingInv
  <2>2. /\ load'[l].pc = "write" /\ load'[l].left = Parts /\ \A k \in Loaders : k = l
        /\ Holds(staging', {}, load'[l].snap)
    BY <1>1, <2>1 DEF OneScript, TypeOK, Holds
  <2>3. StagingInv'
    BY <2>1, <2>2 DEF StagingInv
  <2> QED BY <1>1, <1>10, <2>3 DEF Plan, Loaded, IndInv
<1> QED BY <1>2, <1>3, <1>4, <1>5, <1>6, <1>7, <1>8, <1>9, <1>10 DEF Next

THEOREM Invariant == OneScript /\ Spec => []IndInv
<1> SUFFICES ASSUME OneScript PROVE Spec => []IndInv
  OBVIOUS
<1>1. IndInv /\ [Next]_vars => IndInv'
  BY IndStep
<1> QED BY <1>1, InitInd, PTL DEF Spec

(* Readers of bronze.transactions see a whole copy of one version, through *)
(* any number of stopped scripts and leftover staging tables.              *)
THEOREM TargetIsWhole == OneScript /\ Spec => []WholeTarget
<1>1. IndInv => WholeTarget
  BY HoldsIsWhole DEF IndInv, Loaded, WholeTarget
<1> QED BY <1>1, Invariant, PTL

-----------------------------------------------------------------------------
(* The refinement: what copy and bronze of BronzePublish stand for.        *)
Copy   == IF Busy = {} THEN None ELSE load[CHOOSE l \in Busy : TRUE].snap
Public == IF target # None /\ Whole(target) THEN SnapOf(target) ELSE None

LEMMA CopyOf ==
  ASSUME OneScript, NEW l \in Loaders
  PROVE  Copy = IF load[l].pc = "idle" THEN None ELSE load[l].snap
<1>1. CASE load[l].pc = "idle"
  <2>1. Busy = {}
    BY <1>1 DEF OneScript, Busy
  <2> QED BY <1>1, <2>1 DEF Copy
<1>2. CASE load[l].pc # "idle"
  <2>1. Busy = {l}
    BY <1>2 DEF OneScript, Busy
  <2>2. (CHOOSE k \in Busy : TRUE) = l
    BY <2>1
  <2> QED BY <1>2, <2>1, <2>2 DEF Copy
<1> QED BY <1>1, <1>2

LEMMA CopyNext ==
  ASSUME OneScript, NEW l \in Loaders
  PROVE  Copy' = IF load'[l].pc = "idle" THEN None ELSE load'[l].snap
<1>1. CASE load'[l].pc = "idle"
  <2>1. Busy' = {}
    BY <1>1 DEF OneScript, Busy
  <2> QED BY <1>1, <2>1 DEF Copy
<1>2. CASE load'[l].pc # "idle"
  <2>1. Busy' = {l}
    BY <1>2 DEF OneScript, Busy
  <2>2. (CHOOSE k \in Busy' : TRUE) = l
    BY <2>1
  <2> QED BY <1>2, <2>1, <2>2 DEF Copy
<1> QED BY <1>1, <1>2

(* A step of the script is a step of BronzePublish, or nothing to it.      *)
LEMMA Simulation ==
  ASSUME OneScript, IndInv, [Next]_vars
  PROVE  [Bronze!Next]_Bronze!bronzeVars
<1> USE DEF Bronze!Next, Bronze!bronzeVars
<1>0. TypeOK
  BY DEF IndInv
<1> DEFINE Stutter == lake' = lake /\ Copy' = Copy /\ Public' = Public /\ loads' = loads
<1>a. Stutter => UNCHANGED Bronze!bronzeVars
  BY DEF Copy, Public
<1>1. CASE UNCHANGED vars
  <2>1. Stutter
    BY <1>1 DEF vars, Copy, Public, Busy
  <2> QED BY <1>a, <2>1
<1>2. CASE Ingest
  <2>1. Copy' = Copy /\ Public' = Public
    BY <1>2 DEF Ingest, Copy, Public, Busy
  <2>2. Bronze!Ingest
    BY <1>2, <2>1 DEF Ingest, Bronze!Ingest, Copy, Public
  <2> QED BY <2>2
<1>b. ASSUME NEW l \in Loaders, load[l].pc \in {"drop", "create", "plan"}
      PROVE  load[l].snap = None
  BY <1>b DEF IndInv, StagingInv
<1>3. ASSUME NEW l \in Loaders, Begin(l) PROVE Stutter
  <2>1. Copy' = Copy
    BY <1>0, <1>3, CopyOf, CopyNext DEF Begin, TypeOK
  <2> QED BY <1>3, <2>1 DEF Begin, Public
<1>4. ASSUME NEW l \in Loaders, DropStaging(l) PROVE Stutter
  <2>1. Copy' = Copy
    BY <1>0, <1>4, CopyOf, CopyNext DEF DropStaging, TypeOK
  <2> QED BY <1>4, <2>1 DEF DropStaging, Public
<1>5. ASSUME NEW l \in Loaders, CreateStaging(l) PROVE Stutter
  <2>1. Copy' = Copy
    BY <1>0, <1>5, CopyOf, CopyNext DEF CreateStaging, TypeOK
  <2> QED BY <1>5, <2>1 DEF CreateStaging, Public
<1>6. ASSUME NEW l \in Loaders, NEW p \in Parts, Insert(l, p) PROVE Stutter
  <2>1. Copy' = Copy
    BY <1>0, <1>6, CopyOf, CopyNext DEF Insert, TypeOK
  <2> QED BY <1>6, <2>1 DEF Insert, Public
<1>7. ASSUME NEW l \in Loaders, Swap(l) PROVE Bronze!Publish
  <2>1. load[l].snap # None
    BY <1>0, <1>7 DEF Swap, TypeOK
  <2>2. Copy = load[l].snap /\ Copy' = None
    BY <1>0, <1>7, CopyOf, CopyNext DEF Swap, TypeOK, Idle
  <2>3. Holds(staging, Parts, load[l].snap)
    BY <1>7 DEF IndInv, StagingInv, Swap
  <2>4. Whole(staging) /\ SnapOf(staging) = load[l].snap
    BY <2>3, HoldsIsWhole
  <2>5. target' = staging /\ staging # None
    BY <1>7 DEF Swap
  <2>6. Whole(target') /\ SnapOf(target') = load[l].snap
    BY <2>4, <2>5
  <2>7. Public' = Copy
    BY <2>2, <2>5, <2>6 DEF Public, Whole, SnapOf
  <2> QED BY <1>7, <2>1, <2>2, <2>7 DEF Swap, Bronze!Publish, Copy, Public
<1>8. ASSUME NEW l \in Loaders, Stop(l) PROVE Bronze!Abandon \/ Stutter
  <2>1. Copy' = None
    BY <1>0, <1>8, CopyNext DEF Stop, TypeOK, Idle
  <2>2. Public' = Public
    BY <1>8 DEF Stop, Public
  <2>3. CASE Copy # None
    BY <1>8, <2>1, <2>2, <2>3 DEF Stop, Bronze!Abandon, Copy, Public
  <2>4. CASE Copy = None
    BY <1>8, <2>1, <2>2, <2>4 DEF Stop
  <2> QED BY <2>3, <2>4
<1>9. ASSUME NEW l \in Loaders, Plan(l) PROVE Bronze!Pin
  <2>1. load[l].pc = "plan" /\ load[l].snap = None
    BY <1>9, <1>b DEF Plan
  <2>2. Copy = None /\ Copy' = lake
    BY <1>0, <1>9, <2>1, CopyOf, CopyNext DEF Plan, TypeOK
  <2>3. lake.version > 0
    BY <2>1 DEF IndInv, StagingInv
  <2>4. Public' = Public
    BY <1>9 DEF Plan, Public
  <2> QED BY <1>9, <2>2, <2>3, <2>4 DEF Plan, Bronze!Pin, Copy, Public
<1> QED BY <1>a, <1>1, <1>2, <1>3, <1>4, <1>5, <1>6, <1>7, <1>8, <1>9 DEF Next

(* load_bronze_to_postgres.py implements BronzePublish, which the batch    *)
(* pipeline is composed with.                                              *)
THEOREM Refinement == OneScript /\ Spec => Implements
<1> SUFFICES ASSUME OneScript PROVE Spec => Implements
  OBVIOUS
<1>1. Init => Bronze!Init
  <2>1. Init => Busy = {} /\ target = None
    BY DEF Init, Busy, Idle
  <2> QED BY <2>1 DEF Init, Bronze!Init
<1>2. IndInv /\ [Next]_vars => [Bronze!Next]_Bronze!bronzeVars
  BY Simulation
<1>3. Spec => []IndInv
  BY Invariant
<1> QED BY <1>1, <1>2, <1>3, PTL DEF Spec, Bronze!Spec, Implements
=============================================================================
