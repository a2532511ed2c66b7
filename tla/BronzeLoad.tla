---------------------------- MODULE BronzeLoad ----------------------------
(***************************************************************************)
(* load_bronze_to_postgres.py: Spark opens the Delta table, drops and      *)
(* recreates bronze.transactions_staging, plans the query and with it pins *)
(* a version of the table, inserts the rows of each partition in a         *)
(* transaction of its own, and a last transaction replaces                 *)
(* bronze.transactions by the staging table.  The script may stop          *)
(* anywhere: an exception, a kill, a partition that Spark does not retry   *)
(* (local mode).  The name of the staging table is fixed, so scripts that  *)
(* run at the same time share it.                                          *)
(*                                                                         *)
(* A table is None or the set of chunks [snap, part, by] committed to it:  *)
(* partition part of version snap, inserted by script by.                  *)
(***************************************************************************)
EXTENDS Naturals, FiniteSets

CONSTANTS
  Loaders,      \* load scripts that may run at the same time
  Parts,        \* partitions of the DataFrame the script writes
  FlawKinds, MaxVersion, MaxLoads, None

VARIABLES
  lake,         \* latest committed version of the Delta table
  load,         \* script |-> [pc, snap, left]
  staging,      \* bronze.transactions_staging
  target,       \* bronze.transactions
  loads         \* scripts that have pinned a version so far

vars == <<lake, load, staging, target, loads>>

Busy == {l \in Loaders : load[l].pc # "idle"}

(* The rows of each partition of one version, each once.                   *)
Whole(table) ==
  /\ \A p \in Parts : Cardinality({c \in table : c.part = p}) = 1
  /\ \A c, d \in table : c.snap = d.snap

(* What the script promises: see BronzePublish.                            *)
SnapOf(table) == (CHOOSE c \in table : TRUE).snap
Bronze == INSTANCE BronzePublish WITH
  copy   <- IF Busy = {} THEN None ELSE load[CHOOSE l \in Busy : TRUE].snap,
  bronze <- IF target # None /\ Whole(target) THEN SnapOf(target) ELSE None

Snapshot == Bronze!Snapshot
Chunk    == [snap : Snapshot, part : Parts, by : Loaders]
Idle     == [pc |-> "idle", snap |-> None, left |-> {}]

ASSUME LoadAssumption ==
  /\ Parts # {} /\ IsFiniteSet(Parts)
  /\ MaxVersion \in Nat /\ MaxLoads \in Nat
  /\ None \notin Snapshot

TypeOK ==
  /\ lake \in Snapshot /\ loads \in Nat
  /\ load \in [Loaders -> [pc : {"idle", "drop", "create", "plan", "write"},
                           snap : Snapshot \cup {None}, left : SUBSET Parts]]
  /\ \A l \in Loaders : load[l].pc = "write" => load[l].snap # None
  /\ staging \in (SUBSET Chunk) \cup {None}
  /\ target \in (SUBSET Chunk) \cup {None}

Init ==
  /\ lake = [version |-> 0, flaws |-> {}]
  /\ load = [l \in Loaders |-> Idle]
  /\ staging = None /\ target = None
  /\ loads = 0

-----------------------------------------------------------------------------
(* Spark commits one more micro-batch to the Delta table.                  *)
Ingest ==
  /\ lake.version < MaxVersion
  /\ \E new \in FlawKinds :
       lake' = [version |-> lake.version + 1, flaws |-> lake.flaws \cup new]
  /\ UNCHANGED <<load, staging, target, loads>>

(* The script opens the Delta table, which has to exist.                   *)
Begin(l) ==
  /\ load[l].pc = "idle" /\ lake.version > 0
  /\ load' = [load EXCEPT ![l] = [pc |-> "drop", snap |-> None, left |-> Parts]]
  /\ UNCHANGED <<lake, staging, target, loads>>

(* Mutant: the target itself is overwritten.                               *)
DropTarget(l) ==
  /\ load[l].pc = "drop"
  /\ staging' = None /\ target' = None
  /\ load' = [load EXCEPT ![l].pc = "create"]
  /\ UNCHANGED <<lake, loads>>

(* mode="overwrite": a staging table left by an earlier script goes first. *)
DropStaging(l) ==
  /\ load[l].pc = "drop"
  /\ staging' = None
  /\ load' = [load EXCEPT ![l].pc = "create"]
  /\ UNCHANGED <<lake, target, loads>>

CreateStaging(l) ==
  /\ load[l].pc = "create" /\ staging = None
  /\ staging' = {}
  /\ load' = [load EXCEPT ![l].pc = "plan"]
  /\ UNCHANGED <<lake, target, loads>>

(* Mutant: the version is left open.                                       *)
PlanUnpinned(l) ==
  /\ load[l].pc = "plan" /\ loads < MaxLoads
  /\ load' = [load EXCEPT ![l].pc = "write"]
  /\ loads' = loads + 1
  /\ UNCHANGED <<lake, staging, target>>

(* Spark plans the query: Delta looks up the latest version once more, and *)
(* it is pinned from here on.                                              *)
Plan(l) ==
  /\ load[l].pc = "plan" /\ loads < MaxLoads
  /\ load' = [load EXCEPT ![l].pc = "write", ![l].snap = lake]
  /\ loads' = loads + 1
  /\ UNCHANGED <<lake, staging, target>>

(* Mutant: each partition shows the files there are when it is read.       *)
InsertLatest(l, p) ==
  /\ load[l].pc = "write" /\ p \in load[l].left /\ staging # None
  /\ staging' = staging \cup {[snap |-> lake, part |-> p, by |-> l]}
  /\ load' = [load EXCEPT ![l].left = @ \ {p}]
  /\ UNCHANGED <<lake, target, loads>>

(* One partition commits.                                                  *)
Insert(l, p) ==
  /\ load[l].pc = "write" /\ p \in load[l].left /\ staging # None
  /\ staging' = staging \cup {[snap |-> load[l].snap, part |-> p, by |-> l]}
  /\ load' = [load EXCEPT ![l].left = @ \ {p}]
  /\ UNCHANGED <<lake, target, loads>>

(* DROP the target, RENAME staging, COMMIT: one transaction.               *)
Swap(l) ==
  /\ load[l].pc = "write" /\ load[l].left = {} /\ staging # None
  /\ target' = staging /\ staging' = None
  /\ load' = [load EXCEPT ![l] = Idle]
  /\ UNCHANGED <<lake, loads>>

(* The script stops before its swap commits.  It must when the table it    *)
(* creates exists, or the one it writes or renames does not.               *)
Stop(l) ==
  /\ l \in Busy
  /\ load' = [load EXCEPT ![l] = Idle]
  /\ UNCHANGED <<lake, staging, target, loads>>

Next ==
  \/ Ingest
  \/ \E l \in Loaders :
       \/ Begin(l) \/ DropStaging(l) \/ CreateStaging(l) \/ Plan(l)
       \/ \E p \in Parts : Insert(l, p)
       \/ Swap(l) \/ Stop(l)

Spec == Init /\ [][Next]_vars

-----------------------------------------------------------------------------
(* Properties                                                              *)

(* Readers of bronze.transactions see a whole copy of one version: no      *)
(* script that stopped, and none still writing, shows through.             *)
WholeTarget == target # None => Whole(target)

(* Seen from the warehouse, the script replaces bronze.transactions in one *)
(* step by the version it pinned, or has no effect.                        *)
Implements == Bronze!Spec
=============================================================================
