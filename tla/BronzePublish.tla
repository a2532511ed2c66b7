--------------------------- MODULE BronzePublish ---------------------------
(***************************************************************************)
(* What load_bronze_to_postgres.py promises the warehouse: the table       *)
(* bronze.transactions is always a whole copy of one committed version of  *)
(* the Delta table, replaced in one step.  BronzeLoad implements it;       *)
(* FeaturePipeline builds on it.                                           *)
(*                                                                         *)
(* A version of the table is abstracted to its number and to the flaws     *)
(* its rows have gathered: what a later cast or data test will trip over.  *)
(* Bronze is append-only, so flaws only accumulate.                        *)
(***************************************************************************)
EXTENDS Naturals

CONSTANTS
  FlawKinds,    \* the sets of flaws that one micro-batch may bring in
  MaxVersion,   \* bound: Delta versions committed in a run
  MaxLoads,     \* bound: executions of the load script in a run
  None          \* no table, no copy

VARIABLES
  lake,         \* latest committed version of s3a://bronze/transactions_v2/
  copy,         \* the version the running load script is copying, or None
  bronze,       \* the version bronze.transactions holds, or None
  loads         \* load scripts that have pinned a version so far

bronzeVars == <<lake, copy, bronze, loads>>

Snapshot == [version : Nat, flaws : SUBSET UNION FlawKinds]

TypeOK ==
  /\ lake \in Snapshot
  /\ copy \in Snapshot \cup {None}
  /\ bronze \in Snapshot \cup {None}
  /\ loads \in Nat

Init ==
  /\ lake = [version |-> 0, flaws |-> {}]
  /\ copy = None /\ bronze = None /\ loads = 0

(* Spark commits one more micro-batch to the Delta table.                  *)
Ingest ==
  /\ lake.version < MaxVersion
  /\ \E new \in FlawKinds :
       lake' = [version |-> lake.version + 1, flaws |-> lake.flaws \cup new]
  /\ UNCHANGED <<copy, bronze, loads>>

(* A load script plans its copy: of the version committed at that point.   *)
Pin ==
  /\ copy = None /\ lake.version > 0 /\ loads < MaxLoads
  /\ copy' = lake /\ loads' = loads + 1
  /\ UNCHANGED <<lake, bronze>>

(* The swap transaction commits.                                           *)
Publish ==
  /\ copy # None
  /\ bronze' = copy /\ copy' = None
  /\ UNCHANGED <<lake, loads>>

(* The load script fails or is killed before its swap commits.             *)
Abandon ==
  /\ copy # None /\ copy' = None
  /\ UNCHANGED <<lake, bronze, loads>>

Next == Ingest \/ Pin \/ Publish \/ Abandon

Spec == Init /\ [][Next]_bronzeVars
=============================================================================
