-------------------------- MODULE FeaturePipeline --------------------------
(***************************************************************************)
(* The batch half of the system: the Airflow DAG fraud_feature_pipeline    *)
(* (dbt snapshot -> dbt run -> dbt test -> load_features_to_redis), the    *)
(* dbt models it rebuilds and tests, and the feature sets it puts in       *)
(* Redis, next to load_bronze_to_postgres.py, which replaces               *)
(* bronze.transactions whenever an operator runs it.                       *)
(*                                                                         *)
(* A dbt relation is abstracted to the bronze version its rows come from:  *)
(* [version, flaws].  A flaw is the name of a model whose data tests that  *)
(* version fails (a duplicate transaction_id fails "stg" and "int", a null *)
(* transaction_type fails "recon"), or "cast": an amount or a timestamp    *)
(* that stg_transactions cannot convert, so that every query reading the   *)
(* view fails.                                                             *)
(***************************************************************************)
EXTENDS Naturals

CONSTANTS
  Runs,         \* DAG runs that may be active at the same time
  Retries,      \* default_args["retries"]
  MaxFaults,    \* bound: infrastructure failures in a run of the model
  FlawKinds, MaxVersion, MaxLoads, None

VARIABLES
  lake, copy, bronze, loads,    \* see BronzePublish
  view,         \* does the view silver.stg_transactions exist?
  tab,          \* dbt table |-> the version it was built from, or None
  pc,           \* DAG run |-> its current task, or how it ended
  tries,        \* DAG run |-> failed attempts of its current task
  exec,         \* the DAG run whose task occupies the SequentialExecutor
  done, bad,    \* steps of the running attempt that succeeded, that did not
  served,       \* build the features in Redis were last written from
  faults

warehouse == <<view, tab>>
attempt   == <<done, bad>>
bronzeVars == <<lake, copy, bronze, loads>>
vars == <<bronzeVars, warehouse, pc, tries, exec, attempt, served, faults>>

Bronze == INSTANCE BronzePublish
Snapshot == Bronze!Snapshot

ASSUME PipelineAssumption ==
  /\ Retries \in Nat /\ MaxFaults \in Nat
  /\ MaxVersion \in Nat /\ MaxLoads \in Nat
  /\ None \notin Snapshot /\ None \notin Runs
  /\ UNION FlawKinds \subseteq {"stg", "int", "user", "merch", "recon", "health", "cast"}

-----------------------------------------------------------------------------
(* The dbt project                                                         *)

Tables == {"int", "user", "merch", "recon", "health"}
Models == {"stg"} \cup Tables
LoadSteps == {"load_users", "load_merchants"}
Tasks  == {"dbt_snapshot", "dbt_run", "dbt_test", "load_features"}
Ends   == {"idle", "success", "failed"}

(* The models over transactions that a model ref()s.                       *)
IntRefs    == {"stg"}
UserRefs   == {"stg"}
MerchRefs  == {"int"}
ReconRefs  == {"stg", "int", "user"}
HealthRefs == {"recon", "user", "merch"}

(* What has to succeed before a step of an attempt may run.                *)
Needs == [stg   |-> {},        int    |-> IntRefs,   user  |-> UserRefs,
          merch |-> MerchRefs, recon  |-> ReconRefs, health |-> HealthRefs,
          snp_users  |-> {},   snp_merchants  |-> {},
          load_users |-> {},   load_merchants |-> {"load_users"}]

Steps == [dbt_snapshot  |-> {"snp_users", "snp_merchants"},
          dbt_run       |-> Models,
          dbt_test      |-> Models,
          load_features |-> LoadSteps]

(* The rows of a relation.  DROP TABLE ... CASCADE ties the view to the    *)
(* bronze table it was created on.                                         *)
Content(m) == IF m = "stg" THEN IF view THEN bronze ELSE None
                           ELSE tab[m]

(* The version the query of a model reads.                                 *)
Source(m) == CASE m \in {"stg", "int", "user", "recon"} -> bronze
               [] m = "merch"  -> tab["int"]
               [] m = "health" -> tab["recon"]

(* Can the model be built?  Creating the view evaluates no row of it.      *)
Buildable(m) ==
  /\ Source(m) # None
  /\ "stg" \in Needs[m] => view /\ "cast" \notin bronze.flaws

(* Do all data tests of a model succeed?                                   *)
TestsHold(m) ==
  /\ Content(m) # None
  /\ m \notin Content(m).flaws
  /\ m = "stg" => "cast" \notin bronze.flaws

-----------------------------------------------------------------------------
TypeOK ==
  /\ Bronze!TypeOK
  /\ view \in BOOLEAN
  /\ tab \in [Tables -> Snapshot \cup {None}]
  /\ pc \in [Runs -> Tasks \cup Ends]
  /\ tries \in [Runs -> 0 .. Retries]
  /\ exec \in Runs \cup {None}
  /\ exec # None => pc[exec] \in Tasks /\ done \cup bad \subseteq Steps[pc[exec]]
  /\ served \in [LoadSteps -> Snapshot \cup {None}]
  /\ faults \in 0 .. MaxFaults

Init ==
  /\ Bronze!Init
  /\ view = FALSE /\ tab = [m \in Tables |-> None]
  /\ pc = [r \in Runs |-> "idle"] /\ tries = [r \in Runs |-> 0]
  /\ exec = None /\ done = {} /\ bad = {}
  /\ served = [s \in LoadSteps |-> None]
  /\ faults = 0

-----------------------------------------------------------------------------
(* The streaming job and the load script, outside the DAG                  *)

Upstream ==
  /\ Bronze!Ingest \/ Bronze!Pin \/ Bronze!Abandon
  /\ UNCHANGED <<warehouse, pc, tries, exec, attempt, served, faults>>

(* Mutant: the rows are replaced under the view, which stays.              *)
SwapKeepsView ==
  /\ Bronze!Publish
  /\ UNCHANGED <<warehouse, pc, tries, exec, attempt, served, faults>>

(* Replacing bronze.transactions drops the view that depends on it.        *)
Swap ==
  /\ Bronze!Publish
  /\ view' = FALSE
  /\ UNCHANGED <<tab, pc, tries, exec, attempt, served, faults>>

-----------------------------------------------------------------------------
(* The scheduler                                                           *)

(* Mutant: depends_on_past, a run waits for the last one to succeed.       *)
TriggerDependsOnPast(r) ==
  /\ pc[r] \in {"idle", "success"}
  /\ pc' = [pc EXCEPT ![r] = "dbt_snapshot"]
  /\ tries' = [tries EXCEPT ![r] = 0]
  /\ UNCHANGED <<bronzeVars, warehouse, exec, attempt, served, faults>>

(* The schedule or an operator starts a DAG run.                           *)
Trigger(r) ==
  /\ pc[r] \in Ends
  /\ pc' = [pc EXCEPT ![r] = "dbt_snapshot"]
  /\ tries' = [tries EXCEPT ![r] = 0]
  /\ UNCHANGED <<bronzeVars, warehouse, exec, attempt, served, faults>>

(* The executor takes up a task that is due, first time or again.          *)
StartTask(r) ==
  /\ exec = None /\ pc[r] \in Tasks
  /\ exec' = r /\ done' = {} /\ bad' = {}
  /\ UNCHANGED <<bronzeVars, warehouse, pc, tries, served, faults>>

AfterTask == [dbt_snapshot  |-> "dbt_run",  dbt_run       |-> "dbt_test",
              dbt_test      |-> "load_features", load_features |-> "success"]

TaskSucceeds(r) ==
  /\ pc' = [pc EXCEPT ![r] = AfterTask[pc[r]]]
  /\ tries' = [tries EXCEPT ![r] = 0]

(* Mutants: one retry too many; retries without end.                       *)
RetryOneMore(r) ==
  \/ /\ tries[r] <= Retries
     /\ tries' = [tries EXCEPT ![r] = @ + 1] /\ UNCHANGED pc
  \/ /\ tries[r] > Retries
     /\ pc' = [pc EXCEPT ![r] = "failed"] /\ UNCHANGED tries

RetryForever(r) == UNCHANGED <<pc, tries>>

RetryOrFail(r) ==
  \/ /\ tries[r] < Retries
     /\ tries' = [tries EXCEPT ![r] = @ + 1] /\ UNCHANGED pc
  \/ /\ tries[r] >= Retries
     /\ pc' = [pc EXCEPT ![r] = "failed"] /\ UNCHANGED tries

(* Mutants: the exit code of dbt test, of dbt run is lost.                 *)
TestsIgnored  == done = Steps[pc[exec]] \/ pc[exec] = "dbt_test"
ErrorsIgnored == done = Steps[pc[exec]] \/ pc[exec] = "dbt_run"

(* The command of the running attempt exits 0: every step succeeded.       *)
AttemptPassed == done = Steps[pc[exec]]

(* The command of the running attempt exits.                               *)
EndTask ==
  /\ exec # None /\ done \cup bad = Steps[pc[exec]]
  /\ IF AttemptPassed THEN TaskSucceeds(exec) ELSE RetryOrFail(exec)
  /\ exec' = None
  /\ UNCHANGED <<bronzeVars, warehouse, attempt, served, faults>>

(* The process of the running attempt dies.                                *)
KillTask ==
  /\ exec # None /\ faults < MaxFaults
  /\ faults' = faults + 1
  /\ RetryOrFail(exec) /\ exec' = None
  /\ UNCHANGED <<bronzeVars, warehouse, attempt, served>>

-----------------------------------------------------------------------------
(* The steps of the running attempt                                        *)

Running(task) == exec # None /\ pc[exec] = task
Pending(s)    == exec # None /\ s \in Steps[pc[exec]] \ (done \cup bad)
Ready(s)      == Pending(s) /\ (pc[exec] # "dbt_test" => Needs[s] \subseteq done)

Ok(s)     == done' = done \cup {s} /\ UNCHANGED bad
Failed(s) == bad' = bad \cup {s} /\ UNCHANGED done

Snap(s) ==
  /\ Running("dbt_snapshot") /\ Ready(s) /\ Ok(s)
  /\ UNCHANGED <<bronzeVars, warehouse, pc, tries, exec, served, faults>>

Build(m) ==
  /\ Running("dbt_run") /\ Ready(m)
  /\ \/ /\ Buildable(m) /\ Ok(m)
        /\ view' = (m = "stg" \/ view)
        /\ tab' = [t \in Tables |-> IF t = m THEN Source(m) ELSE tab[t]]
     \/ ~Buildable(m) /\ Failed(m) /\ UNCHANGED warehouse
  /\ UNCHANGED <<bronzeVars, pc, tries, exec, served, faults>>

Test(m) ==
  /\ Running("dbt_test") /\ Ready(m)
  /\ \/ TestsHold(m) /\ Ok(m)
     \/ ~TestsHold(m) /\ Failed(m)
  /\ UNCHANGED <<bronzeVars, warehouse, pc, tries, exec, served, faults>>

(* The table a call of the loader reads.                                   *)
LoadedTable == [load_users |-> "user", load_merchants |-> "merch"]

(* One call of the loader writes the rows of its gold table to Redis.      *)
Load(s) ==
  /\ Running("load_features") /\ Ready(s)
  /\ \/ /\ tab[LoadedTable[s]] # None /\ Ok(s)
        /\ served' = [served EXCEPT ![s] = tab[LoadedTable[s]]]
     \/ tab[LoadedTable[s]] = None /\ Failed(s) /\ UNCHANGED served
  /\ UNCHANGED <<bronzeVars, warehouse, pc, tries, exec, faults>>

(* A step after one that did not succeed is skipped.                       *)
SkipStep(s) ==
  /\ Pending(s) /\ pc[exec] # "dbt_test" /\ Needs[s] \cap bad # {}
  /\ Failed(s)
  /\ UNCHANGED <<bronzeVars, warehouse, pc, tries, exec, served, faults>>

(* A connection, lock or memory failure hits a step; the loader may have   *)
(* written some of its batches by then.                                    *)
StepFault(s) ==
  /\ Ready(s) /\ Failed(s)
  /\ faults < MaxFaults /\ faults' = faults + 1
  /\ \/ UNCHANGED served
     \/ /\ s \in LoadSteps /\ tab[LoadedTable[s]] # None
        /\ served' = [served EXCEPT ![s] = tab[LoadedTable[s]]]
  /\ UNCHANGED <<bronzeVars, warehouse, pc, tries, exec>>

AllSteps == UNION {Steps[t] : t \in Tasks}

Step ==
  \/ \E s \in Steps["dbt_snapshot"] : Snap(s)
  \/ \E m \in Models : Build(m) \/ Test(m)
  \/ \E s \in LoadSteps : Load(s)
  \/ \E s \in AllSteps : SkipStep(s)

Scheduler == EndTask \/ \E r \in Runs : StartTask(r)

Next ==
  \/ Upstream \/ Swap
  \/ Step \/ Scheduler \/ KillTask
  \/ \E r \in Runs : Trigger(r)
  \/ \E s \in AllSteps : StepFault(s)

Spec == Init /\ [][Next]_vars

(* The executor keeps going and the schedule keeps triggering runs.        *)
FairSpec ==
  /\ Spec
  /\ WF_vars(Step) /\ WF_vars(Scheduler)
  /\ \A r \in Runs : WF_vars(Trigger(r))

-----------------------------------------------------------------------------
(* Properties                                                              *)

(* "stale-but-validated is preferred over fresh-but-broken": whatever is   *)
(* in Redis was built from a version without flaws.                        *)
GateHolds ==
  \A s \in LoadSteps : served[s] # None => served[s].flaws = {}

(* What the tests look at, and the loader loads, is one build: between the *)
(* end of dbt run and the end of the load all tables show one version,     *)
(* however many swaps of bronze came in between.                           *)
CoherentBuild ==
  \A r \in Runs : pc[r] \in {"dbt_test", "load_features"} =>
    \A t, u \in Tables : tab[t] # None /\ tab[t] = tab[u]

(* A DAG run that succeeds leaves user and merchant features of one build. *)
LoadsOneBuild ==
  \A r \in Runs : pc[r] = "success" =>
    served["load_users"] # None /\ served["load_users"] = served["load_merchants"]

(* Every DAG run comes to an end, whatever fails.                          *)
RunsFinish == \A r \in Runs : pc[r] \in Tasks ~> pc[r] \in {"success", "failed"}

(* Once loads and failures are over, a bronze table without flaws reaches  *)
(* Redis: no earlier failure, half build or dropped view is in the way.    *)
Quiet == loads = MaxLoads /\ copy = None /\ faults = MaxFaults
CleanDataServed ==
  Quiet /\ bronze # None /\ bronze.flaws = {}
    ~> \A s \in LoadSteps : served[s] = bronze
=============================================================================
