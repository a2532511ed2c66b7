----------------------- MODULE FeaturePipelineProofs -----------------------
(***************************************************************************)
(* Type correctness of the batch pipeline for any number of DAG runs, and  *)
(* the quality gate for one run at a time.                                 *)
(***************************************************************************)
EXTENDS FeaturePipeline, TLAPS

(* No two DAG runs are active at once: the trigger of the next run comes   *)
(* after the end of the last one.                                          *)
OneSlotAtATime == \A r, s \in Runs : r = s

(* A table built in this attempt shows the version the view still shows.   *)
Sound(t) ==
  /\ tab[t] \in Snapshot
  /\ "cast" \notin tab[t].flaws
  /\ view => bronze = tab[t]

Built == done \cap Tables

(* dbt run builds a model after the ones it reads, and what it has built   *)
(* in this attempt is of one version.                                      *)
BuildInv ==
  Running("dbt_run") =>
    /\ \A m \in done : Needs[m] \subseteq done
    /\ \A t \in Built : Sound(t)
    /\ \A t, u \in Built : tab[t] = tab[u]

(* After dbt run all tables are of one version ...                         *)
AfterBuildInv ==
  \A r \in Runs : pc[r] \in {"dbt_test", "load_features"} =>
    \A t, u \in Tables : Sound(t) /\ tab[t] = tab[u]

(* ... which has none of the flaws whose tests have passed ...             *)
TestInv == Running("dbt_test") => done \cap tab["int"].flaws = {}

(* ... and no flaw at all once the gate has let it through.                *)
AfterTestInv == \A r \in Runs : pc[r] = "load_features" => tab["int"].flaws = {}

LoadInv == Running("load_features") => \A s \in done : served[s] = tab["int"]

ViewInv == view => bronze \in Snapshot

IndInv ==
  /\ TypeOK /\ ViewInv /\ BuildInv /\ AfterBuildInv /\ TestInv /\ AfterTestInv
  /\ LoadInv /\ GateHolds /\ LoadsOneBuild

-----------------------------------------------------------------------------
(* Type correctness                                                        *)

(* The initial state is well typed.                                        *)
LEMMA TypeInit == Init => TypeOK
  <1> SUFFICES ASSUME Init PROVE TypeOK
    OBVIOUS
  <1>1. Bronze!TypeOK
    BY DEF Init, Bronze!Init, Bronze!TypeOK, Bronze!Snapshot
  <1>2. tab \in [Tables -> Snapshot \cup {None}] /\ served \in [LoadSteps -> Snapshot \cup {None}]
    BY DEF Init
  <1>3. pc \in [Runs -> Tasks \cup Ends] /\ tries \in [Runs -> 0 .. Retries]
    BY PipelineAssumption DEF Init, Ends
  <1>4. view \in BOOLEAN /\ exec = None
    BY DEF Init
  <1>5. faults \in 0 .. MaxFaults
    BY PipelineAssumption DEF Init
  <1> QED BY <1>1, <1>2, <1>3, <1>4, <1>5 DEF TypeOK

(* The load script and the streaming job keep their part well typed.       *)
LEMMA BronzeType ==
  Bronze!TypeOK /\ [Bronze!Next]_bronzeVars => Bronze!TypeOK'
  BY PipelineAssumption
  DEF Bronze!TypeOK, Bronze!Next, Bronze!Ingest, Bronze!Pin, Bronze!Publish,
      Bronze!Abandon, Bronze!Snapshot, bronzeVars

(* What a task leads to, after its last attempt or its success.            *)
LEMMA EndingType ==
  ASSUME TypeOK, NEW r \in Runs, pc[r] \in Tasks,
         TaskSucceeds(r) \/ RetryOrFail(r)
  PROVE  /\ pc' \in [Runs -> Tasks \cup Ends]
         /\ tries' \in [Runs -> 0 .. Retries]
  <1>1. AfterTask[pc[r]] \in Tasks \cup Ends
    BY DEF AfterTask, Tasks, Ends
  <1>2. CASE TaskSucceeds(r)
    BY <1>1, <1>2, PipelineAssumption DEF TypeOK, TaskSucceeds
  <1>3. CASE RetryOrFail(r)
    BY <1>3, PipelineAssumption DEF TypeOK, RetryOrFail, Ends
  <1> QED BY <1>2, <1>3

(* The loader's sources are tables.                                        *)
LEMMA LoadedTableType == \A s \in LoadSteps : LoadedTable[s] \in Tables
  BY DEF LoadSteps, LoadedTable, Tables

(* A model that can be built has a version to read.                        *)
LEMMA SourceType ==
  ASSUME TypeOK, NEW m \in Models, Buildable(m)
  PROVE  Source(m) \in Snapshot
  BY DEF TypeOK, Bronze!TypeOK, Snapshot, Buildable, Source, Models, Tables

(* Every step keeps the state well typed.                                  *)
LEMMA TypeNext == TypeOK /\ [Next]_vars => TypeOK'
  <1> SUFFICES ASSUME TypeOK, [Next]_vars PROVE TypeOK'
    OBVIOUS
  <1> USE DEF bronzeVars, warehouse, attempt
  <1>1. CASE Upstream
    <2>1. Bronze!TypeOK'
      BY <1>1, BronzeType DEF TypeOK, Upstream, Bronze!Next
    <2> QED BY <1>1, <2>1 DEF TypeOK, Upstream
  <1>2. CASE Swap
    <2>1. Bronze!TypeOK'
      BY <1>2, BronzeType DEF TypeOK, Swap, Bronze!Next
    <2> QED BY <1>2, <2>1 DEF TypeOK, Swap
  <1> DEFINE Env == UNCHANGED bronzeVars
  <1>b. ASSUME Env PROVE Bronze!TypeOK'
    BY <1>b, BronzeType DEF TypeOK
  <1>3. ASSUME NEW r \in Runs, Trigger(r) PROVE TypeOK'
    BY <1>3, <1>b, PipelineAssumption DEF TypeOK, Trigger, Tasks, Ends
  <1>4. ASSUME NEW r \in Runs, StartTask(r) PROVE TypeOK'
    BY <1>4, <1>b DEF TypeOK, StartTask
  <1>5. CASE EndTask \/ KillTask
    <2>1. exec \in Runs /\ pc[exec] \in Tasks
      BY <1>5 DEF TypeOK, EndTask, KillTask
    <2>2. TaskSucceeds(exec) \/ RetryOrFail(exec)
      BY <1>5 DEF EndTask, KillTask
    <2>3. faults' \in 0 .. MaxFaults
      BY <1>5, PipelineAssumption DEF TypeOK, EndTask, KillTask
    <2> QED BY <1>5, <1>b, <2>1, <2>2, <2>3, EndingType DEF TypeOK, EndTask, KillTask
  <1>6. ASSUME NEW s, Pending(s), Ok(s) \/ Failed(s), UNCHANGED <<pc, tries, exec>>
        PROVE  exec' # None => /\ pc'[exec'] \in Tasks
                               /\ done' \cup bad' \subseteq Steps[pc'[exec']]
    BY <1>6 DEF TypeOK, Pending, Ok, Failed
  <1>7. ASSUME NEW s, Snap(s) PROVE TypeOK'
    BY <1>7, <1>b, <1>6 DEF TypeOK, Snap, Ready
  <1>8. ASSUME NEW m \in Models, Build(m) PROVE TypeOK'
    <2>1. view' \in BOOLEAN /\ tab' \in [Tables -> Snapshot \cup {None}]
      BY <1>8, SourceType DEF TypeOK, Build
    <2> QED BY <1>8, <1>b, <1>6, <2>1 DEF TypeOK, Build, Ready
  <1>9. ASSUME NEW m \in Models, Test(m) PROVE TypeOK'
    BY <1>9, <1>b, <1>6 DEF TypeOK, Test, Ready
  <1>10. ASSUME NEW s \in LoadSteps, Load(s) PROVE TypeOK'
    <2>1. served' \in [LoadSteps -> Snapshot \cup {None}]
      BY <1>10, LoadedTableType DEF TypeOK, Load
    <2> QED BY <1>10, <1>b, <1>6, <2>1 DEF TypeOK, Load, Ready
  <1>11. ASSUME NEW s, SkipStep(s) PROVE TypeOK'
    BY <1>11, <1>b, <1>6 DEF TypeOK, SkipStep
  <1>12. ASSUME NEW s, StepFault(s) PROVE TypeOK'
    <2>1. served' \in [LoadSteps -> Snapshot \cup {None}]
      BY <1>12, LoadedTableType DEF TypeOK, StepFault
    <2>2. faults' \in 0 .. MaxFaults
      BY <1>12, PipelineAssumption DEF TypeOK, StepFault
    <2> QED BY <1>12, <1>b, <1>6, <2>1, <2>2 DEF TypeOK, StepFault, Ready
  <1>13. CASE UNCHANGED vars
    BY <1>13, <1>b DEF TypeOK, vars
  <1> QED
    BY <1>1, <1>2, <1>3, <1>4, <1>5, <1>7, <1>8, <1>9, <1>10, <1>11, <1>12, <1>13
    DEF Next, Step, Scheduler

(* The state is well typed in every behaviour, for any number of DAG runs  *)
(* active at once.                                                         *)
THEOREM TypeCorrect == Spec => []TypeOK
  BY TypeInit, TypeNext, PTL DEF Spec

-----------------------------------------------------------------------------
(* The gate                                                                *)

Safe == ViewInv /\ BuildInv /\ AfterBuildInv /\ TestInv /\ AfterTestInv
        /\ LoadInv /\ GateHolds /\ LoadsOneBuild

LEMMA IndInvIsSafe == IndInv <=> TypeOK /\ Safe
  BY DEF IndInv, Safe

(* Nothing is built, tested or loaded at first.                            *)
LEMMA SafeInit == Init => Safe
  <1> SUFFICES ASSUME Init PROVE Safe
    OBVIOUS
  <1>1. view = FALSE /\ exec = None /\ \A r \in Runs : pc[r] = "idle"
    BY DEF Init
  <1>2. \A s \in LoadSteps : served[s] = None
    BY DEF Init
  <1> QED
    BY <1>1, <1>2 DEF Safe, ViewInv, BuildInv, AfterBuildInv, TestInv, AfterTestInv,
       LoadInv, GateHolds, LoadsOneBuild, Running

(* A step that touches none of what Safe speaks of preserves it.           *)
LEMMA SafeFrame ==
  ASSUME Safe, UNCHANGED <<bronze, view, tab, pc, exec, done, served>>
  PROVE  Safe'
  BY DEF Safe, ViewInv, BuildInv, AfterBuildInv, TestInv, AfterTestInv, LoadInv,
     GateHolds, LoadsOneBuild, Running, Sound, Built

(* A swap takes the view away, and with it any claim about bronze.         *)
LEMMA SafeSwap ==
  ASSUME Safe, Swap
  PROVE  Safe'
  <1>1. ~view' /\ UNCHANGED <<tab, pc, exec, done, served>>
    BY DEF Swap, attempt
  <1>2. \A t : Sound(t) => Sound(t)'
    BY <1>1 DEF Sound
  <1> QED
    BY <1>1, <1>2 DEF Safe, ViewInv, BuildInv, AfterBuildInv, TestInv, AfterTestInv,
       LoadInv, GateHolds, LoadsOneBuild, Running, Built

(* A run is triggered when no task is due or running.                      *)
LEMMA SafeTrigger ==
  ASSUME OneSlotAtATime, TypeOK, Safe, NEW r \in Runs, Trigger(r)
  PROVE  Safe'
  <1>1. exec = None
    BY DEF OneSlotAtATime, TypeOK, Trigger, Tasks, Ends
  <1>2. \A q \in Runs : pc'[q] = "dbt_snapshot"
    BY DEF OneSlotAtATime, TypeOK, Trigger
  <1>3. exec' = None /\ UNCHANGED <<bronze, view, tab, served>>
    BY <1>1 DEF Trigger, bronzeVars, warehouse
  <1> QED
    BY <1>2, <1>3 DEF Safe, ViewInv, BuildInv, AfterBuildInv, TestInv, AfterTestInv,
       LoadInv, GateHolds, LoadsOneBuild, Running

(* A new attempt has done nothing yet.                                     *)
LEMMA SafeStart ==
  ASSUME Safe, NEW r \in Runs, StartTask(r)
  PROVE  Safe'
  <1>1. done' = {} /\ UNCHANGED <<bronze, view, tab, pc, served>>
    BY DEF StartTask, bronzeVars, warehouse
  <1> QED
    BY <1>1 DEF Safe, ViewInv, BuildInv, AfterBuildInv, TestInv, AfterTestInv,
       LoadInv, GateHolds, LoadsOneBuild, Running, Sound, Built

(* An attempt that passed hands on what its invariant says of all steps.   *)
LEMMA SafeEnd ==
  ASSUME OneSlotAtATime, TypeOK, Safe, EndTask \/ KillTask
  PROVE  Safe'
  <1> DEFINE r == exec
  <1>1. r # None /\ r \in Runs /\ pc[r] \in Tasks /\ \A q \in Runs : q = r
    BY DEF OneSlotAtATime, TypeOK, EndTask, KillTask
  <1>2. exec' = None /\ UNCHANGED <<bronze, view, tab, served>>
    BY DEF EndTask, KillTask, bronzeVars, warehouse
  <1>3. \/ pc' = pc
        \/ pc'[r] = "failed"
        \/ done = Steps[pc[r]] /\ pc'[r] = AfterTask[pc[r]]
    BY <1>1 DEF TypeOK, EndTask, KillTask, RetryOrFail, TaskSucceeds, AttemptPassed
  <1>4. pc'[r] \in {"dbt_test", "load_features"} =>
          \A t, u \in Tables : Sound(t) /\ tab[t] = tab[u]
    <2>1. CASE pc[r] \in {"dbt_test", "load_features"}
      BY <1>1, <2>1 DEF Safe, AfterBuildInv
    <2>2. CASE pc[r] = "dbt_run" /\ done = Models
      <3>1. Built = Tables
        BY <2>2 DEF Built, Models
      <3> QED BY <1>1, <2>2, <3>1 DEF Safe, BuildInv, Running, TypeOK
    <2> QED BY <1>1, <1>3, <2>1, <2>2 DEF Tasks, Steps, AfterTask
  <1>5. pc'[r] = "load_features" => tab["int"].flaws = {}
    <2>1. CASE pc[r] = "load_features"
      BY <1>1, <2>1 DEF Safe, AfterTestInv
    <2>2. CASE pc[r] = "dbt_test" /\ done = Models
      <3>1. Models \cap tab["int"].flaws = {}
        BY <1>1, <2>2 DEF Safe, TestInv, Running, TypeOK
      <3>2. Sound("int")
        BY <1>1, <2>2 DEF Safe, AfterBuildInv, Tables
      <3>3. tab["int"].flaws \subseteq Models \cup {"cast"}
        BY <3>2, PipelineAssumption DEF Sound, Snapshot, Bronze!Snapshot, Models, Tables
      <3> QED BY <3>1, <3>2, <3>3 DEF Sound
    <2> QED BY <1>1, <1>3, <2>1, <2>2 DEF Tasks, Steps, AfterTask
  <1>6. pc'[r] = "success" =>
          served["load_users"] # None /\ served["load_users"] = served["load_merchants"]
    <2>1. SUFFICES ASSUME pc[r] = "load_features", done = LoadSteps
                   PROVE  served["load_users"] # None /\
                          served["load_users"] = served["load_merchants"]
      BY <1>1, <1>3 DEF Tasks, Steps, AfterTask
    <2>2. tab["int"] \in Snapshot
      BY <1>1, <2>1 DEF Safe, AfterBuildInv, Sound, Tables
    <2>3. \A s \in LoadSteps : served[s] = tab["int"]
      BY <1>1, <2>1 DEF Safe, LoadInv, Running, TypeOK
    <2> QED BY <2>2, <2>3, PipelineAssumption DEF LoadSteps
  <1> QED
    BY <1>1, <1>2, <1>4, <1>5, <1>6 DEF Safe, ViewInv, BuildInv, AfterBuildInv, TestInv,
       AfterTestInv, LoadInv, GateHolds, LoadsOneBuild, Running, Sound

(* A model is built from the version its inputs were built from: as long   *)
(* as the view exists, that is the one in bronze.                          *)
LEMMA SafeBuild ==
  ASSUME OneSlotAtATime, TypeOK, Safe, NEW m \in Models, Build(m)
  PROVE  Safe'
  <1> USE DEF IntRefs, UserRefs, MerchRefs, ReconRefs, HealthRefs
  <1>1. /\ exec # None /\ exec \in Runs /\ pc[exec] = "dbt_run"
        /\ \A q \in Runs : pc[q] = "dbt_run"
    BY DEF OneSlotAtATime, TypeOK, Build, Running
  <1>2. UNCHANGED <<bronze, pc, exec, served>>
    BY DEF Build, bronzeVars
  <1>3. m \notin done /\ Needs[m] \subseteq done
    BY <1>1 DEF Build, Ready, Pending
  <1>4. /\ \A n \in done : Needs[n] \subseteq done
        /\ \A t \in Built : Sound(t)
        /\ \A t, u \in Built : tab[t] = tab[u]
    BY <1>1 DEF Safe, BuildInv, Running
  <1>5. SUFFICES ViewInv' /\ BuildInv'
    BY <1>1, <1>2 DEF Safe, AfterBuildInv, TestInv, AfterTestInv, LoadInv, GateHolds,
       LoadsOneBuild, Running
  <1>6. CASE ~Buildable(m)
    <2>1. UNCHANGED <<view, tab, done>>
      BY <1>6 DEF Build, Failed, Ok, warehouse
    <2> QED
      BY <1>2, <2>1 DEF Safe, ViewInv, BuildInv, Running, Sound, Built
  <1>7. CASE Buildable(m) /\ m = "stg"
    <2>1. done' = done \cup {"stg"} /\ tab' = tab
      BY <1>7 DEF Build, Ok, Tables, TypeOK
    <2>2. bronze \in Snapshot
      BY <1>7 DEF Buildable, Source, TypeOK, Bronze!TypeOK, Snapshot
    <2>3. Built = {}
      <3>1. "int" \notin done /\ "user" \notin done
        BY <1>3, <1>4, <1>7 DEF Needs
      <3>2. "merch" \notin done /\ "recon" \notin done
        BY <1>3, <1>4, <1>7, <3>1 DEF Needs
      <3>3. "health" \notin done
        BY <1>4, <3>2 DEF Needs
      <3> QED BY <3>1, <3>2, <3>3 DEF Built, Tables
    <2>4. Built' = {}
      BY <2>1, <2>3 DEF Built, Tables
    <2> QED BY <1>2, <1>3, <1>4, <1>7, <2>1, <2>2, <2>4 DEF ViewInv, BuildInv
  <1>8. CASE Buildable(m) /\ m # "stg"
    <2>1. done' = done \cup {m} /\ m \in Tables
      BY <1>6, <1>8 DEF Build, Ok, Models
    <2>2. tab' = [t \in Tables |-> IF t = m THEN Source(m) ELSE tab[t]]
      BY <1>8 DEF Build
    <2>3. view' <=> view
      BY <1>8 DEF Build
    <2>4. Built' = Built \cup {m} /\ m \notin Built
      BY <1>3, <2>1 DEF Built
    <2>5. Source(m) \in Snapshot
      BY <1>8, SourceType
    <2>6. /\ "cast" \notin Source(m).flaws
          /\ view => bronze = Source(m)
          /\ \A t \in Built : tab[t] = Source(m)
      <3>1. CASE m \in {"int", "user", "recon"}
        <4>1. Source(m) = bronze /\ "stg" \in Needs[m]
          BY <3>1 DEF Source, Needs
        <4>2. view /\ "cast" \notin bronze.flaws
          BY <1>8, <4>1 DEF Buildable
        <4> QED BY <1>4, <4>1, <4>2 DEF Sound
      <3>2. CASE m = "merch"
        <4>1. Source(m) = tab["int"] /\ "int" \in Built
          BY <1>3, <3>2 DEF Source, Needs, Built, Tables
        <4> QED BY <1>4, <4>1 DEF Sound
      <3>3. CASE m = "health"
        <4>1. Source(m) = tab["recon"] /\ "recon" \in Built
          BY <1>3, <3>3 DEF Source, Needs, Built, Tables
        <4> QED BY <1>4, <4>1 DEF Sound
      <3> QED BY <2>1, <3>1, <3>2, <3>3 DEF Tables
    <2>7. \A t \in Built' : tab'[t] = Source(m)
      BY <2>1, <2>2, <2>4, <2>6 DEF Built
    <2>8. \A t \in Built' : Sound(t)'
      BY <1>2, <2>3, <2>5, <2>6, <2>7 DEF Sound
    <2>9. \A n \in done' : Needs[n] \subseteq done'
      BY <1>3, <1>4, <2>1
    <2>10. ViewInv'
      BY <1>2, <2>3 DEF Safe, ViewInv
    <2> QED BY <2>7, <2>8, <2>9, <2>10 DEF BuildInv
  <1> QED BY <1>6, <1>7, <1>8

(* A test that passes shows that the build has not its flaw: the view it   *)
(* may have read shows the same version as the tables.                     *)
LEMMA SafeTest ==
  ASSUME OneSlotAtATime, TypeOK, Safe, NEW m \in Models, Test(m)
  PROVE  Safe'
  <1>1. /\ exec # None /\ exec \in Runs /\ pc[exec] = "dbt_test"
        /\ \A q \in Runs : pc[q] = "dbt_test"
    BY DEF OneSlotAtATime, TypeOK, Test, Running
  <1>2. UNCHANGED <<bronze, view, tab, pc, exec, served>>
    BY DEF Test, bronzeVars, warehouse
  <1>3. \A t, u \in Tables : Sound(t) /\ tab[t] = tab[u]
    BY <1>1 DEF Safe, AfterBuildInv
  <1>4. done \cap tab["int"].flaws = {}
    BY <1>1 DEF Safe, TestInv, Running
  <1>5. done' \cap tab["int"].flaws = {}
    <2>1. CASE ~TestsHold(m)
      BY <1>4, <2>1 DEF Test, Failed
    <2>2. CASE TestsHold(m) /\ m = "stg"
      <3>1. view /\ m \notin bronze.flaws
        BY <2>2 DEF TestsHold, Content
      <3>2. bronze = tab["int"]
        BY <1>3, <3>1 DEF Sound, Tables
      <3> QED BY <1>4, <2>2, <3>1, <3>2 DEF Test, Ok
    <2>3. CASE TestsHold(m) /\ m # "stg"
      <3>1. m \in Tables /\ m \notin tab[m].flaws
        BY <2>3 DEF TestsHold, Content, Models
      <3>2. tab[m] = tab["int"]
        BY <1>3, <3>1 DEF Tables
      <3> QED BY <1>4, <2>3, <3>1, <3>2 DEF Test, Ok
    <2> QED BY <2>1, <2>2, <2>3
  <1> QED
    BY <1>1, <1>2, <1>5 DEF Safe, ViewInv, BuildInv, AfterBuildInv, TestInv, AfterTestInv,
       LoadInv, GateHolds, LoadsOneBuild, Running, Sound

(* The loader runs behind the gate: every table it may read is the build   *)
(* that passed.                                                            *)
LEMMA LoadedRows ==
  ASSUME OneSlotAtATime, TypeOK, Safe, Running("load_features"), NEW s \in LoadSteps
  PROVE  /\ tab[LoadedTable[s]] = tab["int"]
         /\ tab["int"].flaws = {}
         /\ \A q \in Runs : pc[q] = "load_features"
  <1>1. exec \in Runs /\ \A q \in Runs : pc[q] = "load_features"
    BY DEF OneSlotAtATime, TypeOK, Running
  <1> QED
    BY <1>1, LoadedTableType DEF Safe, AfterBuildInv, AfterTestInv, Tables

(* What is loaded passed the gate.                                         *)
LEMMA SafeLoad ==
  ASSUME OneSlotAtATime, TypeOK, Safe, NEW s \in LoadSteps, Load(s)
  PROVE  Safe'
  <1>1. /\ Running("load_features") /\ tab[LoadedTable[s]] = tab["int"]
        /\ tab["int"].flaws = {} /\ \A q \in Runs : pc[q] = "load_features"
    BY LoadedRows DEF Load
  <1>2. UNCHANGED <<bronze, view, tab, pc, exec>>
    BY DEF Load, bronzeVars, warehouse
  <1>3. \/ UNCHANGED <<served, done>>
        \/ /\ done' = done \cup {s}
           /\ served' = [served EXCEPT ![s] = tab["int"]]
    BY <1>1 DEF Load, Ok, Failed
  <1>4. LoadInv'
    <2>1. done \subseteq LoadSteps
      BY <1>1 DEF TypeOK, Running, Steps
    <2> QED BY <1>1, <1>2, <1>3, <2>1 DEF Safe, LoadInv, Running, TypeOK
  <1>5. GateHolds'
    BY <1>1, <1>3 DEF Safe, GateHolds, TypeOK
  <1> QED
    BY <1>1, <1>2, <1>4, <1>5 DEF Safe, ViewInv, BuildInv, AfterBuildInv, TestInv,
       AfterTestInv, LoadsOneBuild, Running, Sound

(* Even a load that fails half way has written rows that passed the gate.  *)
LEMMA SafeFault ==
  ASSUME OneSlotAtATime, TypeOK, Safe, NEW s, StepFault(s)
  PROVE  Safe'
  <1>1. UNCHANGED <<bronze, view, tab, pc, exec, done>>
    BY DEF StepFault, Failed, bronzeVars, warehouse
  <1>2. CASE UNCHANGED served
    BY <1>1, <1>2, SafeFrame
  <1>3. CASE s \in LoadSteps /\ served' = [served EXCEPT ![s] = tab[LoadedTable[s]]]
    <2>1. Running("load_features") /\ s \notin done
      <3>1. exec # None /\ pc[exec] \in Tasks /\ s \in Steps[pc[exec]] /\ s \notin done
        BY DEF TypeOK, StepFault, Ready, Pending
      <3> QED BY <1>3, <3>1 DEF Running, Tasks, Steps, LoadSteps, Models, Tables
    <2>2. /\ tab[LoadedTable[s]] = tab["int"] /\ tab["int"].flaws = {}
          /\ \A q \in Runs : pc[q] = "load_features"
      BY <1>3, <2>1, LoadedRows
    <2>3. LoadInv'
      <3>1. done \subseteq LoadSteps
        BY <2>1 DEF TypeOK, Running, Steps
      <3> QED BY <1>1, <1>3, <2>1, <3>1 DEF Safe, LoadInv, Running, TypeOK
    <2>4. GateHolds'
      BY <1>3, <2>2 DEF Safe, GateHolds, TypeOK
    <2> QED
      BY <1>1, <2>1, <2>2, <2>3, <2>4 DEF Safe, ViewInv, BuildInv, AfterBuildInv, TestInv,
         AfterTestInv, LoadsOneBuild, Running, Sound, Built
  <1> QED BY <1>2, <1>3 DEF StepFault

(* Every step of the pipeline preserves the invariant.                     *)
LEMMA IndNext ==
  ASSUME OneSlotAtATime
  PROVE  IndInv /\ [Next]_vars => IndInv'
  <1> SUFFICES ASSUME TypeOK, Safe, [Next]_vars PROVE Safe'
    BY IndInvIsSafe, TypeNext DEF IndInv, Safe
  <1>1. CASE Upstream
    BY <1>1, SafeFrame DEF Upstream, Bronze!Ingest, Bronze!Pin, Bronze!Abandon,
       warehouse, attempt
  <1>2. CASE Swap
    BY <1>2, SafeSwap
  <1>3. ASSUME NEW r \in Runs, Trigger(r) PROVE Safe'
    BY <1>3, SafeTrigger
  <1>4. ASSUME NEW r \in Runs, StartTask(r) PROVE Safe'
    BY <1>4, SafeStart
  <1>5. CASE EndTask \/ KillTask
    BY <1>5, SafeEnd
  <1>6. ASSUME NEW s \in Steps["dbt_snapshot"], Snap(s) PROVE Safe'
    <2>1. Running("dbt_snapshot") /\ UNCHANGED <<bronze, view, tab, pc, exec, served>>
      BY <1>6 DEF Snap, bronzeVars, warehouse
    <2> QED
      BY <2>1 DEF Safe, ViewInv, BuildInv, AfterBuildInv, TestInv, AfterTestInv, LoadInv,
         GateHolds, LoadsOneBuild, Running, Sound
  <1>7. ASSUME NEW m \in Models, Build(m) PROVE Safe'
    BY <1>7, SafeBuild
  <1>8. ASSUME NEW m \in Models, Test(m) PROVE Safe'
    BY <1>8, SafeTest
  <1>9. ASSUME NEW s \in LoadSteps, Load(s) PROVE Safe'
    BY <1>9, SafeLoad
  <1>10. ASSUME NEW s, SkipStep(s) PROVE Safe'
    BY <1>10, SafeFrame DEF SkipStep, Failed, bronzeVars, warehouse
  <1>11. ASSUME NEW s, StepFault(s) PROVE Safe'
    BY <1>11, SafeFault
  <1>12. CASE UNCHANGED vars
    BY <1>12, SafeFrame DEF vars, bronzeVars, warehouse, attempt
  <1> QED
    BY <1>1, <1>2, <1>3, <1>4, <1>5, <1>6, <1>7, <1>8, <1>9, <1>10, <1>11, <1>12
    DEF Next, Step, Scheduler

(* The invariant holds in every behaviour with one DAG run at a time.      *)
THEOREM Invariant ==
  ASSUME OneSlotAtATime
  PROVE  Spec => []IndInv
  <1>1. Init => IndInv
    BY TypeInit, SafeInit, IndInvIsSafe
  <1>2. IndInv /\ [Next]_vars => IndInv'
    BY IndNext
  <1> QED BY <1>1, <1>2, PTL DEF Spec

(* The quality gate: with one DAG run at a time, no build with a flaw ever *)
(* reaches Redis, whatever the flaws, the retries and the failures.        *)
THEOREM GateIsSafe ==
  ASSUME OneSlotAtATime
  PROVE  Spec => []GateHolds
  <1>1. IndInv => GateHolds
    BY DEF IndInv
  <1> QED BY <1>1, Invariant, PTL

(* The gate tests, and the loader loads, tables of one version.            *)
THEOREM BuildIsCoherent ==
  ASSUME OneSlotAtATime
  PROVE  Spec => []CoherentBuild
  <1>1. IndInv => CoherentBuild
    BY PipelineAssumption DEF IndInv, AfterBuildInv, Sound, CoherentBuild
  <1> QED BY <1>1, Invariant, PTL

(* A successful run leaves user and merchant features of one build.        *)
THEOREM LoadIsOneBuild ==
  ASSUME OneSlotAtATime
  PROVE  Spec => []LoadsOneBuild
  <1>1. IndInv => LoadsOneBuild
    BY DEF IndInv
  <1> QED BY <1>1, Invariant, PTL
=============================================================================
