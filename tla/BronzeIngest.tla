--------------------------- MODULE BronzeIngest ---------------------------
(***************************************************************************)
(* streaming/spark/src/bronze_ingest.py: two streaming queries over the    *)
(* topic transactions.raw, each with a checkpoint of its own.  "bronze"    *)
(* appends the valid records to the Delta table, "dead" sends the others   *)
(* to transactions.dead_letter.  The driver starts both and waits, for     *)
(* ever or, with --once, until all available data is processed.            *)
(*                                                                         *)
(* Spark, Delta and Kafka are external.  A micro-batch is written to the   *)
(* offset log (planned) before it runs and to the commit log (committed)   *)
(* after; what was planned but not committed runs again after a restart.   *)
(* The Delta sink skips a batch its table already has; the Kafka sink      *)
(* sends record by record and knows nothing of what an earlier attempt     *)
(* sent.  The topic is one log; offsets are positions in it.               *)
(***************************************************************************)
EXTENDS Naturals, Sequences, SequencesExt

CONSTANTS
  MaxOffsetsPerTrigger,
  MaxRecords,   \* bound: records produced
  MaxAged       \* bound: records that retention removes

VARIABLES
  topic,        \* transactions.raw: a sequence of "valid" and "malformed"
  low,          \* offsets up to low are gone (retention)
  planned,      \* query |-> last offset in its offset log
  committed,    \* query |-> last offset in its commit log
  delta,        \* offset |-> rows of the Delta table made from it
  txn,          \* last batch the Delta table knows of, by its last offset
  dead,         \* offset |-> copies in transactions.dead_letter: 0, 1, more
  sent,         \* offsets the running dead-letter batch has sent so far
  status,       \* query |-> state of its thread
  target,       \* query |-> last offset it has to process (--once)
  driver        \* [pc, mode, awaited, exit]

kafka  == <<topic, low>>
logs   == <<planned, committed>>
sinks  == <<delta, txn, dead>>
job    == <<status, target, driver>>
vars   == <<kafka, logs, sinks, sent, job>>

Queries == {"bronze", "dead"}
Kinds   == {"valid", "malformed"}
Modes   == {"once", "continuous"}
Offsets == 1 .. MaxRecords

ASSUME IngestAssumption ==
  /\ MaxOffsetsPerTrigger \in Nat \ {0}
  /\ {MaxRecords, MaxAged} \subseteq Nat

TypeOK ==
  /\ topic \in Seq(Kinds) /\ Len(topic) <= MaxRecords
  /\ low \in 0 .. Len(topic)
  /\ \A q \in Queries : committed[q] <= planned[q] /\ planned[q] <= Len(topic)
  /\ delta \in [Offsets -> Nat] /\ dead \in [Offsets -> 0 .. 2]
  /\ txn \in {committed["bronze"], planned["bronze"]}
  /\ sent \in SUBSET (committed["dead"] + 1 .. planned["dead"])
  /\ status \in [Queries -> {"stopped", "running", "finished", "failed"}]
  /\ target \in [Queries -> 0 .. MaxRecords]
  /\ driver \in [pc : {"down", "starting", "started", "waiting"}, mode : Modes,
                 awaited : Seq(Queries), exit : {"none", "0", "1", "interrupted"}]

Init ==
  /\ topic = <<>> /\ low = 0
  /\ planned = [q \in Queries |-> 0] /\ committed = planned
  /\ delta = [o \in Offsets |-> 0] /\ dead = delta
  /\ txn = 0 /\ sent = {}
  /\ status = [q \in Queries |-> "stopped"] /\ target = planned
  /\ driver = [pc |-> "down", mode |-> "continuous", awaited |-> <<>>, exit |-> "none"]

-----------------------------------------------------------------------------
(* Kafka                                                                   *)

Produce(k) ==
  /\ Len(topic) < MaxRecords
  /\ topic' = Append(topic, k)
  /\ UNCHANGED <<low, logs, sinks, sent, job>>

Age ==
  /\ low < Len(topic) /\ low < MaxAged
  /\ low' = low + 1
  /\ UNCHANGED <<topic, logs, sinks, sent, job>>

-----------------------------------------------------------------------------
(* The driver                                                              *)

Launch(mode) ==
  /\ driver.pc = "down"
  /\ driver' = [pc |-> "starting", mode |-> mode, awaited |-> <<>>, exit |-> "none"]
  /\ UNCHANGED <<kafka, logs, sinks, sent, status, target>>

(* Mutant: the checkpoint does not survive the job.                        *)
StartFromEarliest(q) ==
  /\ driver.pc = "starting" /\ status[q] = "stopped"
  /\ q = "dead" => status["bronze"] # "stopped"
  /\ planned' = [planned EXCEPT ![q] = 0] /\ committed' = [committed EXCEPT ![q] = 0]
  /\ status' = [status EXCEPT ![q] = "running"]
  /\ target' = [target EXCEPT ![q] = Len(topic)]
  /\ driver' = [driver EXCEPT !.pc = IF q = "dead" THEN "started" ELSE @]
  /\ UNCHANGED <<kafka, sinks, sent>>

(* start() of a query: bronze first.  availableNow fixes where it ends.    *)
StartQuery(q) ==
  /\ driver.pc = "starting" /\ status[q] = "stopped"
  /\ q = "dead" => status["bronze"] # "stopped"
  /\ status' = [status EXCEPT ![q] = "running"]
  /\ target' = [target EXCEPT ![q] = Len(topic)]
  /\ driver' = [driver EXCEPT !.pc = IF q = "dead" THEN "started" ELSE @]
  /\ UNCHANGED <<kafka, logs, sinks, sent>>

(* The driver begins to wait: with --once for the queries active by then,  *)
(* in the order Spark lists them.                                          *)
BeginWait ==
  /\ driver.pc = "started"
  /\ \E active \in SetToSeqs({q \in Queries : status[q] = "running"}) :
       driver' = [driver EXCEPT !.pc = "waiting",
                                !.awaited = IF driver.mode = "once" THEN active ELSE <<>>]
  /\ UNCHANGED <<kafka, logs, sinks, sent, status, target>>

(* The finally block: spark.stop() ends every query where it is.           *)
Exit(code) ==
  /\ driver' = [driver EXCEPT !.pc = "down", !.awaited = <<>>, !.exit = code]
  /\ status' = [q \in Queries |-> "stopped"] /\ sent' = {}
  /\ UNCHANGED <<kafka, logs, sinks, target>>

(* The queries the driver would hear of: with --once it is in the          *)
(* awaitTermination of one after the other.                                *)
Awaited ==
  CASE driver.mode = "continuous" -> Queries
    [] driver.awaited = <<>>      -> {}
    [] OTHER                      -> {Head(driver.awaited)}

AwaitFinished ==
  /\ driver.pc = "waiting" /\ driver.mode = "once"
  /\ \E q \in Awaited : status[q] = "finished"
  /\ driver' = [driver EXCEPT !.awaited = Tail(@)]
  /\ UNCHANGED <<kafka, logs, sinks, sent, status, target>>

(* Mutant: the driver waits for the bronze query only.                     *)
AwaitBronzeFailed ==
  /\ driver.pc = "waiting" /\ status["bronze"] = "failed"
  /\ Exit("1")

AwaitFailed ==
  /\ driver.pc = "waiting" /\ \E q \in Awaited : status[q] = "failed"
  /\ Exit("1")

OnceDone ==
  /\ driver.pc = "waiting" /\ driver.mode = "once" /\ driver.awaited = <<>>
  /\ Exit("0")

(* Ctrl+C is caught and exits 0 ("interrupted"), an exception in run()     *)
(* exits 1, a kill leaves no exit code.                                    *)
Interrupt ==
  /\ driver.pc # "down"
  /\ \E code \in {"interrupted", "1", "none"} : Exit(code)

-----------------------------------------------------------------------------
(* The queries                                                             *)

Alive(q)  == driver.pc # "down" /\ status[q] = "running"
InBatch(q) == planned[q] > committed[q]
BatchOf(q) == committed[q] + 1 .. planned[q]

(* The records of a kind a batch still finds when it reads them:           *)
(* failOnDataLoss=false passes over the ones retention has removed.        *)
Readable(q, k) == {o \in BatchOf(q) : o > low /\ topic[o] = k}

(* Mutant: availableNow in every mode.                                     *)
LimitAlways(q) == target[q]

Limit(q) == IF driver.mode = "once" THEN target[q] ELSE Len(topic)

PlanBatch(q) ==
  /\ Alive(q) /\ ~InBatch(q) /\ committed[q] < Limit(q)
  /\ planned' = [planned EXCEPT ![q] =
       Min({Limit(q), Max({committed[q], low}) + MaxOffsetsPerTrigger})]
  /\ UNCHANGED <<kafka, committed, sinks, sent, job>>

(* Mutant: a sink that does not know the batches it has.                   *)
WriteAgain ==
  /\ Alive("bronze") /\ InBatch("bronze")
  /\ delta' = [o \in Offsets |->
       IF o \in Readable("bronze", "valid") THEN delta[o] + 1 ELSE delta[o]]
  /\ txn' = planned["bronze"]
  /\ UNCHANGED <<kafka, logs, dead, sent, job>>

(* One Delta commit: all rows of the batch, with the batch's identity.     *)
WriteDelta ==
  /\ Alive("bronze") /\ InBatch("bronze") /\ txn < planned["bronze"]
  /\ delta' = [o \in Offsets |->
       IF o \in Readable("bronze", "valid") THEN delta[o] + 1 ELSE delta[o]]
  /\ txn' = planned["bronze"]
  /\ UNCHANGED <<kafka, logs, dead, sent, job>>

SendDeadLetter(o) ==
  /\ Alive("dead") /\ o \in Readable("dead", "malformed") \ sent
  /\ dead' = [dead EXCEPT ![o] = IF @ = 0 THEN 1 ELSE 2]
  /\ sent' = sent \cup {o}
  /\ UNCHANGED <<kafka, logs, delta, txn, job>>

(* Mutant: offsets are committed on receipt.                               *)
BatchReceived(q) == TRUE

BatchWritten(q) ==
  IF q = "bronze" THEN txn = planned[q] ELSE Readable(q, "malformed") \subseteq sent

(* Mutant: what the last batch sent is remembered.                         *)
CommitKeepsSent(q) ==
  /\ Alive(q) /\ InBatch(q) /\ BatchWritten(q)
  /\ committed' = [committed EXCEPT ![q] = planned[q]]
  /\ UNCHANGED <<kafka, planned, sinks, sent, job>>

CommitBatch(q) ==
  /\ Alive(q) /\ InBatch(q) /\ BatchWritten(q)
  /\ committed' = [committed EXCEPT ![q] = planned[q]]
  /\ sent' = IF q = "dead" THEN {} ELSE sent
  /\ UNCHANGED <<kafka, planned, sinks, job>>

Finish(q) ==
  /\ Alive(q) /\ driver.mode = "once" /\ ~InBatch(q) /\ committed[q] >= target[q]
  /\ status' = [status EXCEPT ![q] = "finished"]
  /\ UNCHANGED <<kafka, logs, sinks, sent, target, driver>>

(* An exception ends the query; the driver learns of it when it waits.     *)
FailQuery(q) ==
  /\ Alive(q)
  /\ status' = [status EXCEPT ![q] = "failed"]
  /\ sent' = IF q = "dead" THEN {} ELSE sent
  /\ UNCHANGED <<kafka, logs, sinks, target, driver>>

DriverStep ==
  \/ BeginWait \/ AwaitFinished \/ AwaitFailed \/ OnceDone
  \/ \E q \in Queries : StartQuery(q)

QueryStep(q) ==
  \/ PlanBatch(q) \/ CommitBatch(q) \/ Finish(q)
  \/ q = "bronze" /\ WriteDelta
  \/ q = "dead" /\ \E o \in Offsets : SendDeadLetter(o)

Next ==
  \/ \E k \in Kinds : Produce(k)
  \/ Age \/ Interrupt \/ DriverStep
  \/ \E mode \in Modes : Launch(mode)
  \/ \E q \in Queries : QueryStep(q) \/ FailQuery(q)

Spec == Init /\ [][Next]_vars

(* The threads of the driver and of the two queries are scheduled; nothing *)
(* in the repository restarts a job that ended.                            *)
FairSpec ==
  /\ Spec /\ WF_vars(DriverStep)
  /\ \A q \in Queries : WF_vars(QueryStep(q))

-----------------------------------------------------------------------------
(* Properties                                                              *)

(* Valid records enter the Delta table at most once and malformed ones not *)
(* at all, though batches run again after every failure.                   *)
BronzeAtMostOnce ==
  \A o \in 1 .. Len(topic) : delta[o] <= 1 /\ (topic[o] = "malformed" => delta[o] = 0)

(* No record that is still in the topic is passed over: below the commit   *)
(* logs each one is in the sink it belongs to.                             *)
NothingSkipped ==
  \A o \in low + 1 .. Len(topic) :
    IF topic[o] = "valid"
    THEN o <= committed["bronze"] => delta[o] = 1
    ELSE o <= committed["dead"] => dead[o] >= 1

(* Neither checkpoint ever goes back, crashes and restarts included, and   *)
(* rows once in the Delta table stay.                                      *)
CheckpointsAdvance ==
  [][/\ \A q \in Queries : committed'[q] >= committed[q] /\ planned'[q] >= planned[q]
     /\ \A o \in Offsets : delta'[o] >= delta[o]]_<<logs, delta>>

(* The job does not run on one leg: when a query fails, the driver ends    *)
(* and takes the other one with it.                                        *)
NoHalfJob == \A q \in Queries : status[q] = "failed" ~> driver.pc = "down"

(* While the continuous job is up, each record it can still read is routed.*)
RoutedEventually ==
  \A o \in Offsets :
    driver.pc = "waiting" /\ driver.mode = "continuous" /\ o <= Len(topic) ~>
      driver.pc = "down" \/ o <= low \/ delta[o] > 0 \/ dead[o] > 0

(* "--once: Process all available data then stop": a run that no signal    *)
(* interrupted and that exits 0 has processed what was there at its start. *)
OnceProcessesAll ==
  driver.pc = "down" /\ driver.mode = "once" /\ driver.exit = "0"
    => \A q \in Queries : committed[q] >= target[q]
=============================================================================
