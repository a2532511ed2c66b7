------------------------- MODULE BronzeIngestProofs -------------------------
(***************************************************************************)
(* BronzeIngest for any topic, batch size and number of failures.          *)
(*                                                                         *)
(* The Delta table is known up to txn, the last batch it has: every valid  *)
(* record up to there is in it once, none after.  A restart therefore      *)
(* repeats a batch that is entirely in the table, which is skipped, or     *)
(* entirely not.  The dead-letter query has no such mark, and what is sent *)
(* of a batch counts only once the batch commits.                          *)
(***************************************************************************)
EXTENDS BronzeIngest, FiniteSetTheorems, TLAPS

-----------------------------------------------------------------------------
(* The invariant                                                           *)

LogsInv ==
  /\ planned \in [Queries -> Nat] /\ committed \in [Queries -> Nat]
  /\ \A q \in Queries : target[q] <= Len(topic)

DeltaInv ==
  \A o \in Offsets :
    /\ o > txn => delta[o] = 0
    /\ delta[o] <= 1
    /\ o <= Len(topic) /\ topic[o] = "malformed" => delta[o] = 0
    /\ o \in low + 1 .. Len(topic) /\ topic[o] = "valid" /\ o <= txn => delta[o] = 1

DeadInv ==
  /\ \A o \in Offsets :
       o \in low + 1 .. Len(topic) /\ topic[o] = "malformed" /\ o <= committed["dead"] =>
         dead[o] >= 1
  /\ \A o \in sent : dead[o] >= 1

IndInv == TypeOK /\ LogsInv /\ DeltaInv /\ DeadInv

-----------------------------------------------------------------------------
(* What the steps need of the types                                        *)

LEMMA Smallest ==
  ASSUME NEW a \in Nat, NEW b \in Nat
  PROVE  /\ Min({a, b}) \in {a, b} /\ Min({a, b}) <= a /\ Min({a, b}) <= b
         /\ Max({a, b}) \in {a, b} /\ Max({a, b}) >= a /\ Max({a, b}) >= b
<1>1. \E x \in {a, b} : \A y \in {a, b} : x <= y
  OBVIOUS
<1>2. \E x \in {a, b} : \A y \in {a, b} : x >= y
  OBVIOUS
<1>3. Min({a, b}) \in {a, b} /\ \A y \in {a, b} : Min({a, b}) <= y
  BY <1>1 DEF Min
<1>4. Max({a, b}) \in {a, b} /\ \A y \in {a, b} : Max({a, b}) >= y
  BY <1>2 DEF Max
<1> QED BY <1>3, <1>4

LEMMA Types ==
  ASSUME IndInv
  PROVE  /\ MaxRecords \in Nat /\ MaxOffsetsPerTrigger \in Nat
         /\ Len(topic) \in Nat /\ Len(topic) <= MaxRecords /\ low \in Nat /\ low <= Len(topic)
         /\ \A q \in Queries : /\ planned[q] \in Nat /\ committed[q] \in Nat
                               /\ committed[q] <= planned[q] /\ planned[q] <= Len(topic)
                               /\ target[q] \in Nat /\ target[q] <= Len(topic)
         /\ txn \in Nat /\ committed["bronze"] <= txn /\ txn <= planned["bronze"]
         /\ \A o \in Offsets : o \in Nat /\ delta[o] \in Nat /\ dead[o] \in Nat
         /\ \A o \in 1 .. Len(topic) : o \in Offsets /\ o \in Nat /\ topic[o] \in Kinds
<1>1. MaxRecords \in Nat /\ MaxOffsetsPerTrigger \in Nat
  BY IngestAssumption
<1>2. topic \in Seq(Kinds) /\ Len(topic) \in Nat /\ Len(topic) <= MaxRecords
      /\ low \in 0 .. Len(topic)
  BY DEF IndInv, TypeOK
<1>3. \A q \in Queries : /\ planned[q] \in Nat /\ committed[q] \in Nat
                         /\ committed[q] <= planned[q] /\ planned[q] <= Len(topic)
                         /\ target[q] \in Nat /\ target[q] <= Len(topic)
  BY <1>1 DEF IndInv, TypeOK, LogsInv
<1>4. txn \in Nat /\ committed["bronze"] <= txn /\ txn <= planned["bronze"]
  BY <1>3 DEF IndInv, TypeOK, Queries
<1>5. \A o \in Offsets : o \in Nat /\ delta[o] \in Nat /\ dead[o] \in Nat
  <2>1. delta \in [Offsets -> Nat] /\ dead \in [Offsets -> 0 .. 2]
    BY DEF IndInv, TypeOK
  <2>2. Offsets \subseteq Nat
    BY <1>1 DEF Offsets
  <2> QED BY <2>1, <2>2
<1>6. \A o \in 1 .. Len(topic) : o \in Offsets /\ o \in Nat /\ topic[o] \in Kinds
  BY <1>1, <1>2 DEF Offsets
<1> QED BY <1>1, <1>2, <1>3, <1>4, <1>5, <1>6

(* The active queries in some order are a sequence of queries.             *)
LEMMA Orders ==
  ASSUME NEW S, S \subseteq Queries, NEW s \in SetToSeqs(S)
  PROVE  s \in Seq(Queries)
<1>1. IsFiniteSet(S)
  <2>1. IsFiniteSet(Queries)
    <3>1. IsFiniteSet({"bronze"}) /\ Queries = {"bronze"} \cup {"dead"}
      BY FS_Singleton DEF Queries
    <3> QED BY <3>1, FS_AddElement
  <2> QED BY <2>1, FS_Subset
<1>2. Cardinality(S) \in Nat
  BY <1>1, FS_CardinalityType
<1>3. s \in [1 .. Cardinality(S) -> S]
  BY DEF SetToSeqs
<1>4. s \in [1 .. Cardinality(S) -> Queries]
  BY <1>3
<1> QED BY <1>2, <1>4

LEMMA InitInv == Init => IndInv
<1> SUFFICES ASSUME Init PROVE IndInv
  OBVIOUS
<1>1. MaxRecords \in Nat
  BY IngestAssumption
<1>2. TypeOK
  BY <1>1 DEF Init, TypeOK, Queries, Offsets, Modes
<1>3. LogsInv /\ DeltaInv /\ DeadInv
  BY <1>1 DEF Init, LogsInv, DeltaInv, DeadInv, Queries, Offsets
<1> QED BY <1>2, <1>3 DEF IndInv

-----------------------------------------------------------------------------
(* Kafka                                                                   *)

LEMMA ProduceStep == ASSUME IndInv, NEW k \in Kinds, Produce(k) PROVE IndInv'
<1>1. /\ Len(topic) < MaxRecords /\ topic' = Append(topic, k)
      /\ UNCHANGED <<low, planned, committed, delta, txn, dead, sent, status, target, driver>>
  BY DEF Produce, logs, sinks, job
<1>2. /\ topic' \in Seq(Kinds) /\ Len(topic') = Len(topic) + 1
      /\ \A o \in 1 .. Len(topic) : topic'[o] = topic[o]
  BY <1>1 DEF IndInv, TypeOK
<1>3. TypeOK'
  BY <1>1, <1>2, Types DEF IndInv, TypeOK
<1>4. LogsInv'
  BY <1>1, <1>2, Types DEF IndInv, LogsInv
<1>5. DeltaInv'
  <2> SUFFICES ASSUME NEW o \in Offsets
               PROVE  /\ o > txn => delta[o] = 0
                      /\ delta[o] <= 1
                      /\ o <= Len(topic') /\ topic'[o] = "malformed" => delta[o] = 0
                      /\ o \in low + 1 .. Len(topic') /\ topic'[o] = "valid" /\ o <= txn
                           => delta[o] = 1
    BY <1>1 DEF DeltaInv, Offsets
  <2>1. /\ o > txn => delta[o] = 0
        /\ delta[o] <= 1
        /\ o <= Len(topic) /\ topic[o] = "malformed" => delta[o] = 0
        /\ o \in low + 1 .. Len(topic) /\ topic[o] = "valid" /\ o <= txn => delta[o] = 1
    BY DEF IndInv, DeltaInv
  <2>2. txn <= Len(topic) /\ o \in Nat /\ o >= 1
    BY Types DEF Queries, Offsets
  <2> QED BY <1>2, <2>1, <2>2, Types
<1>6. DeadInv'
  <2>1. committed["dead"] <= Len(topic)
    BY Types DEF Queries
  <2>2. ASSUME NEW o \in Offsets, o \in low + 1 .. Len(topic'), topic'[o] = "malformed",
               o <= committed["dead"]
        PROVE  dead[o] >= 1
    <3>1. o \in 1 .. Len(topic) /\ o \in low + 1 .. Len(topic)
      BY <1>2, <2>1, <2>2, Types DEF Queries
    <3>2. topic[o] = "malformed"
      BY <1>2, <2>2, <3>1
    <3> QED BY <2>2, <3>1, <3>2 DEF IndInv, DeadInv
  <2> QED BY <1>1, <2>2 DEF IndInv, DeadInv, Offsets
<1> QED BY <1>3, <1>4, <1>5, <1>6 DEF IndInv

LEMMA AgeStep == IndInv /\ Age => IndInv'
<1> SUFFICES ASSUME IndInv, Age PROVE IndInv'
  OBVIOUS
<1>1. /\ low < Len(topic) /\ low' = low + 1
      /\ UNCHANGED <<topic, planned, committed, delta, txn, dead, sent, status, target, driver>>
  BY DEF Age, logs, sinks, job
<1>2. TypeOK' /\ LogsInv'
  BY <1>1, Types DEF IndInv, TypeOK, LogsInv
<1>3. \A o \in low' + 1 .. Len(topic) : o \in low + 1 .. Len(topic)
  BY <1>1, Types
<1>4. DeltaInv' /\ DeadInv'
  BY <1>1, <1>3 DEF IndInv, DeltaInv, DeadInv
<1> QED BY <1>2, <1>4 DEF IndInv

-----------------------------------------------------------------------------
(* The driver                                                              *)

(* Whatever the driver does, logs and sinks survive it.                    *)
LEMMA DriverKeeps ==
  ASSUME IndInv, UNCHANGED <<kafka, logs, sinks>>, sent' \in {sent, {}},
         status' \in [Queries -> {"stopped", "running", "finished", "failed"}],
         target' \in [Queries -> 0 .. MaxRecords],
         \A q \in Queries : target'[q] <= Len(topic),
         driver' \in [pc : {"down", "starting", "started", "waiting"}, mode : Modes,
                      awaited : Seq(Queries), exit : {"none", "0", "1", "interrupted"}]
  PROVE  IndInv'
<1>1. UNCHANGED <<topic, low, planned, committed, delta, txn, dead>>
  BY DEF kafka, logs, sinks
<1>2. TypeOK'
  BY <1>1 DEF IndInv, TypeOK
<1>3. LogsInv' /\ DeltaInv' /\ DeadInv'
  BY <1>1 DEF IndInv, LogsInv, DeltaInv, DeadInv
<1> QED BY <1>2, <1>3 DEF IndInv

LEMMA ExitStep ==
  ASSUME IndInv, NEW code \in {"none", "0", "1", "interrupted"}, Exit(code)
  PROVE  IndInv'
<1>0. <<>> \in Seq(Queries)
  OBVIOUS
<1>1. /\ driver' \in [pc : {"down", "starting", "started", "waiting"}, mode : Modes,
                      awaited : Seq(Queries), exit : {"none", "0", "1", "interrupted"}]
      /\ status' \in [Queries -> {"stopped", "running", "finished", "failed"}]
      /\ sent' = {} /\ target' = target /\ UNCHANGED <<kafka, logs, sinks>>
  BY <1>0 DEF Exit, IndInv, TypeOK
<1> QED BY <1>1, DriverKeeps DEF IndInv, TypeOK, LogsInv

LEMMA DriverSteps ==
  ASSUME IndInv, \/ \E mode \in Modes : Launch(mode)
                 \/ Interrupt \/ DriverStep
                 \/ \E q \in Queries : Finish(q) \/ FailQuery(q)
  PROVE  IndInv'
<1> DEFINE Driver == [pc : {"down", "starting", "started", "waiting"}, mode : Modes,
                      awaited : Seq(Queries), exit : {"none", "0", "1", "interrupted"}]
           Status == [Queries -> {"stopped", "running", "finished", "failed"}]
<1>1. /\ driver \in Driver /\ status \in Status
      /\ target \in [Queries -> 0 .. MaxRecords]
      /\ \A q \in Queries : target[q] <= Len(topic)
  BY DEF IndInv, TypeOK, LogsInv
<1>2. ASSUME NEW mode \in Modes, Launch(mode) PROVE IndInv'
  <2>1. driver' \in Driver /\ UNCHANGED <<kafka, logs, sinks, sent, status, target>>
    BY <1>2 DEF Launch
  <2> QED BY <1>1, <2>1, DriverKeeps
<1>3. CASE Interrupt
  BY <1>3, ExitStep DEF Interrupt
<1>4. CASE OnceDone
  BY <1>4, ExitStep DEF OnceDone
<1>5. CASE BeginWait
  <2>1. PICK active \in SetToSeqs({q \in Queries : status[q] = "running"}) :
          driver' = [driver EXCEPT !.pc = "waiting",
                                   !.awaited = IF driver.mode = "once" THEN active ELSE <<>>]
    BY <1>5 DEF BeginWait
  <2>2. active \in Seq(Queries)
    <3>1. {q \in Queries : status[q] = "running"} \subseteq Queries
      OBVIOUS
    <3> QED BY <3>1, Orders
  <2>3. driver' \in Driver
    <3>1. (IF driver.mode = "once" THEN active ELSE <<>>) \in Seq(Queries)
      BY <2>2
    <3> QED BY <1>1, <2>1, <3>1
  <2>4. UNCHANGED <<kafka, logs, sinks, sent, status, target>>
    BY <1>5 DEF BeginWait
  <2> QED BY <1>1, <2>3, <2>4, DriverKeeps
<1>6. ASSUME NEW q \in Queries, StartQuery(q) PROVE IndInv'
  <2>1. /\ status' = [status EXCEPT ![q] = "running"]
        /\ target' = [target EXCEPT ![q] = Len(topic)]
        /\ driver' = [driver EXCEPT !.pc = IF q = "dead" THEN "started" ELSE @]
        /\ UNCHANGED <<kafka, logs, sinks, sent>>
    BY <1>6 DEF StartQuery
  <2>2. driver' \in Driver
    BY <1>1, <2>1
  <2>3. status' \in Status
    BY <1>1, <2>1
  <2>4. target' \in [Queries -> 0 .. MaxRecords] /\ \A p \in Queries : target'[p] <= Len(topic)
    BY <1>1, <2>1, Types
  <2> QED BY <2>1, <2>2, <2>3, <2>4, DriverKeeps
<1>7. CASE AwaitFinished
  <2>1. /\ driver' = [driver EXCEPT !.awaited = Tail(@)] /\ driver.awaited # <<>>
        /\ UNCHANGED <<kafka, logs, sinks, sent, status, target>>
    BY <1>7 DEF AwaitFinished, Awaited
  <2>2. Tail(driver.awaited) \in Seq(Queries)
    BY <1>1, <2>1
  <2>3. driver' \in Driver
    BY <1>1, <2>1, <2>2
  <2> QED BY <1>1, <2>1, <2>3, DriverKeeps
<1>8. CASE AwaitFailed
  BY <1>8, ExitStep DEF AwaitFailed
<1>9. ASSUME NEW q \in Queries, Finish(q) \/ FailQuery(q) PROVE IndInv'
  <2>1. /\ status' \in Status /\ sent' \in {sent, {}}
        /\ UNCHANGED <<kafka, logs, sinks, target, driver>>
    BY <1>1, <1>9 DEF Finish, FailQuery
  <2> QED BY <1>1, <2>1, DriverKeeps
<1> QED BY <1>2, <1>3, <1>4, <1>5, <1>6, <1>7, <1>8, <1>9 DEF DriverStep

-----------------------------------------------------------------------------
(* The queries                                                             *)

(* A new batch is planned when the one before is committed, and never ends *)
(* before it begins or beyond the topic.                                   *)
LEMMA Planning ==
  ASSUME IndInv, NEW q \in Queries, PlanBatch(q)
  PROVE  \E p \in Nat :
           /\ planned' = [planned EXCEPT ![q] = p]
           /\ planned[q] = committed[q] /\ committed[q] <= p /\ p <= Len(topic)
           /\ UNCHANGED <<kafka, committed, sinks, sent, job>>
<1> DEFINE m == Max({committed[q], low})
           p == Min({Limit(q), m + MaxOffsetsPerTrigger})
<1>1. /\ planned' = [planned EXCEPT ![q] = p]
      /\ ~ (planned[q] > committed[q]) /\ committed[q] < Limit(q)
      /\ UNCHANGED <<kafka, committed, sinks, sent, job>>
  BY DEF PlanBatch, InBatch
<1>2. Limit(q) \in Nat /\ Limit(q) <= Len(topic)
  BY Types DEF Limit
<1>3. m \in Nat /\ m >= committed[q]
  BY Types, Smallest
<1>4. m + MaxOffsetsPerTrigger \in Nat /\ m + MaxOffsetsPerTrigger >= committed[q]
  BY <1>3, Types
<1> HIDE DEF m
<1>5. p \in {Limit(q), m + MaxOffsetsPerTrigger} /\ p <= Limit(q)
  BY <1>2, <1>4, Smallest
<1> HIDE DEF p
<1>6. planned[q] = committed[q]
  BY <1>1, Types
<1>7. p \in Nat /\ committed[q] <= p /\ p <= Len(topic)
  BY <1>1, <1>2, <1>4, <1>5, Types
<1> QED BY <1>1, <1>6, <1>7

LEMMA PlanStep == ASSUME IndInv, NEW q \in Queries, PlanBatch(q) PROVE IndInv'
<1>1. PICK p \in Nat :
        /\ planned' = [planned EXCEPT ![q] = p]
        /\ planned[q] = committed[q] /\ committed[q] <= p /\ p <= Len(topic)
        /\ UNCHANGED <<kafka, committed, sinks, sent, job>>
  BY Planning
<1>2. UNCHANGED <<topic, low, committed, delta, txn, dead, sent, status, target, driver>>
  BY <1>1 DEF kafka, sinks, job
<1>3. /\ planned' \in [Queries -> Nat]
      /\ \A r \in Queries : planned'[r] = IF r = q THEN p ELSE planned[r]
  BY <1>1 DEF IndInv, LogsInv
<1>4. TypeOK'
  <2>1. \A r \in Queries : committed'[r] <= planned'[r] /\ planned'[r] <= Len(topic)
    BY <1>1, <1>2, <1>3, Types
  <2>2. txn \in {committed["bronze"], planned'["bronze"]}
    BY <1>1, <1>3 DEF IndInv, TypeOK, Queries
  <2>3. sent \in SUBSET (committed["dead"] + 1 .. planned'["dead"])
    <3>1. planned["dead"] <= planned'["dead"]
      BY <1>1, <1>3, Types DEF Queries
    <3>2. committed["dead"] + 1 .. planned["dead"] \subseteq committed["dead"] + 1 .. planned'["dead"]
      BY <1>3, <3>1, Types DEF Queries
    <3> QED BY <3>2 DEF IndInv, TypeOK
  <2> QED BY <1>2, <2>1, <2>2, <2>3 DEF IndInv, TypeOK
<1>5. LogsInv' /\ DeltaInv' /\ DeadInv'
  BY <1>2, <1>3 DEF IndInv, LogsInv, DeltaInv, DeadInv
<1> QED BY <1>4, <1>5 DEF IndInv

LEMMA WriteStep == IndInv /\ WriteDelta => IndInv'
<1> SUFFICES ASSUME IndInv, WriteDelta PROVE IndInv'
  OBVIOUS
<1>1. /\ txn < planned["bronze"] /\ txn' = planned["bronze"]
      /\ delta' = [o \in Offsets |->
           IF o \in Readable("bronze", "valid") THEN delta[o] + 1 ELSE delta[o]]
      /\ UNCHANGED <<topic, low, planned, committed, dead, sent, status, target, driver>>
  BY DEF WriteDelta, kafka, logs, job
<1>2. txn = committed["bronze"]
  BY <1>1, Types DEF IndInv, TypeOK
<1>3. \A o \in Offsets :
        o \in Readable("bronze", "valid") <=>
          /\ o > txn /\ o <= planned["bronze"] /\ o > low /\ topic[o] = "valid"
  BY <1>2, Types DEF Readable, BatchOf, Queries
<1>4. \A o \in Offsets :
        delta'[o] = IF o \in Readable("bronze", "valid") THEN delta[o] + 1 ELSE delta[o]
  BY <1>1
<1>5. delta' \in [Offsets -> Nat]
  BY <1>1, Types
<1>6. TypeOK' /\ LogsInv' /\ DeadInv'
  BY <1>1, <1>5 DEF IndInv, TypeOK, LogsInv, DeadInv
<1>7. DeltaInv'
  <2> SUFFICES ASSUME NEW o \in Offsets
               PROVE  /\ o > txn' => delta'[o] = 0
                      /\ delta'[o] <= 1
                      /\ o <= Len(topic) /\ topic[o] = "malformed" => delta'[o] = 0
                      /\ o \in low + 1 .. Len(topic) /\ topic[o] = "valid" /\ o <= txn'
                           => delta'[o] = 1
    BY <1>1 DEF DeltaInv
  <2>1. /\ o > txn => delta[o] = 0
        /\ delta[o] <= 1
        /\ o <= Len(topic) /\ topic[o] = "malformed" => delta[o] = 0
        /\ o \in low + 1 .. Len(topic) /\ topic[o] = "valid" /\ o <= txn => delta[o] = 1
    BY DEF IndInv, DeltaInv
  <2>2. /\ o \in Nat /\ delta[o] \in Nat /\ txn \in Nat /\ low \in Nat
        /\ planned["bronze"] \in Nat /\ planned["bronze"] <= Len(topic) /\ Len(topic) \in Nat
    BY Types DEF Queries
  <2>3. CASE o \in Readable("bronze", "valid")
    BY <1>1, <1>3, <1>4, <2>1, <2>2, <2>3
  <2>4. CASE o \notin Readable("bronze", "valid")
    BY <1>1, <1>3, <1>4, <2>1, <2>2, <2>4
  <2> QED BY <2>3, <2>4
<1> QED BY <1>6, <1>7 DEF IndInv

LEMMA SendStep == ASSUME IndInv, NEW o \in Offsets, SendDeadLetter(o) PROVE IndInv'
<1>1. /\ o \in BatchOf("dead") /\ dead' = [dead EXCEPT ![o] = IF @ = 0 THEN 1 ELSE 2]
      /\ sent' = sent \cup {o}
      /\ UNCHANGED <<topic, low, planned, committed, delta, txn, status, target, driver>>
  BY DEF SendDeadLetter, Readable, kafka, logs, job
<1>2. dead' \in [Offsets -> 0 .. 2] /\ dead'[o] >= 1
      /\ \A r \in Offsets : r # o => dead'[r] = dead[r]
  BY <1>1 DEF IndInv, TypeOK
<1>3. TypeOK' /\ LogsInv' /\ DeltaInv'
  BY <1>1, <1>2 DEF IndInv, TypeOK, LogsInv, DeltaInv, BatchOf
<1>4. sent \subseteq Offsets
  <2>1. sent \subseteq committed["dead"] + 1 .. planned["dead"]
    BY DEF IndInv, TypeOK
  <2>2. committed["dead"] + 1 .. planned["dead"] \subseteq 1 .. Len(topic)
    BY Types DEF Queries
  <2> QED BY <2>1, <2>2, Types
<1>5. DeadInv'
  BY <1>1, <1>2, <1>4 DEF IndInv, DeadInv
<1> QED BY <1>3, <1>5 DEF IndInv

LEMMA CommitStep == ASSUME IndInv, NEW q \in Queries, CommitBatch(q) PROVE IndInv'
<1>1. /\ planned[q] > committed[q] /\ BatchWritten(q)
      /\ committed' = [committed EXCEPT ![q] = planned[q]]
      /\ sent' = IF q = "dead" THEN {} ELSE sent
      /\ UNCHANGED <<topic, low, planned, delta, txn, dead, status, target, driver>>
  BY DEF CommitBatch, InBatch, kafka, sinks, job
<1>2. /\ committed' \in [Queries -> Nat]
      /\ \A r \in Queries : committed'[r] = IF r = q THEN planned[r] ELSE committed[r]
  BY <1>1, Types DEF IndInv, LogsInv
<1>3. \A r \in Queries : committed'[r] <= planned[r] /\ planned[r] <= Len(topic)
  BY <1>2, Types
<1>4. txn \in {committed'["bronze"], planned["bronze"]}
  BY <1>1, <1>2 DEF IndInv, TypeOK, BatchWritten, Queries
<1>5. sent' \in SUBSET (committed'["dead"] + 1 .. planned["dead"])
  <2>1. q # "dead" => committed'["dead"] = committed["dead"]
    BY <1>2 DEF Queries
  <2> QED BY <1>1, <2>1 DEF IndInv, TypeOK
<1>6. TypeOK' /\ LogsInv' /\ DeltaInv'
  BY <1>1, <1>2, <1>3, <1>4, <1>5 DEF IndInv, TypeOK, LogsInv, DeltaInv
<1>7. DeadInv'
  <2>1. CASE q = "bronze"
    <3>1. committed'["dead"] = committed["dead"] /\ sent' = sent
      BY <1>1, <1>2, <2>1 DEF Queries
    <3> QED BY <1>1, <3>1 DEF IndInv, DeadInv
  <2>2. CASE q = "dead"
    <3>1. sent' = {} /\ committed'["dead"] = planned["dead"]
      BY <1>1, <1>2, <2>2 DEF Queries
    <3>2. Readable("dead", "malformed") \subseteq sent
      BY <1>1, <2>2 DEF BatchWritten
    <3>3. ASSUME NEW o \in Offsets, o \in low + 1 .. Len(topic), topic[o] = "malformed",
                 o <= planned["dead"]
          PROVE  dead[o] >= 1
      <4>1. CASE o <= committed["dead"]
        BY <3>3, <4>1 DEF IndInv, DeadInv
      <4>2. CASE ~ (o <= committed["dead"])
        <5>1. o \in Readable("dead", "malformed")
          BY <3>3, <4>2, Types DEF Readable, BatchOf, Queries
        <5> QED BY <3>2, <5>1 DEF IndInv, DeadInv
      <4> QED BY <4>1, <4>2
    <3> QED BY <1>1, <3>1, <3>3 DEF DeadInv
  <2> QED BY <2>1, <2>2 DEF Queries
<1> QED BY <1>6, <1>7 DEF IndInv

-----------------------------------------------------------------------------
(* Theorems                                                                *)

(* Through any failures, interrupts and restarts of the job in either      *)
(* mode, the invariant above holds.                                        *)
THEOREM Invariant == Spec => []IndInv
<1>1. IndInv /\ [Next]_vars => IndInv'
  <2> SUFFICES ASSUME IndInv, [Next]_vars PROVE IndInv'
    OBVIOUS
  <2>1. CASE UNCHANGED vars
    <3>1. /\ UNCHANGED <<kafka, logs, sinks>> /\ sent' = sent
          /\ status' = status /\ target' = target /\ driver' = driver
      BY <2>1 DEF vars, job
    <3> QED BY <3>1, DriverKeeps DEF IndInv, TypeOK, LogsInv
  <2>2. ASSUME NEW q \in Queries, QueryStep(q) PROVE IndInv'
    BY <2>2, PlanStep, CommitStep, WriteStep, SendStep, DriverSteps DEF QueryStep
  <2> QED BY <2>1, <2>2, ProduceStep, AgeStep, DriverSteps DEF Next
<1> QED BY <1>1, InitInv, PTL DEF Spec

(* The variables keep their types: no checkpoint passes the end of the     *)
(* topic, and the Delta table is at a batch boundary (bronze_ingest.py).   *)
THEOREM TypeCorrect == Spec => []TypeOK
<1>1. IndInv => TypeOK
  BY DEF IndInv
<1> QED BY <1>1, Invariant, PTL

(* However often batches are repeated, a valid record is in the Delta      *)
(* table at most once and a malformed one not at all (the query bronze).   *)
THEOREM AtMostOnce == Spec => []BronzeAtMostOnce
<1>1. IndInv => BronzeAtMostOnce
  BY Types DEF IndInv, DeltaInv, BronzeAtMostOnce
<1> QED BY <1>1, Invariant, PTL

(* No record that is still in the topic lies below a checkpoint without    *)
(* being in its sink, for any topic and batch size (both queries).         *)
THEOREM NoneSkipped == Spec => []NothingSkipped
<1>1. IndInv => NothingSkipped
  <2> SUFFICES ASSUME IndInv, NEW o \in low + 1 .. Len(topic)
               PROVE  IF topic[o] = "valid"
                      THEN o <= committed["bronze"] => delta[o] = 1
                      ELSE o <= committed["dead"] => dead[o] >= 1
    BY DEF NothingSkipped
  <2>1. o \in 1 .. Len(topic) /\ o \in Offsets /\ o \in Nat
    BY Types
  <2>2. topic[o] = "valid" \/ topic[o] = "malformed"
    BY <2>1, Types DEF Kinds
  <2>3. o <= committed["bronze"] => o <= txn
    BY <2>1, Types DEF Queries
  <2> QED BY <2>1, <2>2, <2>3 DEF IndInv, DeltaInv, DeadInv
<1> QED BY <1>1, Invariant, PTL

(* No step, a restart of the job least of all, moves a checkpoint back or  *)
(* takes a row out of the Delta table (both queries).                      *)
THEOREM CheckpointsNeverReturn == Spec => CheckpointsAdvance
<1> DEFINE Advance(q) == committed'[q] >= committed[q] /\ planned'[q] >= planned[q]
           Stays(o)   == delta'[o] >= delta[o]
           Forward    == (\A q \in Queries : Advance(q)) /\ (\A o \in Offsets : Stays(o))
<1>1. ASSUME IndInv, UNCHANGED <<logs, delta>> PROVE Forward
  BY <1>1, Types DEF logs
<1>2. ASSUME IndInv, NEW r \in Queries, PlanBatch(r) PROVE Forward
  <2>1. PICK p \in Nat :
          /\ planned' = [planned EXCEPT ![r] = p]
          /\ planned[r] = committed[r] /\ committed[r] <= p
          /\ UNCHANGED <<committed, delta>>
    BY <1>2, Planning DEF sinks
  <2>2. \A q \in Queries : planned'[q] = IF q = r THEN p ELSE planned[q]
    BY <1>2, <2>1 DEF IndInv, LogsInv
  <2> QED BY <1>2, <2>1, <2>2, Types
<1>3. ASSUME IndInv, NEW r \in Queries, CommitBatch(r) PROVE Forward
  <2>1. /\ committed' = [committed EXCEPT ![r] = planned[r]]
        /\ UNCHANGED <<planned, delta>>
    BY <1>3 DEF CommitBatch, sinks
  <2>2. \A q \in Queries : committed'[q] = IF q = r THEN planned[q] ELSE committed[q]
    BY <1>3, <2>1 DEF IndInv, LogsInv
  <2> QED BY <1>3, <2>1, <2>2, Types
<1>4. ASSUME IndInv, WriteDelta PROVE Forward
  <2>1. /\ delta' = [o \in Offsets |->
             IF o \in Readable("bronze", "valid") THEN delta[o] + 1 ELSE delta[o]]
        /\ UNCHANGED <<planned, committed>>
    BY <1>4 DEF WriteDelta, logs
  <2> QED BY <1>4, <2>1, Types
<1>5. ASSUME IndInv, Next PROVE Forward
  <2>1. \/ UNCHANGED <<logs, delta>> \/ WriteDelta
        \/ \E r \in Queries : PlanBatch(r) \/ CommitBatch(r)
    BY <1>5 DEF Next, Produce, Age, Interrupt, Exit, Launch, DriverStep, BeginWait, OnceDone,
                StartQuery, AwaitFinished, AwaitFailed, QueryStep, Finish, SendDeadLetter,
                FailQuery, logs, sinks
  <2> QED BY <1>1, <1>2, <1>3, <1>4, <1>5, <2>1
<1>6. IndInv /\ [Next]_vars => [Forward]_<<logs, delta>>
  BY <1>1, <1>5 DEF vars, sinks
<1>7. [Forward]_<<logs, delta>> =>
        [/\ \A q \in Queries : committed'[q] >= committed[q] /\ planned'[q] >= planned[q]
         /\ \A o \in Offsets : delta'[o] >= delta[o]]_<<logs, delta>>
  OBVIOUS
<1> HIDE DEF Forward
<1> QED BY <1>6, <1>7, Invariant, PTL DEF Spec, CheckpointsAdvance
=============================================================================
