--------------------------- MODULE FraudSignals ---------------------------
(***************************************************************************)
(* From events to decisions: events enter through the schema, staging      *)
(* keeps its rows (Reconciliation), the gold models aggregate them per     *)
(* user and per merchant and day, the dashboard counts anomalies, and the  *)
(* scorer blocks or approves.                                              *)
(*                                                                         *)
(* The gold tables are built at any time, in one step, if staging can be   *)
(* read: that a build never mixes two versions of bronze is the matter of  *)
(* FeaturePipeline, and what Redis serves of it that of FeatureStore.      *)
(***************************************************************************)
EXTENDS EventSchema, FiniteSets, FiniteSetsExt

CONSTANTS
  Draws,        \* random choices of the generator
  Offered,      \* events that other callers of the schema build
  InTables,     \* ids that the reference tables hold
  SparkZone,    \* hours from UTC to the session time zone of Spark
  Clock,        \* bound: hours at which events arrive
  Bursts,       \* how many events alike arrive together (generate_batch)
  MaxBursts,    \* bound: bursts
  MaxCents      \* the largest NUMERIC(12,2), in paise

VARIABLES
  now,
  bronze,       \* rows of bronze.transactions
  raised,       \* generate_one has raised, and the generator has ended
  user_features,    \* user |-> row of gold.gold_user_fraud_features
  merchant_stats    \* <<merchant, date>> |-> row of gold.gold_daily_merchant_stats

vars == <<now, bronze, raised, user_features, merchant_stats>>

ASSUME SignalsAssumption ==
  /\ Draws \subseteq Choice /\ Offered \subseteq Event
  /\ SparkZone \in Int /\ Clock \subseteq Nat /\ Clock # {} /\ Bursts \subseteq Nat
  /\ MaxCents \in Nat
  /\ None \notin Nat \cup Words \cup [at : Int, off : Int]

-----------------------------------------------------------------------------
(* stg_transactions                                                        *)

Staging == INSTANCE Reconciliation WITH
             Ids <- Nat, Amounts <- Int, InTypes <- Words, MaxRows <- MaxBursts

Silver == Staging!Silver

(* cast(event_timestamp as TIMESTAMP) drops the offset; event_date and     *)
(* event_hour are Spark's, which has converted to its time zone.           *)
EventTime(r) == r.time.at + r.time.off
EventHour(r) == (r.time.at + SparkZone) % 24
EventDate(r) == (r.time.at + SparkZone) \div 24
Paise(r)     == Staging!Cents(r.amount)

-----------------------------------------------------------------------------
(* gold_user_fraud_features                                                *)

UsersSeen == {r.user : r \in Silver}
Rows(u)   == {r \in Silver : r.user = u}

OneHour == 1
Day     == 24

(* Mutant: seven, as if in days.                                           *)
SevenUnits == 7

SevenDays == 168

Latest(rows) == Max({EventTime(r) : r \in rows})

(* Mutant: windows begin with the first row.                               *)
WithinFirst(rows, h) ==
  LET first == Min({EventTime(r) : r \in rows}) IN {r \in rows : EventTime(r) - first <= h}

(* hours_ago <= h, of the rows of one user.                                *)
Within(rows, h) ==
  LET latest == Latest(rows) IN {r \in rows : latest - EventTime(r) <= h}

(* round(part / whole, 4), in ten-thousandths.                             *)
Rate(part, whole) ==
  IF whole > 0 THEN (20000 * part + whole) \div (2 * whole) ELSE 0

(* Mutant: the threshold is two.                                           *)
ZLimitLow == 2

ZLimit == 3

(* count(distinct city) passes over null.                                  *)
CitiesOf(rows) == {r.city : r \in rows} \ {None}

(* sum() of a column, a function of the rows.                              *)
Total(column) == FoldFunction(+, 0, column)

(* latest_amount_zscore > 3.0, the score being rounded to four decimals.   *)
(* With n amounts that add up to s, and whose squares add up to q, it says *)
(*   (m - s/n) / sqrt((n*q - s*s) / (n*(n-1)))  >=  3.00005                *)
(* for the largest amount m of the latest time; squared, 9.0003.           *)
(* stddev is null for one row and 0 for equal amounts: the score is 0.     *)
Exceeds(n, s, q, m) ==
  LET spread == n * (n * q - s * s)
  IN  /\ n > 1 /\ spread > 0 /\ n * m > s
      /\ (n * m - s) * (n * m - s) * (n - 1)
           > ZLimit * ZLimit * spread + (3 * spread) \div 10000

Outlier(rows) ==
  Exceeds(Cardinality(rows), Total([r \in rows |-> Paise(r)]),
          Total([r \in rows |-> Paise(r) * Paise(r)]),
          Max({Paise(r) : r \in Within(rows, 0)}))

(* Mutant: failed transactions of all times.                               *)
FailedEver(rows) == {r \in rows : r.status = "FAILED"}

Failed24h(rows) == {r \in Within(rows, Day) : r.status = "FAILED"}

(* The row of the table made of the rows of a user.                        *)
Features(rows) ==
  LET hour   == Within(rows, OneHour)
      day    == Within(rows, Day)
      week   == Within(rows, SevenDays)
      failed == Cardinality(Failed24h(rows))
  IN  [latest_txn_at       |-> Latest(rows),
       txn_count_1h        |-> Cardinality(hour),
       txn_count_24h       |-> Cardinality(day),
       txn_count_7d        |-> Cardinality(week),
       txn_count_total     |-> Cardinality(rows),
       unique_merchants_1h |-> Cardinality({r.merchant : r \in hour}),
       unique_merchants_24h |-> Cardinality({r.merchant : r \in day}),
       unique_merchants_7d |-> Cardinality({r.merchant : r \in week}),
       unique_cities_24h   |-> Cardinality(CitiesOf(day)),
       failed_txn_count_24h |-> failed,
       failure_rate_24h    |-> Rate(failed, Cardinality(day)),
       refund_rate_7d      |-> Rate(Cardinality({r \in week : r.type = "REFUND"}),
                                    Cardinality(week)),
       late_night_txn_count_24h |-> Cardinality({r \in day : EventHour(r) \in 2 .. 5}),
       outlier             |-> Outlier(rows)]

Vector ==
  [latest_txn_at : Int, txn_count_1h : Nat, txn_count_24h : Nat, txn_count_7d : Nat, txn_count_total : Nat,
   unique_merchants_1h : Nat, unique_merchants_24h : Nat, unique_merchants_7d : Nat,
   unique_cities_24h : Nat, failed_txn_count_24h : Nat, failure_rate_24h : 0 .. 10000,
   refund_rate_7d : 0 .. 10000, late_night_txn_count_24h : Nat, outlier : BOOLEAN]

-----------------------------------------------------------------------------
(* int_transactions_enriched and gold_daily_merchant_stats                 *)

(* Mutant: inner joins.                                                    *)
EnrichedInner ==
  {[row |-> r, city |-> Home[r.user]] : r \in {s \in Silver : {s.user, s.merchant} \subseteq InTables}}

(* Left joins: a row stays if its user or its merchant is unknown.         *)
Enriched ==
  {[row |-> r, city |-> IF r.user \in InTables THEN Home[r.user] ELSE None] : r \in Silver}

Groups == {<<e.row.merchant, EventDate(e.row)>> : e \in Enriched}

DailyStats(m, d) ==
  LET group == {e \in Enriched : e.row.merchant = m /\ EventDate(e.row) = d}
      Status(st) == Cardinality({e \in group : e.row.status = st})
  IN  [txn_count     |-> Cardinality(group),
       success_count |-> Status("SUCCESS"),
       failed_count  |-> Status("FAILED"),
       pending_count |-> Status("PENDING"),
       failure_rate  |-> Rate(Status("FAILED"), Cardinality(group)),
       cross_city_count |->
         Cardinality({e \in group : e.city # None /\ e.row.city \notin {None, e.city}})]

-----------------------------------------------------------------------------
(* mock_ml_scorer.py and dq_pipeline_health, over a vector                 *)

Reasons(f) ==
  {x \in {"velocity", "failures", "cities", "night", "amount"} :
     \/ x = "velocity" /\ f.txn_count_24h > 15
     \/ x = "failures" /\ f.failure_rate_24h > 4000
     \/ x = "cities"   /\ f.unique_cities_24h > 2
     \/ x = "night"    /\ f.late_night_txn_count_24h > 2
     \/ x = "amount"   /\ f.outlier}

Weight == [velocity |-> 30, failures |-> 40, cities |-> 30, night |-> 20, amount |-> 25]
Noise  == 0 .. 15

risk_score(f, noise) ==
  LET reasons == Reasons(f)
      Points(x) == IF x \in reasons THEN Weight[x] ELSE 0
      score == Points("velocity") + Points("failures") + Points("cities")
                 + Points("night") + Points("amount") + noise
  IN  IF score < 100 THEN score ELSE 100

(* Mutant: the limit itself blocks.                                        *)
BlockedAtLimit(f, noise) == risk_score(f, noise) >= 75

Blocked(f, noise) == risk_score(f, noise) > 75

CanBlock(f) == \E noise \in Noise : Blocked(f, noise)

(* The anomaly counts in which dq_pipeline_health has the user.            *)
Anomalies(f) ==
  {x \in {"high_velocity", "high_failure_rate", "high_refund_rate", "multi_city", "late_night"} :
     \/ x = "high_velocity"     /\ f.txn_count_1h > 10
     \/ x = "high_failure_rate" /\ f.failure_rate_24h > 2000
     \/ x = "high_refund_rate"  /\ f.refund_rate_7d > 3000
     \/ x = "multi_city"        /\ f.unique_cities_24h > 3
     \/ x = "late_night"        /\ f.late_night_txn_count_24h > 3}

-----------------------------------------------------------------------------
TypeOK ==
  /\ now \in Clock /\ raised \in BOOLEAN
  /\ bronze \in SUBSET Event /\ IsFiniteSet(bronze)
  /\ DOMAIN user_features \subseteq Users
  /\ \A u \in DOMAIN user_features : user_features[u] \in Vector

Init ==
  /\ now \in Clock /\ \A c \in Clock : now <= c
  /\ bronze = {} /\ raised = FALSE
  /\ user_features = <<>> /\ merchant_stats = <<>>

Tick ==
  /\ \E t \in Clock : t > now /\ now' = t
  /\ UNCHANGED <<bronze, raised, user_features, merchant_stats>>

(* The bound: a burst brings events unlike those before.                   *)
Kind(r) == [r EXCEPT !.id = 0]
Fits(e) == LET kinds == {Kind(r) : r \in bronze}
           IN  Kind(e) \notin kinds /\ Cardinality(kinds) < MaxBursts

(* n events alike, each with an id of its own.                             *)
Burst(e, n) == {[e EXCEPT !.id = i] : i \in 1 .. n}

(* They reach the topic, bronze and Postgres; the order does not show.     *)
Publish(e, n) ==
  /\ Fits(e) /\ bronze' = bronze \cup Burst(e, n)
  /\ UNCHANGED <<now, raised, user_features, merchant_stats>>

(* generate_one, n times with one outcome; a ValidationError ends run.py.  *)
Generate ==
  /\ ~raised
  /\ \E c \in Draws, n \in Bursts :
       LET e == Generated(c, now)
       IN  /\ Fits(e) /\ raised' = ~Accepts(e, now)
           /\ bronze' = IF raised' THEN bronze ELSE bronze \cup Burst(e, n)
  /\ UNCHANGED <<now, user_features, merchant_stats>>

(* Another caller of the schema, for instance a producer that was offline. *)
Offer == \E e \in Offered, n \in Bursts : Accepts(e, now) /\ Publish(e, n)

(* dbt_run: both gold tables, of what bronze holds.  If staging raises,    *)
(* neither is built.                                                       *)
Build ==
  /\ ~Staging!CastFails
  /\ user_features' = [u \in UsersSeen |-> Features(Rows(u))]
  /\ merchant_stats' = [g \in Groups |-> DailyStats(g[1], g[2])]
  /\ UNCHANGED <<now, bronze, raised>>

Next == Tick \/ Generate \/ Offer \/ Build

Spec == Init /\ [][Next]_vars

-----------------------------------------------------------------------------
(* Properties                                                              *)

(* run.py catches no ValidationError: whatever generate_one makes of its   *)
(* random choices, the schema accepts.                                     *)
GeneratorNeverRaises == ~raised

(* schemas.py is "the contract between the transaction generator and       *)
(* downstream consumers": staging drops no event that the schema accepts,  *)
(* though one is Python over decimals and the other SQL over text, and     *)
(* reconciliation has nothing to report; as long as no event is of more    *)
(* than NUMERIC(12,2) can hold.                                            *)
AcceptedIsKept ==
  (\A r \in bronze : r.amount <= 10 * MaxCents) =>
    Silver = bronze /\ Staging!recon_status = "BALANCED"

(* The features of the three windows are nested, whatever the order in     *)
(* which late rows arrive, and a user of the table has a latest row.       *)
WindowsNested ==
  \A u \in DOMAIN user_features :
    LET f == user_features[u]
    IN  /\ 1 <= f.txn_count_1h
        /\ f.txn_count_1h <= f.txn_count_24h
        /\ f.txn_count_24h <= f.txn_count_7d
        /\ f.txn_count_7d <= f.txn_count_total
        /\ f.unique_merchants_1h <= f.unique_merchants_24h
        /\ f.unique_merchants_24h <= f.unique_merchants_7d

(* The two gold tables count the same rows, one by user over silver, the   *)
(* other by merchant and day over the enriched rows, whatever the          *)
(* reference tables know; and each row of a group has one of the statuses. *)
ModelsAgree ==
  /\ Total([u \in DOMAIN user_features |-> user_features[u].txn_count_total])
       = Total([g \in DOMAIN merchant_stats |-> merchant_stats[g].txn_count])
  /\ \A g \in DOMAIN merchant_stats :
       LET s == merchant_stats[g]
       IN  s.txn_count = s.success_count + s.failed_count + s.pending_count

(* A purchase is blocked for two reasons at least, and for three if the    *)
(* failure rate is none of them; then the dashboard counts the user, whose *)
(* thresholds are others, among those with a high failure rate.            *)
BlockIsExplained ==
  \A u \in DOMAIN user_features :
    LET f == user_features[u]
    IN  CanBlock(f) =>
          \/ Cardinality(Reasons(f)) >= 3
          \/ /\ Cardinality(Reasons(f)) = 2 /\ "failures" \in Reasons(f)
             /\ "high_failure_rate" \in Anomalies(f)

(* With ten transactions or fewer the z-score cannot exceed 3, however     *)
(* large the latest amount: it is at most (n-1)/sqrt(n).  So new users are *)
(* blocked for failures in three cities, and for nothing less.             *)
NewUsersNeedCities ==
  \A u \in DOMAIN user_features :
    LET f == user_features[u]
    IN  f.txn_count_total <= 10 /\ CanBlock(f) =>
          {"failures", "cities"} \subseteq Reasons(f)

(* Only a later transaction makes a user's windows forget: from build to   *)
(* build, late rows and the passing of time never lower a count.           *)
OnlyLaterRowsForget ==
  [][\A u \in DOMAIN user_features :
       LET f == user_features[u]
           g == user_features'[u]
       IN  /\ u \in DOMAIN user_features'
           /\ f.latest_txn_at <= g.latest_txn_at
           /\ f.latest_txn_at = g.latest_txn_at =>
                /\ f.txn_count_1h <= g.txn_count_1h
                /\ f.txn_count_24h <= g.txn_count_24h
                /\ f.txn_count_7d <= g.txn_count_7d
                /\ f.unique_cities_24h <= g.unique_cities_24h
                /\ f.failed_txn_count_24h <= g.failed_txn_count_24h
                /\ f.late_night_txn_count_24h <= g.late_night_txn_count_24h]_vars

(* "Reject events from the future (clock skew or bug)".                    *)
NoneFromTheFuture == \A r \in bronze : r.time.at <= now
=============================================================================
