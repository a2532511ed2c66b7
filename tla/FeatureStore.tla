--------------------------- MODULE FeatureStore ---------------------------
(***************************************************************************)
(* feature_store/: the loader that copies the gold tables to Redis, the    *)
(* keys with their expiry, and what the API answers from them.             *)
(*                                                                         *)
(* A pipeline execute is one MULTI/EXEC: its SETs and EXPIREs take effect  *)
(* together.  A row is abstracted to its key and the build of the gold     *)
(* table it comes from; rows are executed in batches, in any order.  Time  *)
(* is in hours.  A key whose expiry has passed is None.                    *)
(***************************************************************************)
EXTENDS Naturals, FiniteSets, FiniteSetsExt

CONSTANTS
  Loaders,      \* loader processes that may run at the same time
  Users, Merchants, Days,
  PipelineBatch,                          \* rows per execute
  UserTTL, MerchantTTL, FreshnessLimit,   \* in hours
  LoadTime,     \* hours a load takes at most (a property of the deployment)
  Clock,        \* bound: the hours at which the model looks
  MaxBuilds,    \* bound: times dbt replaces a gold table
  None

VARIABLES
  now,
  goldUsers, goldStats,   \* gold tables: [build, rows]
  user, stats, latest,    \* Redis: user:features, merchant:stats, merchant:latest
  meta,                   \* _meta:features:last_loaded
  load                    \* loader |-> [pc, build, rows, rest, users, start]

gold  == <<goldUsers, goldStats>>
redis == <<user, stats, latest, meta>>
vars  == <<now, gold, redis, load>>

StatRows == Merchants \X Days
Builds   == 0 .. MaxBuilds
Entry    == [build : Builds, exp : Nat]
Idle     == [pc |-> "idle", build |-> 0, rows |-> {}, rest |-> {},
             users |-> {}, start |-> 0]

ASSUME StoreAssumption ==
  /\ Days \subseteq Nat /\ PipelineBatch \in Nat \ {0}
  /\ {UserTTL, MerchantTTL, FreshnessLimit, LoadTime, MaxBuilds} \subseteq Nat
  /\ Clock \subseteq Nat /\ 0 \in Clock
  /\ LoadTime + UserTTL <= MerchantTTL
  /\ UserTTL > 0 /\ IsFiniteSet(Days)
  /\ None \notin Entry \cup [build : Builds, day : Days, exp : Nat]
                  \cup [at : Clock, users : SUBSET Users]

TypeOK ==
  /\ now \in Clock
  /\ goldUsers \in [build : Builds, rows : SUBSET Users]
  /\ goldStats \in [build : Builds, rows : SUBSET StatRows]
  /\ user \in [Users -> Entry \cup {None}]
  /\ stats \in [StatRows -> Entry \cup {None}]
  /\ latest \in [Merchants -> [build : Builds, day : Days, exp : Nat] \cup {None}]
  /\ meta \in [at : Clock, users : SUBSET Users] \cup {None}
  /\ load \in [Loaders ->
       [pc : {"idle", "users", "select", "stats", "meta"}, build : Builds,
        rows : SUBSET (Users \cup StatRows), rest : SUBSET (Users \cup StatRows),
        users : SUBSET Users, start : Clock]]

Init ==
  /\ now = 0
  /\ goldUsers = [build |-> 0, rows |-> {}] /\ goldStats = goldUsers
  /\ user = [u \in Users |-> None] /\ stats = [s \in StatRows |-> None]
  /\ latest = [m \in Merchants |-> None] /\ meta = None
  /\ load = [l \in Loaders |-> Idle]

-----------------------------------------------------------------------------
(* The environment: time, and dbt runs replacing the gold tables.  Bronze  *)
(* is append-only, so a build keeps the rows of the one before.            *)

Alive(entry, t) == IF entry # None /\ entry.exp <= t THEN None ELSE entry

Tick ==
  \E t \in Clock :
    /\ t > now /\ \A c \in Clock : c > now => t <= c
    /\ \A l \in Loaders : load[l].pc # "idle" => t <= load[l].start + LoadTime
    /\ now' = t
    /\ user'   = [u \in Users |-> Alive(user[u], t)]
    /\ stats'  = [s \in StatRows |-> Alive(stats[s], t)]
    /\ latest' = [m \in Merchants |-> Alive(latest[m], t)]
    /\ UNCHANGED <<gold, meta, load>>

BuildUsers ==
  /\ goldUsers.build < MaxBuilds
  /\ \E more \in SUBSET Users :
       goldUsers' = [build |-> goldUsers.build + 1, rows |-> goldUsers.rows \cup more]
  /\ UNCHANGED <<now, goldStats, redis, load>>

BuildStats ==
  /\ goldStats.build < MaxBuilds
  /\ \E more \in SUBSET StatRows :
       goldStats' = [build |-> goldStats.build + 1, rows |-> goldStats.rows \cup more]
  /\ UNCHANGED <<now, goldUsers, redis, load>>

-----------------------------------------------------------------------------
(* The loader                                                              *)

(* Mutant: old keys are deleted first.                                     *)
FlushAndSelect(l) ==
  /\ load[l].pc = "idle" /\ goldUsers.build > 0
  /\ user' = [u \in Users |-> None]
  /\ load' = [load EXCEPT ![l] =
       [pc |-> "users", build |-> goldUsers.build, rows |-> goldUsers.rows,
        rest |-> goldUsers.rows, users |-> goldUsers.rows, start |-> now]]
  /\ UNCHANGED <<now, gold, stats, latest, meta>>

(* run() connects and selects the user features.                           *)
SelectUsers(l) ==
  /\ load[l].pc = "idle" /\ goldUsers.build > 0
  /\ load' = [load EXCEPT ![l] =
       [pc |-> "users", build |-> goldUsers.build, rows |-> goldUsers.rows,
        rest |-> goldUsers.rows, users |-> goldUsers.rows, start |-> now]]
  /\ UNCHANGED <<now, gold, redis>>

(* The rows of one execute: a full batch, or in the end what is left over. *)
Batch(l) ==
  LET rest == load[l].rest
  IN  IF Cardinality(rest) < PipelineBatch THEN {rest}
      ELSE {b \in SUBSET rest : Cardinality(b) = PipelineBatch}

Final(b) == Cardinality(b) < PipelineBatch

(* Mutant: SET without EXPIRE.                                             *)
WrittenForever(b, old, l, ttl) ==
  [r \in DOMAIN old |->
     IF r \in b THEN [build |-> load[l].build, exp |-> None] ELSE old[r]]

Written(b, old, l, ttl) ==
  [r \in DOMAIN old |->
     IF r \in b THEN [build |-> load[l].build, exp |-> now + ttl] ELSE old[r]]

ExecuteUsers(l) ==
  /\ load[l].pc = "users"
  /\ \E b \in Batch(l) :
       /\ user' = Written(b, user, l, UserTTL)
       /\ load' = [load EXCEPT ![l].rest = @ \ b,
                               ![l].pc = IF Final(b) THEN "select" ELSE @]
  /\ UNCHANGED <<now, gold, stats, latest, meta>>

SelectStats(l) ==
  /\ load[l].pc = "select" /\ goldStats.build > 0
  /\ load' = [load EXCEPT ![l].pc = "stats", ![l].build = goldStats.build,
                          ![l].rows = goldStats.rows, ![l].rest = goldStats.rows]
  /\ UNCHANGED <<now, gold, redis>>

DaysOf(m, rows) == {r[2] : r \in {s \in rows : s[1] = m}}

(* Mutant: the comparison of the dates is reversed.                        *)
EarliestWritten(l) ==
  [m \in Merchants |->
     LET days == DaysOf(m, load[l].rows)
     IN  IF days = {} THEN latest[m]
         ELSE [build |-> load[l].build, day |-> Min(days), exp |-> now + UserTTL]]

(* The latest keys go with the last batch; their TTL is that of the users. *)
LatestWritten(l) ==
  [m \in Merchants |->
     LET days == DaysOf(m, load[l].rows)
     IN  IF days = {} THEN latest[m]
         ELSE [build |-> load[l].build, day |-> Max(days), exp |-> now + UserTTL]]

(* Mutant: one TTL for all keys.                                           *)
ExecuteStatsShort(l) ==
  /\ load[l].pc = "stats"
  /\ \E b \in Batch(l) :
       /\ stats' = Written(b, stats, l, UserTTL)
       /\ latest' = IF Final(b) THEN LatestWritten(l) ELSE latest
       /\ load' = [load EXCEPT ![l].rest = @ \ b,
                               ![l].pc = IF Final(b) THEN "meta" ELSE @]
  /\ UNCHANGED <<now, gold, user, meta>>

ExecuteStats(l) ==
  /\ load[l].pc = "stats"
  /\ \E b \in Batch(l) :
       /\ stats' = Written(b, stats, l, MerchantTTL)
       /\ latest' = IF Final(b) THEN LatestWritten(l) ELSE latest
       /\ load' = [load EXCEPT ![l].rest = @ \ b,
                               ![l].pc = IF Final(b) THEN "meta" ELSE @]
  /\ UNCHANGED <<now, gold, user, meta>>

(* set_metadata writes the time; users is history, for the properties.     *)
SetMetadata(l) ==
  /\ load[l].pc = "meta"
  /\ meta' = [at |-> now, users |-> load[l].users]
  /\ load' = [load EXCEPT ![l] = Idle]
  /\ UNCHANGED <<now, gold, user, stats, latest>>

(* An exception or a kill ends the loader; what it executed stays.         *)
Crash(l) ==
  /\ load[l].pc # "idle"
  /\ load' = [load EXCEPT ![l] = Idle]
  /\ UNCHANGED <<now, gold, redis>>

Next ==
  \/ Tick \/ BuildUsers \/ BuildStats
  \/ \E l \in Loaders :
       \/ SelectUsers(l) \/ ExecuteUsers(l)
       \/ SelectStats(l) \/ ExecuteStats(l)
       \/ SetMetadata(l) \/ Crash(l)

Spec == Init /\ [][Next]_vars

-----------------------------------------------------------------------------
(* What the API answers                                                    *)

Missing(us) == {u \in us : user[u] = None}      \* 404, or missing_ids

Status == IF meta # None /\ now - meta.at < FreshnessLimit
          THEN "healthy" ELSE "degraded"

-----------------------------------------------------------------------------
(* Properties                                                              *)

(* Until UserTTL less the duration of a load has passed since the metadata *)
(* was written, the API finds every user of the load that wrote it, with   *)
(* any number of loaders writing, crashing or starting over since.         *)
ServedWhileFresh ==
  meta # None /\ now + LoadTime < meta.at + UserTTL => Missing(meta.users) = {}

(* A merchant:latest key never points at a day without statistics, though  *)
(* the two have different TTLs and are written in different batches.       *)
LatestBacked ==
  \A m \in Merchants : latest[m] # None => stats[m, latest[m].day] # None

(* A newer build never moves a merchant:latest key back to an earlier day, *)
(* whichever loader writes it and whatever the other one has written.      *)
LatestMovesForward ==
  [][\A m \in Merchants :
       /\ latest[m] # None /\ latest'[m] # None
       /\ latest'[m].build >= latest[m].build
       => latest'[m].day >= latest[m].day]_latest

(* /health is the "System health and data freshness monitor": while it     *)
(* answers healthy, the API still has features to serve.                   *)
HealthyMeansServed ==
  meta # None /\ Status = "healthy" /\ meta.users # {} => Missing(meta.users) # meta.users
=============================================================================
