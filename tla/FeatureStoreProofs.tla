------------------------- MODULE FeatureStoreProofs -------------------------
(***************************************************************************)
(* FeatureStore for any loaders, tables, batch sizes and times to live.    *)
(*                                                                         *)
(* Every key that a load has written so far outlives the load by a known   *)
(* margin, counted from the start of the load; another loader that writes  *)
(* the same key later only prolongs it.  The metadata and the latest keys  *)
(* inherit the margin.  Builds only add rows, so the rows of a newer build *)
(* hold the day of every latest key written from an older one.             *)
(***************************************************************************)
EXTENDS FeatureStore, FiniteSetTheorems, WellFoundedInduction, TLAPS

-----------------------------------------------------------------------------
(* The invariant                                                           *)

(* A key in Redis expires later than now; latest keys live UserTTL.        *)
ExpiryInv ==
  /\ \A u \in Users : user[u] # None => user[u].exp > now
  /\ \A s \in StatRows : stats[s] # None => stats[s].exp > now
  /\ \A m \in Merchants :
       latest[m] # None => latest[m].exp > now /\ latest[m].exp <= now + UserTTL

(* A key lives until t at least.                                           *)
UserUntil(u, t) == user[u] # None /\ user[u].exp >= t
StatUntil(s, t) == stats[s] # None /\ stats[s].exp >= t

(* A load takes LoadTime at most.                                          *)
TimeInv ==
  \A l \in Loaders : load[l].pc # "idle" =>
    load[l].start <= now /\ now <= load[l].start + LoadTime

(* What a load has written lives for its time to live from its start.      *)
UsersInv ==
  \A l \in Loaders : load[l].pc # "idle" =>
    \A u \in load[l].users :
      /\ load[l].pc = "users" => u \notin load[l].rest
      /\ now < load[l].start + UserTTL
      => UserUntil(u, load[l].start + UserTTL)

StatsInv ==
  \A l \in Loaders : load[l].pc = "stats" =>
    /\ load[l].rows \subseteq StatRows
    /\ \A s \in load[l].rows :
         s \notin load[l].rest => StatUntil(s, load[l].start + MerchantTTL)

(* The users of the metadata live as if written when their load began.     *)
MetaInv ==
  meta # None =>
    /\ meta.at <= now
    /\ \A u \in meta.users :
         now + LoadTime < meta.at + UserTTL =>
           user[u] # None /\ user[u].exp + LoadTime >= meta.at + UserTTL

(* The day of a latest key outlives the key.                               *)
LatestInv ==
  \A m \in Merchants : latest[m] # None =>
    StatUntil(<<m, latest[m].day>>, latest[m].exp)

(* What loaders hold of a build is in every later one.                     *)
BuildInv ==
  /\ \A l \in Loaders : load[l].pc = "stats" =>
       /\ load[l].build <= goldStats.build
       /\ load[l].rows \subseteq goldStats.rows
  /\ \A k, l \in Loaders :
       load[k].pc = "stats" /\ load[l].pc = "stats" /\ load[k].build <= load[l].build
         => load[k].rows \subseteq load[l].rows
  /\ \A l \in Loaders :
       load[l].pc = "stats" /\ load[l].build = goldStats.build
         => load[l].rows = goldStats.rows

(* So is the day of a latest key.                                          *)
DayInv ==
  \A m \in Merchants : latest[m] # None =>
    /\ latest[m].build <= goldStats.build
    /\ <<m, latest[m].day>> \in goldStats.rows
    /\ \A l \in Loaders :
         load[l].pc = "stats" /\ latest[m].build <= load[l].build
           => <<m, latest[m].day>> \in load[l].rows

IndInv ==
  /\ TypeOK /\ ExpiryInv /\ TimeInv /\ UsersInv /\ StatsInv
  /\ MetaInv /\ LatestInv /\ BuildInv /\ DayInv

-----------------------------------------------------------------------------
(* Constants and helpers                                                   *)

LEMMA Constants ==
  /\ UserTTL \in Nat /\ MerchantTTL \in Nat /\ LoadTime \in Nat /\ MaxBuilds \in Nat
  /\ UserTTL > 0 /\ LoadTime + UserTTL <= MerchantTTL
  /\ PipelineBatch \in Nat /\ PipelineBatch > 0
  /\ Clock \subseteq Nat /\ Days \subseteq Nat /\ 0 \in Clock
BY StoreAssumption

LEMMA NoneIsNoKey ==
  /\ None \notin Entry
  /\ None \notin [build : Builds, day : Days, exp : Nat]
  /\ None \notin [at : Clock, users : SUBSET Users]
BY StoreAssumption

LEMMA LoadTypes ==
  ASSUME TypeOK, NEW l \in Loaders
  PROVE  /\ now \in Nat
         /\ load[l].start \in Nat /\ load[l].start \in Clock
         /\ load[l].users \subseteq Users
         /\ load[l].build \in Builds /\ load[l].build \in Nat
<1>1. now \in Nat
  BY Constants DEF TypeOK
<1>2. load[l].start \in Clock /\ load[l].users \subseteq Users /\ load[l].build \in Builds
  BY DEF TypeOK
<1>3. load[l].start \in Nat
  BY <1>2, Constants
<1>4. load[l].build \in Nat
  BY <1>2, Constants DEF Builds
<1> QED BY <1>1, <1>2, <1>3, <1>4

(* The type of a loader, kept by what a step assigns to it.                *)
LoadRecord ==
  [pc : {"idle", "users", "select", "stats", "meta"}, build : Builds,
   rows : SUBSET (Users \cup StatRows), rest : SUBSET (Users \cup StatRows),
   users : SUBSET Users, start : Clock]

LEMMA LoadStaysTyped ==
  ASSUME TypeOK, NEW l \in Loaders, NEW x \in LoadRecord, load' = [load EXCEPT ![l] = x]
  PROVE  load' \in [Loaders -> LoadRecord]
BY DEF TypeOK, LoadRecord

(* What an execute leaves: its rows anew, the others as they were.         *)
LEMMA WrittenRows ==
  ASSUME TypeOK, NEW l \in Loaders, NEW ttl \in Nat, NEW b,
         NEW K, NEW old \in [K -> Entry \cup {None}]
  PROVE  /\ Written(b, old, l, ttl) \in [K -> Entry \cup {None}]
         /\ \A r \in K :
              /\ r \in b => /\ Written(b, old, l, ttl)[r] # None
                            /\ Written(b, old, l, ttl)[r].exp = now + ttl
              /\ r \notin b => Written(b, old, l, ttl)[r] = old[r]
<1>1. [build |-> load[l].build, exp |-> now + ttl] \in Entry
  BY Constants DEF TypeOK, Entry
<1> QED BY <1>1, NoneIsNoKey DEF Written

(* The last execute of a table writes all that is left.                    *)
LEMMA FinalIsRest ==
  ASSUME NEW l \in Loaders, NEW b \in Batch(l)
  PROVE  b \subseteq load[l].rest /\ (Final(b) => b = load[l].rest)
BY Constants DEF Batch, Final

(* A finite nonempty set of integers has a largest element: the one above  *)
(* which the fewest are.                                                   *)
LEMMA LargestExists ==
  ASSUME NEW S \in SUBSET Int, IsFiniteSet(S), S # {}
  PROVE  Max(S) \in S /\ \A y \in S : Max(S) >= y
<1> DEFINE Above(x) == {y \in S : y > x}
           All == {Above(x) : x \in S}
<1>1. All \subseteq FiniteSubsetsOf(S) /\ All # {}
  <2>1. All \subseteq SUBSET S /\ All # {}
    OBVIOUS
  <2> QED BY <2>1, FS_FiniteSubsetsOfFinite
<1>2. PICK A \in All : \A B \in All : ~ (<<B, A>> \in StrictSubsetOrdering(S))
  <2> HIDE DEF All
  <2> QED BY <1>1, FS_StrictSubsetOrderingWellFounded, WFMin
<1>3. PICK x \in S : A = Above(x)
  BY <1>2
<1>4. \A y \in S : x >= y
  <2> SUFFICES ASSUME NEW y \in S, y > x PROVE FALSE
    OBVIOUS
  <2>1. <<Above(y), Above(x)>> \in StrictSubsetOrdering(S)
    <3>1. Above(y) \subseteq Above(x)
      <4> SUFFICES ASSUME NEW z \in S, z > y PROVE z > x
        OBVIOUS
      <4> QED BY S \subseteq Int
    <3>2. y \in Above(x) /\ y \notin Above(y)
      OBVIOUS
    <3>3. Above(x) \in SUBSET S /\ Above(y) \in SUBSET S
      OBVIOUS
    <3> HIDE DEF Above
    <3> QED BY <3>1, <3>2, <3>3 DEF StrictSubsetOrdering
  <2> QED BY <1>2, <1>3, <2>1
<1> QED BY <1>4 DEF Max

(* The days of a merchant in a set of rows, and the last of them.          *)
LEMMA LastDay ==
  ASSUME NEW rows \in SUBSET StatRows, NEW m \in Merchants, DaysOf(m, rows) # {}
  PROVE  /\ Max(DaysOf(m, rows)) \in Days
         /\ <<m, Max(DaysOf(m, rows))>> \in rows
         /\ \A d : <<m, d>> \in rows => d \in Days /\ d <= Max(DaysOf(m, rows))
<1> DEFINE D == DaysOf(m, rows)
<1>1. D \subseteq Days
  BY DEF DaysOf, StatRows
<1>2. D \in SUBSET Int /\ IsFiniteSet(D) /\ D # {}
  <2>1. IsFiniteSet(Days)
    BY StoreAssumption
  <2>2. D \in SUBSET Int /\ D # {}
    <3>1. D # {}
      OBVIOUS
    <3> HIDE DEF D
    <3> QED BY <1>1, <3>1, Constants
  <2> HIDE DEF D
  <2> QED BY <1>1, <2>1, <2>2, FS_Subset
<1>3. \A d : d \in D <=> <<m, d>> \in rows
  BY DEF DaysOf, StatRows
<1> HIDE DEF D
<1>4. Max(D) \in D /\ \A d \in D : Max(D) >= d
  BY <1>2, LargestExists
<1> QED
  <2>1. Max(D) \in Days /\ <<m, Max(D)>> \in rows
    BY <1>1, <1>3, <1>4
  <2>2. \A d : <<m, d>> \in rows => d \in Days /\ d <= Max(D)
    BY <1>1, <1>3, <1>4, Constants
  <2> QED BY <2>1, <2>2 DEF D

-----------------------------------------------------------------------------
(* Steps                                                                   *)

LEMMA InitInv == Init => IndInv
<1> SUFFICES ASSUME Init PROVE IndInv
  OBVIOUS
<1>1. TypeOK
  BY Constants DEF Init, TypeOK, Idle, Builds
<1>2. ExpiryInv /\ MetaInv /\ LatestInv /\ DayInv
  BY DEF Init, ExpiryInv, MetaInv, LatestInv, DayInv
<1>3. TimeInv /\ UsersInv /\ StatsInv /\ BuildInv
  BY DEF Init, Idle, TimeInv, UsersInv, StatsInv, BuildInv
<1> QED BY <1>1, <1>2, <1>3 DEF IndInv

(* Time passes: keys that expire are those whose margin is over.           *)
LEMMA TickStep == IndInv /\ Tick => IndInv'
<1> SUFFICES ASSUME IndInv, Tick PROVE IndInv'
  OBVIOUS
<1> USE Constants
<1>1. PICK t \in Clock :
        /\ t > now /\ now' = t
        /\ \A l \in Loaders : load[l].pc # "idle" => t <= load[l].start + LoadTime
        /\ user'   = [u \in Users |-> Alive(user[u], t)]
        /\ stats'  = [s \in StatRows |-> Alive(stats[s], t)]
        /\ latest' = [m \in Merchants |-> Alive(latest[m], t)]
        /\ UNCHANGED <<gold, meta, load>>
  BY DEF Tick
<1>2. now \in Nat /\ t \in Nat /\ now' \in Nat /\ now < now' /\ now < t
  BY <1>1 DEF IndInv, TypeOK
<1>t. TypeOK'
  BY <1>1 DEF IndInv, TypeOK, Alive, gold
<1>3. ASSUME NEW u \in Users
      PROVE  user'[u] = IF user[u] # None /\ user[u].exp <= t THEN None ELSE user[u]
  BY <1>1, <1>3 DEF Alive
<1>4. ASSUME NEW s \in StatRows
      PROVE  stats'[s] = IF stats[s] # None /\ stats[s].exp <= t THEN None ELSE stats[s]
  BY <1>1, <1>4 DEF Alive
<1>5. ASSUME NEW m \in Merchants
      PROVE  latest'[m] = IF latest[m] # None /\ latest[m].exp <= t THEN None ELSE latest[m]
  BY <1>1, <1>5 DEF Alive
<1>6. ExpiryInv'
  <2>1. ASSUME NEW u \in Users, user'[u] # None PROVE user'[u].exp > now'
    <3>1. user'[u] \in Entry
      BY <1>t, <2>1 DEF TypeOK
    <3> QED BY <1>1, <1>2, <1>3, <2>1, <3>1 DEF Entry
  <2>2. ASSUME NEW s \in StatRows, stats'[s] # None PROVE stats'[s].exp > now'
    <3>1. stats'[s] \in Entry
      BY <1>t, <2>2 DEF TypeOK
    <3>2. stats'[s].exp \in Nat /\ ~ (stats'[s].exp <= t)
      BY <1>4, <2>2, <3>1 DEF Entry
    <3> QED BY <1>1, <1>2, <3>2
  <2>3. ASSUME NEW m \in Merchants, latest'[m] # None
        PROVE  latest'[m].exp > now' /\ latest'[m].exp <= now' + UserTTL
    <3>1. latest'[m].exp \in Nat
      BY <1>t, <2>3 DEF TypeOK
    <3> QED BY <1>1, <1>2, <1>5, <2>3, <3>1 DEF IndInv, ExpiryInv
  <2> QED BY <2>1, <2>2, <2>3 DEF ExpiryInv
<1>7. TimeInv'
  <2> SUFFICES ASSUME NEW l \in Loaders, load[l].pc # "idle"
               PROVE  load[l].start <= t /\ t <= load[l].start + LoadTime
    BY <1>1 DEF TimeInv
  <2>1. load[l].start \in Nat /\ load[l].start <= now
    BY LoadTypes DEF IndInv, TimeInv
  <2> QED BY <1>1, <1>2, <2>1
<1>8. ASSUME NEW u \in Users, NEW x \in Nat, UserUntil(u, x), t < x
      PROVE  UserUntil(u, x)'
  <2>1. user[u] \in Entry
    BY <1>8 DEF IndInv, TypeOK, UserUntil
  <2> QED BY <1>3, <1>8, <2>1 DEF UserUntil, Entry
<1>9. ASSUME NEW s \in StatRows, NEW x \in Nat, StatUntil(s, x), t < x
      PROVE  StatUntil(s, x)'
  <2>1. stats[s] \in Entry
    BY <1>9 DEF IndInv, TypeOK, StatUntil
  <2> QED BY <1>4, <1>9, <2>1 DEF StatUntil, Entry
<1>10. UsersInv'
  <2> SUFFICES ASSUME NEW l \in Loaders, load[l].pc # "idle", NEW u \in load[l].users,
                      load[l].pc = "users" => u \notin load[l].rest,
                      t < load[l].start + UserTTL
               PROVE  UserUntil(u, load[l].start + UserTTL)'
    BY <1>1 DEF UsersInv, UserUntil
  <2>1. u \in Users /\ load[l].start \in Nat
    BY DEF IndInv, TypeOK
  <2>2. UserUntil(u, load[l].start + UserTTL)
    BY <1>1, <1>2, <2>1 DEF IndInv, UsersInv
  <2> QED BY <1>1, <1>8, <2>1, <2>2 DEF UserUntil
<1>11. StatsInv'
  <2> SUFFICES ASSUME NEW l \in Loaders, load[l].pc = "stats"
               PROVE  /\ load[l].rows \subseteq StatRows
                      /\ \A s \in load[l].rows :
                           s \notin load[l].rest => StatUntil(s, load[l].start + MerchantTTL)'
    BY <1>1 DEF StatsInv, StatUntil
  <2>1. load[l].rows \subseteq StatRows
    BY DEF IndInv, StatsInv
  <2>2. load[l].start \in Nat /\ t < load[l].start + MerchantTTL
    <3>1. load[l].start \in Nat /\ t <= load[l].start + LoadTime
      BY <1>1, LoadTypes DEF IndInv
    <3> QED BY <1>2, <3>1
  <2>3. ASSUME NEW s \in load[l].rows, s \notin load[l].rest
        PROVE  StatUntil(s, load[l].start + MerchantTTL)'
    <3>1. StatUntil(s, load[l].start + MerchantTTL)
      BY <2>3 DEF IndInv, StatsInv
    <3> QED BY <1>1, <1>9, <2>1, <2>2, <3>1 DEF StatUntil
  <2> QED BY <2>1, <2>3
<1>12. MetaInv'
  <2> SUFFICES ASSUME meta # None
               PROVE  /\ meta.at <= t
                      /\ \A u \in meta.users :
                           t + LoadTime < meta.at + UserTTL =>
                             user'[u] # None /\ user'[u].exp + LoadTime >= meta.at + UserTTL
    BY <1>1 DEF MetaInv
  <2>1. meta.at \in Nat /\ meta.users \subseteq Users /\ meta.at <= now
    BY DEF IndInv, TypeOK, MetaInv
  <2>2. ASSUME NEW u \in meta.users, t + LoadTime < meta.at + UserTTL
        PROVE  user'[u] # None /\ user'[u].exp + LoadTime >= meta.at + UserTTL
    <3>0. now + LoadTime < meta.at + UserTTL
      BY <1>2, <2>1, <2>2
    <3>1. user[u] # None /\ user[u].exp + LoadTime >= meta.at + UserTTL
      BY <3>0 DEF IndInv, MetaInv
    <3>2. u \in Users /\ user[u].exp \in Nat
      BY <2>1, <3>1 DEF IndInv, TypeOK, Entry
    <3>3. user[u].exp > t
      BY <1>2, <2>1, <2>2, <3>1, <3>2
    <3> QED BY <1>2, <1>3, <3>1, <3>2, <3>3
  <2>3. meta.at <= t
    BY <1>2, <2>1
  <2> QED BY <2>2, <2>3
<1>13. LatestInv'
  <2> SUFFICES ASSUME NEW m \in Merchants, latest'[m] # None
               PROVE  StatUntil(<<m, latest[m].day>>, latest[m].exp)'
    BY DEF LatestInv
  <2>1. latest'[m] = latest[m] /\ latest[m] # None
    BY <1>5
  <2>2. latest[m].day \in Days /\ latest[m].exp \in Nat /\ latest[m].exp > t
    BY <1>1, <1>t, <1>6, <2>1 DEF TypeOK, ExpiryInv
  <2>3. StatUntil(<<m, latest[m].day>>, latest[m].exp)
    BY <2>1 DEF IndInv, LatestInv
  <2>4. <<m, latest[m].day>> \in StatRows
    BY <2>2 DEF StatRows
  <2> QED BY <1>9, <2>1, <2>2, <2>3, <2>4 DEF StatUntil
<1>14. BuildInv'
  BY <1>1 DEF IndInv, BuildInv, gold
<1>15. DayInv'
  <2> SUFFICES ASSUME NEW m \in Merchants, latest'[m] # None
               PROVE  latest'[m] = latest[m] /\ latest[m] # None
    BY <1>1 DEF IndInv, DayInv, gold
  <2> QED BY <1>5
<1> QED BY <1>t, <1>6, <1>7, <1>10, <1>11, <1>12, <1>13, <1>14, <1>15 DEF IndInv

(* dbt replaces the table of the users, which no loader compares.          *)
LEMMA BuildUsersStep == IndInv /\ BuildUsers => IndInv'
<1> SUFFICES ASSUME IndInv, BuildUsers PROVE IndInv'
  OBVIOUS
<1>1. UNCHANGED <<now, goldStats, user, stats, latest, meta, load>>
  BY DEF BuildUsers, redis
<1>2. TypeOK'
  <2>1. goldUsers' \in [build : Builds, rows : SUBSET Users]
    BY Constants DEF IndInv, TypeOK, BuildUsers, Builds
  <2> QED BY <1>1, <2>1 DEF IndInv, TypeOK
<1>3. ExpiryInv' /\ TimeInv' /\ MetaInv'
  BY <1>1 DEF IndInv, ExpiryInv, TimeInv, MetaInv
<1>4. UsersInv' /\ StatsInv' /\ LatestInv'
  BY <1>1 DEF IndInv, UsersInv, StatsInv, LatestInv, UserUntil, StatUntil
<1>5. BuildInv' /\ DayInv'
  BY <1>1 DEF IndInv, BuildInv, DayInv
<1> QED BY <1>2, <1>3, <1>4, <1>5 DEF IndInv

(* dbt replaces the statistics: the new build is newer than all held.      *)
LEMMA BuildStatsStep == IndInv /\ BuildStats => IndInv'
<1> SUFFICES ASSUME IndInv, BuildStats PROVE IndInv'
  OBVIOUS
<1>1. /\ UNCHANGED <<now, goldUsers, user, stats, latest, meta, load>>
      /\ goldStats.build < MaxBuilds
  BY DEF BuildStats, redis
<1>2. PICK more \in SUBSET StatRows :
        goldStats' = [build |-> goldStats.build + 1, rows |-> goldStats.rows \cup more]
  BY DEF BuildStats
<1>3. goldStats.build \in Builds /\ goldStats.build \in Nat /\ goldStats.rows \subseteq StatRows
  BY Constants DEF IndInv, TypeOK, Builds
<1>4. TypeOK'
  <2>1. goldStats' \in [build : Builds, rows : SUBSET StatRows]
    BY <1>1, <1>2, <1>3, Constants DEF Builds
  <2> QED BY <1>1, <2>1 DEF IndInv, TypeOK
<1>5. ExpiryInv' /\ TimeInv' /\ MetaInv'
  BY <1>1 DEF IndInv, ExpiryInv, TimeInv, MetaInv
<1>6. UsersInv' /\ StatsInv' /\ LatestInv'
  BY <1>1 DEF IndInv, UsersInv, StatsInv, LatestInv, UserUntil, StatUntil
<1>7. goldStats'.build = goldStats.build + 1 /\ goldStats.rows \subseteq goldStats'.rows
  BY <1>2
<1>8. BuildInv'
  <2>1. ASSUME NEW l \in Loaders, load[l].pc = "stats"
        PROVE  /\ load[l].build < goldStats'.build
               /\ load[l].rows \subseteq goldStats'.rows
    <3>1. /\ load[l].build \in Nat /\ load[l].build <= goldStats.build
          /\ load[l].rows \subseteq goldStats.rows
      BY <2>1, LoadTypes DEF IndInv, BuildInv
    <3> QED BY <1>3, <1>7, <3>1
  <2>2. \A l \in Loaders : load[l].build \in Nat
    BY LoadTypes DEF IndInv
  <2> QED BY <1>1, <1>3, <1>7, <2>1, <2>2 DEF IndInv, BuildInv
<1>9. DayInv'
  <2> SUFFICES ASSUME NEW m \in Merchants, latest[m] # None
               PROVE  /\ latest[m].build <= goldStats'.build
                      /\ <<m, latest[m].day>> \in goldStats'.rows
    BY <1>1 DEF IndInv, DayInv
  <2>1. latest[m].build \in Nat
    BY Constants DEF IndInv, TypeOK, Builds
  <2>2. latest[m].build <= goldStats.build /\ <<m, latest[m].day>> \in goldStats.rows
    BY DEF IndInv, DayInv
  <2> QED BY <1>3, <1>7, <2>1, <2>2
<1> QED BY <1>4, <1>5, <1>6, <1>8, <1>9 DEF IndInv

(* A loader ends, or has ended: less is claimed.                           *)
LEMMA IdleLoader ==
  ASSUME IndInv, NEW l \in Loaders, load' = [load EXCEPT ![l] = Idle],
         UNCHANGED <<now, gold, user, stats, latest>>
  PROVE  /\ (TypeOK /\ meta' \in [at : Clock, users : SUBSET Users] \cup {None}) => TypeOK'
         /\ ExpiryInv' /\ TimeInv' /\ UsersInv' /\ StatsInv'
         /\ LatestInv' /\ BuildInv' /\ DayInv'
<1>1. \A k \in Loaders : load'[k] = IF k = l THEN Idle ELSE load[k]
  BY DEF IndInv, TypeOK
<1>2. Idle.pc = "idle"
  BY DEF Idle
<1>3. TypeOK /\ meta' \in [at : Clock, users : SUBSET Users] \cup {None} => TypeOK'
  BY Constants DEF TypeOK, Idle, Builds, gold
<1>4. ExpiryInv' /\ LatestInv'
  BY DEF IndInv, ExpiryInv, LatestInv, StatUntil
<1>5. TimeInv' /\ UsersInv' /\ StatsInv'
  BY <1>1, <1>2 DEF IndInv, TimeInv, UsersInv, StatsInv, UserUntil, StatUntil
<1>6. BuildInv'
  BY <1>1, <1>2 DEF IndInv, BuildInv, gold
<1>7. DayInv'
  BY <1>1, <1>2 DEF IndInv, DayInv, gold
<1> QED BY <1>3, <1>4, <1>5, <1>6, <1>7

LEMMA CrashStep ==
  ASSUME IndInv, NEW l \in Loaders, Crash(l)
  PROVE  IndInv'
<1>1. /\ load' = [load EXCEPT ![l] = Idle]
      /\ UNCHANGED <<now, gold, user, stats, latest, meta>>
  BY DEF Crash, redis
<1>2. TypeOK' /\ MetaInv'
  BY <1>1, IdleLoader DEF IndInv, TypeOK, MetaInv
<1> QED BY <1>1, <1>2, IdleLoader DEF IndInv

(* The metadata is written at the end of the load that it vouches for.     *)
LEMMA SetMetadataStep ==
  ASSUME IndInv, NEW l \in Loaders, SetMetadata(l)
  PROVE  IndInv'
<1>1. /\ load[l].pc = "meta"
      /\ meta' = [at |-> now, users |-> load[l].users]
      /\ load' = [load EXCEPT ![l] = Idle]
      /\ UNCHANGED <<now, gold, user, stats, latest>>
  BY DEF SetMetadata
<1>2. /\ now \in Nat /\ now \in Clock /\ load[l].start \in Nat
      /\ load[l].users \subseteq Users
      /\ load[l].start <= now /\ now <= load[l].start + LoadTime
  <2>1. load[l].start <= now /\ now <= load[l].start + LoadTime
    BY <1>1 DEF IndInv, TimeInv
  <2> QED BY <2>1, LoadTypes DEF IndInv, TypeOK
<1>3. TypeOK'
  <2>1. meta' \in [at : Clock, users : SUBSET Users]
    BY <1>1, <1>2
  <2> QED BY <1>1, <2>1, IdleLoader DEF IndInv
<1>4. MetaInv'
  <2>1. ASSUME NEW u \in load[l].users, now + LoadTime < now + UserTTL
        PROVE  user[u] # None /\ user[u].exp + LoadTime >= now + UserTTL
    <3>1. now < load[l].start + UserTTL
      BY <1>2, <2>1, Constants
    <3>2. UserUntil(u, load[l].start + UserTTL)
      BY <1>1, <3>1 DEF IndInv, UsersInv
    <3>3. user[u].exp \in Nat /\ u \in Users
      BY <1>2, <3>2 DEF IndInv, TypeOK, UserUntil, Entry
    <3> QED BY <1>2, <3>2, <3>3, Constants DEF UserUntil
  <2> QED BY <1>1, <1>2, <2>1 DEF MetaInv
<1> QED BY <1>1, <1>3, <1>4, IdleLoader DEF IndInv

(* The steps of a load of users do not touch the statistics.               *)
LEMMA StatsUntouched ==
  ASSUME IndInv, NEW l \in Loaders,
         \A k \in Loaders : k # l => load'[k] = load[k],
         load'[l].pc # "stats",
         UNCHANGED <<now, goldStats, stats, latest>>
  PROVE  StatsInv' /\ LatestInv' /\ BuildInv' /\ DayInv'
<1>1. StatsInv' /\ LatestInv'
  BY DEF IndInv, StatsInv, LatestInv, StatUntil
<1>2. BuildInv'
  BY DEF IndInv, BuildInv
<1>3. DayInv'
  BY DEF IndInv, DayInv
<1> QED BY <1>1, <1>2, <1>3

LEMMA SelectUsersStep ==
  ASSUME IndInv, NEW l \in Loaders, SelectUsers(l)
  PROVE  IndInv'
<1> DEFINE new == [pc |-> "users", build |-> goldUsers.build, rows |-> goldUsers.rows,
                   rest |-> goldUsers.rows, users |-> goldUsers.rows, start |-> now]
<1>1. /\ load' = [load EXCEPT ![l] = new]
      /\ UNCHANGED <<now, gold, user, stats, latest, meta>>
  BY DEF SelectUsers, redis
<1>2. load'[l] = new /\ \A k \in Loaders : k # l => load'[k] = load[k]
  BY <1>1 DEF IndInv, TypeOK
<1>3. TypeOK'
  <2>1. new \in [pc : {"idle", "users", "select", "stats", "meta"}, build : Builds,
                 rows : SUBSET (Users \cup StatRows), rest : SUBSET (Users \cup StatRows),
                 users : SUBSET Users, start : Clock]
    BY DEF IndInv, TypeOK
  <2> HIDE DEF new
  <2> QED BY <1>1, <2>1 DEF IndInv, TypeOK, gold
<1>4. ExpiryInv' /\ MetaInv'
  BY <1>1 DEF IndInv, ExpiryInv, MetaInv
<1>5. TimeInv'
  <2>1. now <= now /\ now <= now + LoadTime
    BY LoadTypes, Constants DEF IndInv
  <2> QED BY <1>1, <1>2, <2>1 DEF IndInv, TimeInv
<1>6. UsersInv'
  BY <1>1, <1>2 DEF IndInv, UsersInv, UserUntil
<1>7. StatsInv' /\ LatestInv' /\ BuildInv' /\ DayInv'
  <2>1. load'[l].pc # "stats" /\ UNCHANGED <<now, goldStats, stats, latest>>
    BY <1>1, <1>2 DEF gold
  <2> QED BY <1>2, <2>1, StatsUntouched
<1> QED BY <1>3, <1>4, <1>5, <1>6, <1>7 DEF IndInv

(* A batch of users: those written live for UserTTL from now, and it may   *)
(* only prolong what others have written.                                  *)
LEMMA ExecuteUsersStep ==
  ASSUME IndInv, NEW l \in Loaders, ExecuteUsers(l)
  PROVE  IndInv'
<1>1. PICK b \in Batch(l) :
        /\ user' = Written(b, user, l, UserTTL)
        /\ load' = [load EXCEPT ![l].rest = @ \ b,
                                ![l].pc = IF Final(b) THEN "select" ELSE @]
  BY DEF ExecuteUsers
<1>2. load[l].pc = "users" /\ UNCHANGED <<now, gold, stats, latest, meta>>
  BY DEF ExecuteUsers
<1>3. /\ \A k \in Loaders : k # l => load'[k] = load[k]
      /\ load'[l] = [load[l] EXCEPT !.rest = @ \ b, !.pc = IF Final(b) THEN "select" ELSE @]
  BY <1>1 DEF IndInv, TypeOK
<1>4. /\ load'[l].pc = IF Final(b) THEN "select" ELSE "users"
      /\ load'[l].rest = load[l].rest \ b
      /\ load'[l].users = load[l].users /\ load'[l].start = load[l].start
  BY <1>2, <1>3 DEF IndInv, TypeOK
<1>5. /\ user' \in [Users -> Entry \cup {None}]
      /\ \A u \in Users :
           /\ u \in b => user'[u] # None /\ user'[u].exp = now + UserTTL
           /\ u \notin b => user'[u] = user[u]
  BY <1>1, WrittenRows, Constants DEF IndInv, TypeOK
<1>6. now \in Nat /\ \A k \in Loaders : load[k].start \in Nat /\ load[k].users \subseteq Users
  BY LoadTypes DEF IndInv
<1>7. TypeOK'
  <2> DEFINE new == [load[l] EXCEPT !.rest = @ \ b,
                                    !.pc = IF Final(b) THEN "select" ELSE @]
  <2>1. load[l] \in LoadRecord
    BY DEF IndInv, TypeOK, LoadRecord
  <2>2. new \in LoadRecord
    BY <2>1 DEF LoadRecord
  <2>3. load' = [load EXCEPT ![l] = new]
    BY <1>1
  <2>4. load' \in [Loaders -> LoadRecord]
    <3> HIDE DEF new
    <3> QED BY <2>2, <2>3, LoadStaysTyped DEF IndInv
  <2> QED BY <1>2, <1>5, <2>4 DEF IndInv, TypeOK, gold, LoadRecord
<1>8. ExpiryInv'
  BY <1>2, <1>5, <1>6, Constants DEF IndInv, ExpiryInv
<1>9. TimeInv'
  BY <1>2, <1>3, <1>4 DEF IndInv, TimeInv
<1>10. ASSUME NEW u \in Users, NEW t \in Nat, t <= now + UserTTL,
              UserUntil(u, t) \/ u \in b
       PROVE  UserUntil(u, t)'
  BY <1>5, <1>6, <1>10, Constants DEF UserUntil
<1>11. UsersInv'
  <2> SUFFICES ASSUME NEW k \in Loaders, load'[k].pc # "idle", NEW u \in load'[k].users,
                      load'[k].pc = "users" => u \notin load'[k].rest,
                      now < load'[k].start + UserTTL
               PROVE  user'[u] # None /\ user'[u].exp >= load'[k].start + UserTTL
    BY <1>2 DEF UsersInv, UserUntil
  <2>1. /\ load'[k].users = load[k].users /\ load'[k].start = load[k].start
        /\ load[k].pc # "idle"
    BY <1>2, <1>3, <1>4
  <2>2. u \in Users /\ load[k].start \in Nat /\ load[k].start + UserTTL <= now + UserTTL
    <3>1. load[k].start <= now
      BY <2>1 DEF IndInv, TimeInv
    <3> QED BY <1>6, <2>1, <3>1, Constants
  <2>3. UserUntil(u, load[k].start + UserTTL) \/ u \in b
    <3>1. (load[k].pc = "users" => u \notin load[k].rest) \/ u \in b
      BY <1>1, <1>3, <1>4, FinalIsRest
    <3> QED BY <2>1, <3>1 DEF IndInv, UsersInv
  <2>4. user'[u] # None /\ user'[u].exp >= load[k].start + UserTTL
    <3> DEFINE t == load[k].start + UserTTL
    <3>1. t \in Nat
      BY <2>2, Constants
    <3>2. \A x \in Nat : x <= now + UserTTL /\ (UserUntil(u, x) \/ u \in b)
            => user'[u] # None /\ user'[u].exp >= x
      BY <1>10, <2>2 DEF UserUntil
    <3>3. user'[u] # None /\ user'[u].exp >= t
      BY <2>2, <2>3, <3>1, <3>2
    <3> QED BY <3>3
  <2> QED BY <2>1, <2>4
<1>12. MetaInv'
  <2> SUFFICES ASSUME meta # None, NEW u \in meta.users,
                      now + LoadTime < meta.at + UserTTL
               PROVE  user'[u] # None /\ user'[u].exp + LoadTime >= meta.at + UserTTL
    BY <1>2 DEF IndInv, MetaInv
  <2>1. meta.at \in Nat /\ meta.at <= now /\ u \in Users
    BY Constants DEF IndInv, TypeOK, MetaInv
  <2>2. CASE u \in b
    BY <1>5, <1>6, <2>1, <2>2, Constants
  <2>3. CASE u \notin b
    BY <1>5, <2>1, <2>3 DEF IndInv, MetaInv
  <2> QED BY <2>2, <2>3
<1>13. StatsInv' /\ LatestInv' /\ BuildInv' /\ DayInv'
  <2>1. load'[l].pc # "stats" /\ UNCHANGED <<now, goldStats, stats, latest>>
    BY <1>2, <1>4 DEF gold
  <2> QED BY <1>3, <2>1, StatsUntouched
<1> QED BY <1>7, <1>8, <1>9, <1>11, <1>12, <1>13 DEF IndInv

(* The statistics selected are those of the newest build.                  *)
LEMMA SelectStatsStep ==
  ASSUME IndInv, NEW l \in Loaders, SelectStats(l)
  PROVE  IndInv'
<1>1. /\ load' = [load EXCEPT ![l].pc = "stats", ![l].build = goldStats.build,
                              ![l].rows = goldStats.rows, ![l].rest = goldStats.rows]
      /\ load[l].pc = "select"
      /\ UNCHANGED <<now, gold, user, stats, latest, meta>>
  BY DEF SelectStats, redis
<1>2. /\ \A k \in Loaders : k # l => load'[k] = load[k]
      /\ load'[l].pc = "stats" /\ load'[l].build = goldStats.build
      /\ load'[l].rows = goldStats.rows /\ load'[l].rest = goldStats.rows
      /\ load'[l].users = load[l].users /\ load'[l].start = load[l].start
  BY <1>1 DEF IndInv, TypeOK
<1>3. /\ goldStats.build \in Builds /\ goldStats.build \in Nat
      /\ goldStats.rows \subseteq StatRows
  BY Constants DEF IndInv, TypeOK, Builds
<1>4. TypeOK'
  <2> DEFINE new == [load[l] EXCEPT !.pc = "stats", !.build = goldStats.build,
                                    !.rows = goldStats.rows, !.rest = goldStats.rows]
  <2>1. load[l] \in LoadRecord
    BY DEF IndInv, TypeOK, LoadRecord
  <2>2. new \in LoadRecord
    BY <1>3, <2>1 DEF LoadRecord
  <2>3. load' = [load EXCEPT ![l] = new]
    BY <1>1
  <2>4. load' \in [Loaders -> LoadRecord]
    <3> HIDE DEF new
    <3> QED BY <2>2, <2>3, LoadStaysTyped DEF IndInv
  <2> QED BY <1>1, <2>4 DEF IndInv, TypeOK, gold, LoadRecord
<1>5. ExpiryInv' /\ MetaInv' /\ LatestInv'
  BY <1>1 DEF IndInv, ExpiryInv, MetaInv, LatestInv, StatUntil
<1>6. TimeInv'
  BY <1>1, <1>2 DEF IndInv, TimeInv
<1>7. UsersInv'
  <2>1. \A k \in Loaders :
          /\ load'[k].users = load[k].users /\ load'[k].start = load[k].start
          /\ load'[k].pc # "idle" => load[k].pc # "idle"
          /\ (load[k].pc = "users" => k # l /\ load'[k] = load[k])
    BY <1>1, <1>2
  <2> QED BY <1>1, <2>1 DEF IndInv, UsersInv, UserUntil
<1>8. StatsInv'
  BY <1>1, <1>2, <1>3 DEF IndInv, StatsInv, StatUntil
<1>9. BuildInv'
  <2>1. ASSUME NEW k \in Loaders, load'[k].pc = "stats"
        PROVE  /\ load'[k].build \in Nat /\ load'[k].build <= goldStats.build
               /\ load'[k].rows \subseteq goldStats.rows
               /\ load'[k].build = goldStats.build => load'[k].rows = goldStats.rows
    <3>1. CASE k = l
      BY <1>2, <1>3, <3>1
    <3>2. CASE k # l
      BY <1>2, <2>1, <3>2, LoadTypes DEF IndInv, BuildInv
    <3> QED BY <3>1, <3>2
  <2>2. ASSUME NEW j \in Loaders, NEW k \in Loaders,
               load'[j].pc = "stats", load'[k].pc = "stats", load'[j].build <= load'[k].build
        PROVE  load'[j].rows \subseteq load'[k].rows
    <3>1. CASE k = l
      BY <1>2, <2>1, <2>2, <3>1
    <3>2. CASE j = l /\ k # l
      <4>1. load'[k].build = goldStats.build
        BY <1>2, <1>3, <2>1, <2>2, <3>2
      <4> QED BY <1>2, <2>1, <2>2, <3>2, <4>1
    <3>3. CASE j # l /\ k # l
      BY <1>2, <2>2, <3>3 DEF IndInv, BuildInv
    <3> QED BY <3>1, <3>2, <3>3
  <2> QED BY <1>1, <2>1, <2>2 DEF BuildInv, gold
<1>10. DayInv'
  BY <1>1, <1>2 DEF IndInv, DayInv, gold
<1> QED BY <1>4, <1>5, <1>6, <1>7, <1>8, <1>9, <1>10 DEF IndInv

(* A latest key is as it was, or written from the loader's rows.           *)
Renewed(l, m) ==
  [build |-> load[l].build, day |-> Max(DaysOf(m, load[l].rows)), exp |-> now + UserTTL]

LEMMA ExecuteStatsEffect ==
  ASSUME IndInv, NEW l \in Loaders, ExecuteStats(l)
  PROVE  /\ load[l].pc = "stats" /\ UNCHANGED <<now, gold, user, meta>>
         /\ \E b \in Batch(l) :
              /\ stats' = Written(b, stats, l, MerchantTTL)
              /\ load' = [load EXCEPT ![l].rest = @ \ b,
                                      ![l].pc = IF Final(b) THEN "meta" ELSE @]
              /\ DOMAIN latest' = Merchants
              /\ \A m \in Merchants :
                   \/ latest'[m] = latest[m]
                   \/ /\ Final(b) /\ DaysOf(m, load[l].rows) # {}
                      /\ latest'[m] = Renewed(l, m)
              /\ latest' = [m \in Merchants |-> latest'[m]]
<1>1. PICK b \in Batch(l) :
        /\ stats' = Written(b, stats, l, MerchantTTL)
        /\ latest' = IF Final(b) THEN LatestWritten(l) ELSE latest
        /\ load' = [load EXCEPT ![l].rest = @ \ b,
                                ![l].pc = IF Final(b) THEN "meta" ELSE @]
  BY DEF ExecuteStats
<1>2. \A m \in Merchants :
        \/ latest'[m] = latest[m]
        \/ /\ Final(b) /\ DaysOf(m, load[l].rows) # {}
           /\ latest'[m] = Renewed(l, m)
  BY <1>1 DEF LatestWritten, Renewed
<1>3. DOMAIN latest' = Merchants /\ latest' = [m \in Merchants |-> latest'[m]]
  BY <1>1 DEF LatestWritten, IndInv, TypeOK
<1>4. load[l].pc = "stats" /\ UNCHANGED <<now, gold, user, meta>>
  BY DEF ExecuteStats
<1> QED BY <1>1, <1>2, <1>3, <1>4

(* A batch of statistics, and with the last one the latest keys.           *)
LEMMA ExecuteStatsStep ==
  ASSUME IndInv, NEW l \in Loaders, ExecuteStats(l)
  PROVE  IndInv'
<1>1. load[l].pc = "stats" /\ UNCHANGED <<now, gold, user, meta>>
  BY ExecuteStatsEffect
<1>2. PICK b \in Batch(l) :
        /\ stats' = Written(b, stats, l, MerchantTTL)
        /\ load' = [load EXCEPT ![l].rest = @ \ b,
                                ![l].pc = IF Final(b) THEN "meta" ELSE @]
        /\ \A m \in Merchants :
             \/ latest'[m] = latest[m]
             \/ /\ Final(b) /\ DaysOf(m, load[l].rows) # {}
                /\ latest'[m] = Renewed(l, m)
        /\ latest' = [m \in Merchants |-> latest'[m]]
  BY ExecuteStatsEffect
<1>3. /\ \A k \in Loaders : k # l => load'[k] = load[k]
      /\ load'[l].pc = IF Final(b) THEN "meta" ELSE "stats"
      /\ load'[l].rest = load[l].rest \ b
      /\ load'[l].users = load[l].users /\ load'[l].start = load[l].start
      /\ load'[l].rows = load[l].rows /\ load'[l].build = load[l].build
  <2>1. load'[l] = [load[l] EXCEPT !.rest = @ \ b, !.pc = IF Final(b) THEN "meta" ELSE @]
    BY <1>2 DEF IndInv, TypeOK
  <2> QED BY <1>1, <1>2, <2>1 DEF IndInv, TypeOK
<1>4. /\ stats' \in [StatRows -> Entry \cup {None}]
      /\ \A s \in StatRows :
           /\ s \in b => stats'[s] # None /\ stats'[s].exp = now + MerchantTTL
           /\ s \notin b => stats'[s] = stats[s]
  BY <1>2, WrittenRows, Constants DEF IndInv, TypeOK
<1>5. /\ now \in Nat /\ load[l].start \in Nat
      /\ load[l].build \in Builds /\ load[l].build \in Nat
      /\ load[l].start <= now /\ now <= load[l].start + LoadTime
  BY <1>1, LoadTypes DEF IndInv, TimeInv
<1>6. load[l].rows \in SUBSET StatRows
  BY <1>1 DEF IndInv, StatsInv
<1>7. ASSUME NEW m \in Merchants, DaysOf(m, load[l].rows) # {}
      PROVE  /\ Renewed(l, m) \in [build : Builds, day : Days, exp : Nat]
             /\ Renewed(l, m) # None
             /\ <<m, Renewed(l, m).day>> \in load[l].rows
             /\ Renewed(l, m).exp = now + UserTTL
             /\ Renewed(l, m).build = load[l].build
  <2>1. Max(DaysOf(m, load[l].rows)) \in Days
        /\ <<m, Max(DaysOf(m, load[l].rows))>> \in load[l].rows
    BY <1>6, <1>7, LastDay
  <2> QED BY <1>5, <2>1, NoneIsNoKey, Constants DEF Renewed
<1>8. TypeOK'
  <2> DEFINE new == [load[l] EXCEPT !.rest = @ \ b, !.pc = IF Final(b) THEN "meta" ELSE @]
  <2>1. load[l] \in LoadRecord
    BY DEF IndInv, TypeOK, LoadRecord
  <2>2. new \in LoadRecord
    BY <2>1 DEF LoadRecord
  <2>3. load' = [load EXCEPT ![l] = new]
    BY <1>2
  <2>4. load' \in [Loaders -> LoadRecord]
    <3> HIDE DEF new
    <3> QED BY <2>2, <2>3, LoadStaysTyped DEF IndInv
  <2>5. latest' \in [Merchants -> [build : Builds, day : Days, exp : Nat] \cup {None}]
    <3>1. \A m \in Merchants : latest'[m] \in [build : Builds, day : Days, exp : Nat] \cup {None}
      BY <1>2, <1>7 DEF IndInv, TypeOK
    <3> QED BY <1>2, <3>1
  <2> QED BY <1>1, <1>4, <2>4, <2>5 DEF IndInv, TypeOK, gold, LoadRecord
<1>9. ExpiryInv'
  <2>1. \A s \in StatRows : stats'[s] # None => stats'[s].exp > now
    BY <1>4, <1>5, Constants DEF IndInv, ExpiryInv
  <2>2. ASSUME NEW m \in Merchants, latest'[m] # None
        PROVE  latest'[m].exp > now /\ latest'[m].exp <= now + UserTTL
    <3>1. CASE latest'[m] = latest[m]
      BY <2>2, <3>1 DEF IndInv, ExpiryInv
    <3>2. CASE latest'[m] # latest[m]
      <4>1. latest'[m].exp = now + UserTTL
        BY <1>2, <1>7, <3>2
      <4> QED BY <1>5, <4>1, Constants
    <3> QED BY <3>1, <3>2
  <2> QED BY <1>1, <2>1, <2>2 DEF IndInv, ExpiryInv
<1>10. \A k \in Loaders :
         /\ load'[k].pc # "idle" => load[k].pc # "idle"
         /\ load'[k].pc = "stats" => load[k].pc = "stats"
         /\ load[k].pc = "users" => load'[k] = load[k]
         /\ load'[k].users = load[k].users /\ load'[k].start = load[k].start
         /\ load'[k].rows = load[k].rows /\ load'[k].build = load[k].build
  BY <1>1, <1>3
<1>11. TimeInv' /\ MetaInv'
  BY <1>1, <1>10 DEF IndInv, TimeInv, MetaInv
<1>12. UsersInv'
  BY <1>1, <1>10 DEF IndInv, UsersInv, UserUntil
<1>13. ASSUME NEW s \in StatRows, NEW t \in Nat, t <= now + MerchantTTL,
              StatUntil(s, t) \/ s \in b
       PROVE  stats'[s] # None /\ stats'[s].exp >= t
  BY <1>4, <1>5, <1>13, Constants DEF StatUntil
<1>14. StatsInv'
  <2> SUFFICES ASSUME NEW k \in Loaders, load[k].pc = "stats", load'[k].pc = "stats"
               PROVE  /\ load[k].rows \subseteq StatRows
                      /\ \A s \in load[k].rows :
                           s \notin load'[k].rest =>
                             stats'[s] # None /\ stats'[s].exp >= load[k].start + MerchantTTL
    BY <1>10 DEF StatsInv, StatUntil
  <2>1. load[k].rows \subseteq StatRows
    BY DEF IndInv, StatsInv
  <2>2. ASSUME NEW s \in load[k].rows, s \notin load'[k].rest
        PROVE  stats'[s] # None /\ stats'[s].exp >= load[k].start + MerchantTTL
    <3> DEFINE t == load[k].start + MerchantTTL
    <3>1. s \notin load[k].rest \/ s \in b
      BY <1>3, <2>2
    <3>2. StatUntil(s, t) \/ s \in b
      BY <3>1 DEF IndInv, StatsInv
    <3>3. load[k].start \in Nat /\ load[k].start <= now
      BY LoadTypes DEF IndInv, TimeInv
    <3>4. t \in Nat /\ t <= now + MerchantTTL
      BY <1>5, <3>3, Constants
    <3> HIDE DEF t
    <3>5. stats'[s] # None /\ stats'[s].exp >= t
      BY <1>13, <2>1, <3>2, <3>4
    <3> QED BY <3>5 DEF t
  <2> QED BY <2>1, <2>2
<1>15. LatestInv'
  <2> SUFFICES ASSUME NEW m \in Merchants, latest'[m] # None
               PROVE  /\ stats'[<<m, latest'[m].day>>] # None
                      /\ stats'[<<m, latest'[m].day>>].exp >= latest'[m].exp
    BY DEF LatestInv, StatUntil
  <2>1. latest'[m].exp \in Nat /\ latest'[m].day \in Days
        /\ <<m, latest'[m].day>> \in StatRows
    BY <1>8 DEF TypeOK, StatRows
  <2>2. CASE latest'[m] = latest[m]
    <3>1. StatUntil(<<m, latest[m].day>>, latest[m].exp) /\ latest[m].exp <= now + UserTTL
      BY <2>2 DEF IndInv, LatestInv, ExpiryInv
    <3>2. latest[m].exp <= now + MerchantTTL
      BY <1>5, <2>1, <2>2, <3>1, Constants
    <3> QED BY <1>13, <2>1, <2>2, <3>1, <3>2
  <2>3. CASE latest'[m] # latest[m]
    <3> DEFINE s == <<m, latest'[m].day>>
               t == load[l].start + MerchantTTL
    <3>1. /\ Final(b) /\ s \in load[l].rows
          /\ latest'[m].exp = now + UserTTL
      BY <1>2, <1>7, <2>3
    <3>2. StatUntil(s, t) \/ s \in b
      BY <1>1, <3>1, FinalIsRest DEF IndInv, StatsInv
    <3>3. t \in Nat /\ t <= now + MerchantTTL /\ now + UserTTL <= t
      BY <1>5, Constants
    <3> HIDE DEF t
    <3>4. stats'[s] # None /\ stats'[s].exp >= t
      BY <1>13, <2>1, <3>2, <3>3
    <3>5. stats'[s].exp \in Nat
      BY <1>4, <2>1, <3>4 DEF Entry
    <3> QED BY <1>5, <3>1, <3>3, <3>4, <3>5, Constants
  <2> QED BY <2>2, <2>3
<1>16. BuildInv'
  BY <1>1, <1>10 DEF IndInv, BuildInv, gold
<1>17. DayInv'
  <2> SUFFICES ASSUME NEW m \in Merchants, latest'[m] # None
               PROVE  /\ latest'[m].build <= goldStats.build
                      /\ <<m, latest'[m].day>> \in goldStats.rows
                      /\ \A k \in Loaders :
                           load[k].pc = "stats" /\ latest'[m].build <= load[k].build
                             => <<m, latest'[m].day>> \in load[k].rows
    BY <1>1, <1>10 DEF DayInv, gold
  <2>1. CASE latest'[m] = latest[m]
    BY <2>1 DEF IndInv, DayInv
  <2>2. CASE latest'[m] # latest[m]
    <3>1. /\ latest'[m].build = load[l].build
          /\ <<m, latest'[m].day>> \in load[l].rows
      BY <1>2, <1>7, <2>2
    <3> QED BY <1>1, <3>1 DEF IndInv, BuildInv
  <2> QED BY <2>1, <2>2
<1> QED BY <1>8, <1>9, <1>11, <1>12, <1>14, <1>15, <1>16, <1>17 DEF IndInv

-----------------------------------------------------------------------------
(* Theorems                                                                *)

(* The inductive invariant holds in every state.                           *)
THEOREM Invariant == Spec => []IndInv
<1>1. IndInv /\ [Next]_vars => IndInv'
  <2> SUFFICES ASSUME IndInv, [Next]_vars PROVE IndInv'
    OBVIOUS
  <2>1. CASE Tick
    BY <2>1, TickStep
  <2>2. CASE BuildUsers
    BY <2>2, BuildUsersStep
  <2>3. CASE BuildStats
    BY <2>3, BuildStatsStep
  <2>4. ASSUME NEW l \in Loaders,
               \/ SelectUsers(l) \/ ExecuteUsers(l) \/ SelectStats(l)
               \/ ExecuteStats(l) \/ SetMetadata(l) \/ Crash(l)
        PROVE  IndInv'
    BY <2>4, SelectUsersStep, ExecuteUsersStep, SelectStatsStep,
       ExecuteStatsStep, SetMetadataStep, CrashStep
  <2>5. CASE UNCHANGED vars
    <3>1. UNCHANGED <<now, goldUsers, goldStats, user, stats, latest, meta, load>>
      BY <2>5 DEF vars, gold, redis
    <3>2. TypeOK' /\ ExpiryInv' /\ TimeInv' /\ MetaInv'
      BY <3>1 DEF IndInv, TypeOK, ExpiryInv, TimeInv, MetaInv
    <3>3. UsersInv' /\ StatsInv' /\ LatestInv'
      BY <3>1 DEF IndInv, UsersInv, StatsInv, LatestInv, UserUntil, StatUntil
    <3>4. BuildInv' /\ DayInv'
      BY <3>1 DEF IndInv, BuildInv, DayInv
    <3> QED BY <3>2, <3>3, <3>4 DEF IndInv
  <2> QED BY <2>1, <2>2, <2>3, <2>4, <2>5 DEF Next
<1> QED BY <1>1, InitInv, PTL DEF Spec

(* Keys, tables and loaders are well typed; every key has an expiry.       *)
THEOREM TypeCorrect == Spec => []TypeOK
<1>1. IndInv => TypeOK
  BY DEF IndInv
<1> QED BY <1>1, Invariant, PTL

(* For any number of loaders, users and batches: until UserTTL less the    *)
(* duration of a load has passed since set_metadata, the API finds every   *)
(* user of the load that wrote the metadata.                               *)
THEOREM FreshIsServed == Spec => []ServedWhileFresh
<1>1. IndInv => ServedWhileFresh
  <2> SUFFICES ASSUME IndInv, meta # None, now + LoadTime < meta.at + UserTTL
               PROVE  Missing(meta.users) = {}
    BY DEF ServedWhileFresh
  <2> QED BY DEF IndInv, MetaInv, Missing
<1> QED BY <1>1, Invariant, PTL

(* merchant:latest never points at a day whose merchant:stats key is gone. *)
THEOREM LatestIsBacked == Spec => []LatestBacked
<1>1. IndInv => LatestBacked
  BY DEF IndInv, LatestInv, StatUntil, LatestBacked
<1> QED BY <1>1, Invariant, PTL

(* A merchant:latest key written from a newer build shows no earlier day.  *)
THEOREM LatestAdvances == Spec => LatestMovesForward
<1>1. IndInv /\ IndInv' /\ [Next]_vars =>
        [\A m \in Merchants :
           /\ latest[m] # None /\ latest'[m] # None
           /\ latest'[m].build >= latest[m].build
           => latest'[m].day >= latest[m].day]_latest
  <2> SUFFICES ASSUME IndInv, IndInv', [Next]_vars, latest' # latest, NEW m \in Merchants,
                      latest[m] # None, latest'[m] # None,
                      latest'[m].build >= latest[m].build
               PROVE  latest'[m].day >= latest[m].day
    OBVIOUS
  <2>1. latest[m].day \in Nat /\ latest[m].build \in Nat
    <3>1. latest[m] \in [build : Builds, day : Days, exp : Nat]
      BY DEF IndInv, TypeOK
    <3>2. latest[m].day \in Nat
      BY <3>1, Constants
    <3>3. latest[m].build \in Nat
      BY <3>1, Constants DEF Builds
    <3> QED BY <3>2, <3>3
  <2>2. CASE latest'[m] = latest[m]
    BY <2>1, <2>2
  <2>3. CASE latest'[m] # latest[m]
    <3>1. CASE Tick
      <4>1. PICK t \in Clock : latest' = [k \in Merchants |-> Alive(latest[k], t)]
        BY <3>1 DEF Tick
      <4> QED BY <2>3, <4>1 DEF Alive
    <3>2. ASSUME NEW l \in Loaders, ExecuteStats(l) PROVE latest'[m].day >= latest[m].day
      <4>1. load[l].pc = "stats"
        BY <3>2 DEF ExecuteStats
      <4>2. load[l].rows \in SUBSET StatRows
        BY <4>1 DEF IndInv, StatsInv
      <4>3. DaysOf(m, load[l].rows) # {} /\ latest'[m] = Renewed(l, m)
        BY <2>3, <3>2, ExecuteStatsEffect
      <4>4. latest[m].build <= load[l].build
        BY <2>1, <4>3, LoadTypes DEF IndInv, Renewed
      <4>5. <<m, latest[m].day>> \in load[l].rows
        BY <4>1, <4>4 DEF IndInv, DayInv
      <4>6. /\ Max(DaysOf(m, load[l].rows)) \in Days
            /\ latest[m].day <= Max(DaysOf(m, load[l].rows))
        BY <4>2, <4>3, <4>5, LastDay
      <4> QED BY <2>1, <4>3, <4>6, Constants DEF Renewed
    <3>3. CASE ~ (Tick \/ \E l \in Loaders : ExecuteStats(l))
      <4>1. latest' = latest
        BY <3>3 DEF Next, BuildUsers, BuildStats, SelectUsers, ExecuteUsers, SelectStats,
                    SetMetadata, Crash, redis, vars
      <4> QED BY <2>3, <4>1
    <3> QED BY <3>1, <3>2, <3>3
  <2> QED BY <2>2, <2>3
<1> QED BY <1>1, Invariant, PTL DEF Spec, LatestMovesForward
=============================================================================
