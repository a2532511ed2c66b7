------------------------ MODULE ReferenceDataProofs ------------------------
(***************************************************************************)
(* ReferenceData for any number of users, changes and seedings.            *)
(*                                                                         *)
(* A table that a snapshot has read is older than public.users: its rows   *)
(* have been updated no later, and one that is gone comes back only with a *)
(* later updated_at.  So a merge, however late, ends the open versions at  *)
(* or after their begin, and no later than the next ones begin.            *)
(***************************************************************************)
EXTENDS ReferenceData, TLAPS

-----------------------------------------------------------------------------
(* The invariant                                                           *)

(* t was read from public.users, now or earlier.                           *)
Older(t) ==
  \A i \in DOMAIN t :
    /\ i <= born /\ t[i].updated <= now
    /\ i \in DOMAIN users => t[i].updated <= users[i].updated
    /\ i \notin DOMAIN users => t[i].updated < now

TableInv == Older(users) /\ Older(taken) /\ (stage # None => Older(stage.read))

(* Versions have ended by now, and before the row that is there now.       *)
KnownInv ==
  \A h \in history :
    /\ h.id <= born
    /\ h.to # None => /\ h.to <= now
                      /\ h.id \in DOMAIN users => h.to <= users[h.id].updated

(* What the snapshot query makes of a table t at time n.                   *)
Ended(t, n) ==
  {[h EXCEPT !.to = t[h.id].updated] :
     h \in {g \in Open : g.id \in DOMAIN t /\ g.from < t[g.id].updated}}
  \cup {[h EXCEPT !.to = n] : h \in {g \in Open : g.id \notin DOMAIN t}}

Begun(t) ==
  {[id |-> i, attr |-> t[i].attr, from |-> t[i].updated, to |-> None] :
     i \in {j \in DOMAIN t :
              \/ \A h \in Open : h.id # j
              \/ \E h \in Open : h.id = j /\ h.from < t[j].updated}}

(* What a running snapshot has read in t at time n lies between the last   *)
(* one and now.                                                            *)
ReadAt(t, n) ==
  /\ n <= now
  /\ \A i \in DOMAIN t : i \in DOMAIN taken => taken[i].updated <= t[i].updated
  /\ \A h \in history :
       h.id \in DOMAIN t /\ h.to # None => h.to <= t[h.id].updated
  /\ \A h \in Open :
       h.id \notin DOMAIN t =>
         h.from < n /\ (h.id \in DOMAIN users => n <= users[h.id].updated)

StageInv ==
  stage # None =>
    \E n \in Time : /\ stage.close = Ended(stage.read, n)
                    /\ stage.insert = Begun(stage.read)
                    /\ ReadAt(stage.read, n)

IndInv ==
  /\ TypeOK /\ VersionsFollow /\ OpenIsCurrent
  /\ TableInv /\ KnownInv /\ StageInv

-----------------------------------------------------------------------------
(* Types                                                                   *)

LEMMA Constants ==
  /\ Rows \in Nat /\ MaxTime \in Nat /\ MaxIds \in Nat /\ Seeded \in Attrs
  /\ None \notin Time /\ None \notin Stages
  /\ Time \subseteq Nat /\ Ids \subseteq Nat
BY ReferenceAssumption DEF Time, Ids

LEMMA Tables ==
  ASSUME NEW t
  PROVE  t \in Table <=> /\ t = [i \in DOMAIN t |-> t[i]]
                         /\ DOMAIN t \subseteq Ids
                         /\ \A i \in DOMAIN t : t[i] \in User
<1>1. ASSUME t \in Table
      PROVE  /\ t = [i \in DOMAIN t |-> t[i]] /\ DOMAIN t \subseteq Ids
             /\ \A i \in DOMAIN t : t[i] \in User
  <2>1. PICK S \in SUBSET Ids : t \in [S -> User]
    BY <1>1 DEF Table
  <2> QED BY <2>1
<1>2. ASSUME t = [i \in DOMAIN t |-> t[i]], DOMAIN t \subseteq Ids,
             \A i \in DOMAIN t : t[i] \in User
      PROVE  t \in Table
  <2>1. t \in [DOMAIN t -> User]
    BY <1>2
  <2> QED BY <1>2, <2>1 DEF Table
<1> QED BY <1>1, <1>2

LEMMA Rows_ ==
  ASSUME NEW t \in Table, NEW i \in DOMAIN t
  PROVE  /\ i \in Ids /\ i \in Nat
         /\ t[i].attr \in Attrs /\ t[i].updated \in Time /\ t[i].updated \in Nat
<1>1. i \in Ids /\ t[i] \in User
  BY Tables
<1> QED BY <1>1, Constants DEF User

LEMMA Versions ==
  ASSUME NEW h \in Version
  PROVE  /\ h.id \in Ids /\ h.id \in Nat /\ h.attr \in Attrs
         /\ h.from \in Time /\ h.from \in Nat
         /\ h.to \in Time \cup {None} /\ (h.to # None => h.to \in Nat)
         /\ h = [id |-> h.id, attr |-> h.attr, from |-> h.from, to |-> h.to]
         /\ \A n : [h EXCEPT !.to = n] =
                     [id |-> h.id, attr |-> h.attr, from |-> h.from, to |-> n]
<1>1. /\ h.id \in Ids /\ h.attr \in Attrs /\ h.from \in Time /\ h.to \in Time \cup {None}
      /\ h = [id |-> h.id, attr |-> h.attr, from |-> h.from, to |-> h.to]
      /\ \A n : [h EXCEPT !.to = n] =
                  [id |-> h.id, attr |-> h.attr, from |-> h.from, to |-> n]
  BY DEF Version
<1> QED BY <1>1, Constants

-----------------------------------------------------------------------------
(* The steps that leave the history alone                                  *)

LEMMA InitInv == Init => IndInv
<1> SUFFICES ASSUME Init PROVE IndInv
  OBVIOUS
<1>1. Empty \in Table /\ DOMAIN Empty = {}
  <2>1. DOMAIN Empty = {} /\ Empty = [i \in DOMAIN Empty |-> Empty[i]]
    BY DEF Empty
  <2> QED BY <2>1, Tables
<1>2. TypeOK
  BY <1>1, Constants DEF Init, TypeOK, Time
<1>3. VersionsFollow /\ OpenIsCurrent
  BY <1>1 DEF Init, VersionsFollow, OpenIsCurrent, Open
<1>4. TableInv /\ KnownInv /\ StageInv
  BY <1>1 DEF Init, TableInv, Older, KnownInv, StageInv
<1> QED BY <1>2, <1>3, <1>4 DEF IndInv

(* public.users changes: time passes, ids are not taken twice, and a row   *)
(* is new, has been updated now, or was there and not updated since later. *)
LEMMA TableChanges ==
  ASSUME IndInv,
         now' = now + 1, now' \in Time, born' \in 0 .. MaxIds, born <= born',
         UNCHANGED <<history, stage, taken>>, users' \in Table,
         \A i \in DOMAIN users' :
           /\ i <= born' /\ users'[i].updated <= now'
           /\ \/ i > born
              \/ users'[i].updated = now'
              \/ i \in DOMAIN users /\ users[i].updated <= users'[i].updated
  PROVE  IndInv'
<1>1. now \in Nat /\ born \in Nat /\ born' \in Nat /\ now' \in Nat
  BY Constants DEF IndInv, TypeOK
<1>2. TypeOK'
  BY DEF IndInv, TypeOK
<1>3. VersionsFollow' /\ OpenIsCurrent'
  BY DEF IndInv, VersionsFollow, OpenIsCurrent, Open
<1>4. ASSUME NEW i \in DOMAIN users', i <= born, NEW k \in Nat, k <= now,
             i \in DOMAIN users => k <= users[i].updated
      PROVE  k <= users'[i].updated
  <2>1. i \in Nat /\ users'[i].updated \in Nat
    BY Rows_
  <2>2. CASE users'[i].updated = now'
    BY <1>1, <1>4, <2>2
  <2>3. CASE i \in DOMAIN users /\ users[i].updated <= users'[i].updated
    <3>1. users[i].updated \in Nat
      BY <2>3, Rows_ DEF IndInv, TypeOK
    <3> QED BY <1>4, <2>1, <2>3, <3>1
  <2>4. ~ (i > born)
    BY <1>1, <1>4, <2>1
  <2> QED BY <2>2, <2>3, <2>4
<1>5. ASSUME NEW t \in Table, Older(t)
      PROVE  \A i \in DOMAIN t :
               /\ i <= born' /\ t[i].updated <= now'
               /\ i \in DOMAIN users' => t[i].updated <= users'[i].updated
               /\ i \notin DOMAIN users' => t[i].updated < now'
  <2> SUFFICES ASSUME NEW i \in DOMAIN t
               PROVE  /\ i <= born' /\ t[i].updated <= now'
                      /\ i \in DOMAIN users' => t[i].updated <= users'[i].updated
                      /\ i \notin DOMAIN users' => t[i].updated < now'
    OBVIOUS
  <2>1. i \in Nat /\ t[i].updated \in Nat /\ i <= born /\ t[i].updated <= now
    BY <1>5, Rows_ DEF Older
  <2>2. t[i].updated <= now' /\ t[i].updated < now' /\ i <= born'
    BY <1>1, <2>1
  <2>3. i \in DOMAIN users => t[i].updated <= users[i].updated
    BY <1>5 DEF Older
  <2>4. i \in DOMAIN users' => t[i].updated <= users'[i].updated
    BY <1>4, <2>1, <2>3
  <2> QED BY <2>2, <2>4
<1>6. TableInv'
  <2>1. Older(taken)'
    BY <1>5 DEF IndInv, TypeOK, TableInv, Older
  <2>2. stage # None => Older(stage.read)'
    BY <1>5 DEF IndInv, TypeOK, TableInv, Older
  <2>3. Older(users)'
    <3> SUFFICES ASSUME NEW i \in DOMAIN users'
                 PROVE  users'[i].updated <= users'[i].updated
      BY DEF Older
    <3> QED BY Rows_
  <2> QED BY <2>1, <2>2, <2>3 DEF TableInv
<1>7. KnownInv'
  <2> SUFFICES ASSUME NEW h \in history
               PROVE  /\ h.id <= born'
                      /\ h.to # None =>
                           /\ h.to <= now'
                           /\ h.id \in DOMAIN users' => h.to <= users'[h.id].updated
    BY DEF KnownInv
  <2>1. h.id \in Nat /\ h.id <= born
    BY Versions DEF IndInv, TypeOK, KnownInv
  <2>2. ASSUME h.to # None
        PROVE  /\ h.to \in Nat /\ h.to <= now
               /\ h.id \in DOMAIN users => h.to <= users[h.id].updated
    BY <2>2, Versions DEF IndInv, TypeOK, KnownInv
  <2> QED BY <1>1, <1>4, <2>1, <2>2
<1>8. StageInv'
  <2> SUFFICES ASSUME stage # None PROVE StageInv'
    BY DEF StageInv
  <2>1. Open' = Open /\ stage' = stage /\ taken' = taken /\ history' = history
    BY DEF Open
  <2>2. PICK n \in Time : /\ stage.close = Ended(stage.read, n)
                          /\ stage.insert = Begun(stage.read)
                          /\ ReadAt(stage.read, n)
    BY DEF IndInv, StageInv
  <2>3. stage.close = Ended(stage.read, n)' /\ stage.insert = Begun(stage.read)'
    BY <2>1, <2>2 DEF Ended, Begun
  <2>4. n \in Nat /\ n <= now /\ n <= now'
    BY <1>1, <2>2, Constants DEF ReadAt
  <2>5. ASSUME NEW h \in Open, h.id \notin DOMAIN stage.read, h.id \in DOMAIN users'
        PROVE  n <= users'[h.id].updated
    <3>1. h \in history /\ h.id <= born
      BY DEF IndInv, KnownInv, Open
    <3>2. h.id \in DOMAIN users => n <= users[h.id].updated
      BY <2>2, <2>5 DEF ReadAt
    <3> QED BY <1>4, <2>4, <2>5, <3>1, <3>2
  <2>6. ReadAt(stage.read, n)'
    BY <2>1, <2>2, <2>4, <2>5 DEF ReadAt
  <2> HIDE DEF IndInv
  <2> QED BY <2>1, <2>2, <2>3, <2>6 DEF StageInv
<1> QED BY <1>2, <1>3, <1>6, <1>7, <1>8 DEF IndInv

LEMMA SeedStep == IndInv /\ Seed => IndInv'
<1> SUFFICES ASSUME IndInv, Seed PROVE IndInv'
  OBVIOUS
<1>1. /\ now < MaxTime /\ now' = now + 1
      /\ born' = born + Rows /\ born' <= MaxIds
      /\ UNCHANGED <<history, stage, taken>>
  BY DEF Seed, Take, Tick
<1>2. PICK f \in [NewIds -> 0 .. now] :
        users' = [i \in NewIds |-> [attr |-> Seeded, updated |-> f[i]]]
  BY DEF Seed
<1>3. now \in Nat /\ born \in Nat /\ now' \in Time /\ born' \in 0 .. MaxIds /\ born <= born'
  BY <1>1, Constants DEF IndInv, TypeOK, Time
<1>4. \A i \in NewIds : i \in Ids /\ i > born /\ i <= born'
  BY <1>1, <1>3, Constants DEF NewIds, Ids
<1>5. \A i \in NewIds : f[i] \in Time /\ f[i] <= now'
  BY <1>1, <1>3, Constants DEF Time
<1>6. DOMAIN users' = NewIds
  BY <1>2
<1>7. \A i \in NewIds : users'[i] = [attr |-> Seeded, updated |-> f[i]]
  BY <1>2
<1>8. users' \in Table
  <2>1. \A i \in NewIds : users'[i] \in User
    <3> SUFFICES ASSUME NEW i \in NewIds
                 PROVE  [attr |-> Seeded, updated |-> f[i]] \in User
      BY <1>7
    <3>1. f[i] \in Time /\ Seeded \in Attrs
      BY <1>5, Constants
    <3> QED BY <3>1 DEF User
  <2>2. users' = [i \in DOMAIN users' |-> users'[i]]
    BY <1>2
  <2> QED BY <1>4, <1>6, <2>1, <2>2, Tables
<1>9. \A i \in DOMAIN users' : i <= born' /\ users'[i].updated <= now' /\ i > born
  BY <1>4, <1>5, <1>6, <1>7
<1> QED BY <1>1, <1>3, <1>8, <1>9, TableChanges

LEMMA ChangeStep == IndInv /\ Change => IndInv'
<1> SUFFICES ASSUME IndInv, Change PROVE IndInv'
  OBVIOUS
<1>1. /\ now < MaxTime /\ now' = now + 1
      /\ UNCHANGED <<history, stage, taken>>
      /\ \/ \E i \in DOMAIN users : (Update(i) \/ Delete(i)) /\ born' = born
         \/ \E i \in (1 .. born + 1) \cap (Ids \ DOMAIN users) : Insert(i)
  BY DEF Change, Tick
<1>2. now \in Nat /\ born \in Nat /\ born <= MaxIds /\ now' \in Time /\ now' \in Nat
  BY <1>1, Constants DEF IndInv, TypeOK, Time
<1>3. users \in Table /\ Older(users)
  BY DEF IndInv, TypeOK, TableInv
<1>4. /\ users = [j \in DOMAIN users |-> users[j]] /\ DOMAIN users \subseteq Ids
      /\ \A j \in DOMAIN users : users[j] \in User
  BY <1>3, Tables
<1>5. \A j \in DOMAIN users :
        /\ j <= born /\ users[j].updated \in Nat /\ users[j].updated \in Time
        /\ users[j].updated <= now'
  <2> SUFFICES ASSUME NEW j \in DOMAIN users
               PROVE  /\ j <= born /\ users[j].updated \in Nat /\ users[j].updated \in Time
                      /\ users[j].updated <= now'
    OBVIOUS
  <2>1. users[j].updated \in Nat /\ users[j].updated \in Time
    BY <1>3, Rows_
  <2>2. j <= born /\ users[j].updated <= now
    BY <1>3 DEF Older
  <2> QED BY <1>1, <1>2, <2>1, <2>2
<1>6. ASSUME NEW i \in DOMAIN users, Delete(i), born' = born
      PROVE  IndInv'
  <2>1. DOMAIN users' = DOMAIN users \ {i} /\ \A j \in DOMAIN users' : users'[j] = users[j]
    BY <1>6 DEF Delete
  <2>2. users' = [j \in DOMAIN users' |-> users'[j]]
    BY <1>6 DEF Delete
  <2>3. users' \in Table
    BY <1>4, <2>1, <2>2, Tables
  <2>4. \A j \in DOMAIN users' :
          /\ j <= born' /\ users'[j].updated <= now'
          /\ j \in DOMAIN users /\ users[j].updated <= users'[j].updated
    BY <1>5, <1>6, <2>1
  <2>5. born' \in 0 .. MaxIds /\ born <= born'
    BY <1>2, <1>6, Constants
  <2> QED BY <1>1, <1>2, <2>3, <2>4, <2>5, TableChanges
<1>7. ASSUME NEW i \in DOMAIN users, Update(i), born' = born
      PROVE  IndInv'
  <2>0. PICK a \in Attrs, u \in {users[i].updated, now'} :
          users' = [users EXCEPT ![i] = [attr |-> a, updated |-> u]]
    BY <1>7 DEF Update
  <2>1. DOMAIN users' = DOMAIN users
    BY <2>0
  <2>2. \A j \in DOMAIN users :
          users'[j] = IF j = i THEN [attr |-> a, updated |-> u] ELSE users[j]
    BY <1>4, <2>0
  <2>3. u \in Time /\ u \in Nat /\ u <= now' /\ users[i].updated <= u
    BY <1>2, <1>5
  <2>4. users' \in Table
    <3>1. \A j \in DOMAIN users' : users'[j] \in User
      BY <1>4, <2>1, <2>2, <2>3 DEF User
    <3>2. users' = [j \in DOMAIN users' |-> users'[j]]
      BY <1>4, <2>0
    <3> QED BY <1>4, <2>1, <3>1, <3>2, Tables
  <2>5. ASSUME NEW j \in DOMAIN users'
        PROVE  /\ j <= born' /\ users'[j].updated <= now'
               /\ j \in DOMAIN users /\ users[j].updated <= users'[j].updated
    <3>1. CASE j = i
      BY <1>1, <1>5, <1>7, <2>1, <2>2, <2>3, <3>1
    <3>2. CASE j # i
      BY <1>1, <1>5, <1>7, <2>1, <2>2, <3>2
    <3> QED BY <3>1, <3>2
  <2>6. born' \in 0 .. MaxIds /\ born <= born'
    BY <1>2, <1>7, Constants
  <2> QED BY <1>1, <1>2, <2>4, <2>5, <2>6, TableChanges
<1>8. ASSUME NEW i \in (1 .. born + 1) \cap (Ids \ DOMAIN users), Insert(i)
      PROVE  IndInv'
  <2>0. PICK a \in Attrs :
          users' = [j \in DOMAIN users \cup {i} |->
                      IF j = i THEN [attr |-> a, updated |-> now'] ELSE users[j]]
    BY <1>8 DEF Insert
  <2>1. DOMAIN users' = DOMAIN users \cup {i}
    BY <2>0
  <2>2. /\ users'[i].updated = now' /\ users'[i] = [attr |-> a, updated |-> now']
        /\ \A j \in DOMAIN users : users'[j] = users[j]
    BY <1>8, <2>0
  <2>3. users' \in Table
    <3>1. \A j \in DOMAIN users' : users'[j] \in User
      BY <1>2, <1>4, <2>1, <2>2 DEF User
    <3>2. users' = [j \in DOMAIN users' |-> users'[j]]
      BY <2>0
    <3> QED BY <1>4, <2>1, <3>1, <3>2, Tables
  <2>4. i \in Nat /\ i <= MaxIds /\ born' = IF i > born THEN i ELSE born
    BY <1>8 DEF Insert, Ids
  <2>5. born' \in 0 .. MaxIds /\ born <= born' /\ i <= born'
    BY <1>2, <2>4, Constants
  <2>6. ASSUME NEW j \in DOMAIN users'
        PROVE  /\ j <= born' /\ users'[j].updated <= now'
               /\ \/ users'[j].updated = now'
                  \/ j \in DOMAIN users /\ users[j].updated <= users'[j].updated
    <3>1. CASE j = i
      BY <1>2, <2>2, <2>5, <3>1
    <3>2. CASE j # i
      <4>1. j \in DOMAIN users /\ users'[j] = users[j]
        BY <2>1, <2>2, <3>2
      <4>2. j \in Nat
        BY <1>3, <4>1, Rows_
      <4> QED BY <1>2, <1>5, <2>5, <4>1, <4>2
    <3> QED BY <3>1, <3>2
  <2> QED BY <1>1, <1>2, <2>3, <2>5, <2>6, TableChanges
<1> QED BY <1>1, <1>6, <1>7, <1>8

-----------------------------------------------------------------------------
(* Snapshots                                                               *)

(* An open version is that of a row of the table last taken.               *)
LEMMA OpenVersions ==
  ASSUME IndInv
  PROVE  /\ \A h \in Open : /\ h \in history /\ h \in Version /\ h.to = None
                            /\ h.id \in DOMAIN taken /\ h.from = taken[h.id].updated
         /\ \A i \in DOMAIN taken : \E h \in Open : h.id = i /\ h.from = taken[i].updated
         /\ \A g, h \in Open : g.id = h.id => g = h
<1>1. \A h \in Open : h \in history /\ h \in Version /\ h.to = None
  BY DEF IndInv, TypeOK, Open
<1>2. \A h \in Open : <<h.id, h.from>> \in {<<i, taken[i].updated>> : i \in DOMAIN taken}
  BY DEF IndInv, OpenIsCurrent
<1>3. \A i \in DOMAIN taken : <<i, taken[i].updated>> \in {<<h.id, h.from>> : h \in Open}
  BY DEF IndInv, OpenIsCurrent
<1>4. \A g, h \in Open : g.id = h.id => g = h
  BY <1>1 DEF IndInv, VersionsFollow
<1> QED BY <1>1, <1>2, <1>3, <1>4

(* What a snapshot stages of a table is made of versions.                  *)
LEMMA StagedVersions ==
  ASSUME IndInv, NEW t \in Table, NEW n \in Time
  PROVE  Ended(t, n) \subseteq Version /\ Begun(t) \subseteq Version
<1>1. \A h \in Open : h \in Version
  BY OpenVersions
<1>2. ASSUME NEW h \in Open, NEW k \in Time PROVE [h EXCEPT !.to = k] \in Version
  BY <1>1 DEF Version
<1>3. ASSUME NEW i \in DOMAIN t
      PROVE  /\ t[i].updated \in Time
             /\ [id |-> i, attr |-> t[i].attr, from |-> t[i].updated, to |-> None] \in Version
  BY Rows_ DEF Version
<1>4. Ended(t, n) \subseteq Version
  <2> SUFFICES ASSUME NEW c \in Ended(t, n) PROVE c \in Version
    OBVIOUS
  <2>1. \E h \in Open, k \in Time : c = [h EXCEPT !.to = k]
    <3>1. CASE c \in {[h EXCEPT !.to = n] : h \in {g \in Open : g.id \notin DOMAIN t}}
      BY <3>1
    <3>2. CASE c \in {[h EXCEPT !.to = t[h.id].updated] :
                     h \in {g \in Open : g.id \in DOMAIN t /\ g.from < t[g.id].updated}}
      <4>1. PICK h \in Open : h.id \in DOMAIN t /\ c = [h EXCEPT !.to = t[h.id].updated]
        BY <3>2
      <4>2. t[h.id].updated \in Time
        BY <1>3, <4>1
      <4> QED BY <4>1, <4>2
    <3> QED BY <3>1, <3>2 DEF Ended
  <2> QED BY <1>2, <2>1
<1>5. Begun(t) \subseteq Version
  BY <1>3 DEF Begun
<1> QED BY <1>4, <1>5

LEMMA StageStep == IndInv /\ Stage => IndInv'
<1> SUFFICES ASSUME IndInv, Stage PROVE IndInv'
  OBVIOUS
<1>1. /\ stage' = [close |-> Updated \cup Deleted, insert |-> Inserted, read |-> users]
      /\ UNCHANGED <<now, born, users, history, taken>>
  BY DEF Stage
<1>2. Updated \cup Deleted = Ended(users, now) /\ Inserted = Begun(users)
  BY DEF Updated, Deleted, Inserted, Ended, Begun
<1>3. users \in Table /\ now \in Time
  BY DEF IndInv, TypeOK
<1>4. stage'.close = Ended(users, now) /\ stage'.insert = Begun(users) /\ stage'.read = users
  BY <1>1, <1>2
<1>5. Ended(users, now) \subseteq Version /\ Begun(users) \subseteq Version
  BY <1>3, StagedVersions
<1>6. TypeOK'
  BY <1>1, <1>3, <1>4, <1>5 DEF IndInv, TypeOK
<1>7. VersionsFollow' /\ OpenIsCurrent' /\ KnownInv'
  BY <1>1 DEF IndInv, VersionsFollow, OpenIsCurrent, KnownInv, Open
<1>8. TableInv'
  BY <1>1, <1>4 DEF IndInv, TableInv, Older
<1>9. StageInv'
  <2>1. Open' = Open /\ now' = now
    BY <1>1 DEF Open
  <2>2. stage'.insert = Begun(stage.read)' /\ stage'.close = Ended(stage.read, now)'
    BY <1>1, <1>4, <2>1 DEF Begun, Ended
  <2>3. now <= now /\ \A i \in DOMAIN users :
                         i \in DOMAIN taken => taken[i].updated <= users[i].updated
    BY <1>3, Constants DEF IndInv, TableInv, Older
  <2>4. \A h \in history : h.id \in DOMAIN users /\ h.to # None => h.to <= users[h.id].updated
    BY DEF IndInv, KnownInv
  <2>5. \A h \in Open : h.id \notin DOMAIN users => h.from < now
    BY OpenVersions DEF IndInv, TableInv, Older
  <2>6. ReadAt(stage.read, now)'
    BY <1>1, <1>4, <2>1, <2>3, <2>4, <2>5 DEF ReadAt
  <2> QED BY <1>3, <2>1, <2>2, <2>6 DEF StageInv
<1> QED BY <1>6, <1>7, <1>8, <1>9 DEF IndInv

LEMMA AbortStep == IndInv /\ Abort => IndInv'
<1> SUFFICES ASSUME IndInv, Abort PROVE IndInv'
  OBVIOUS
<1>1. stage' = None /\ UNCHANGED <<now, born, users, history, taken>>
  BY DEF Abort
<1>2. TypeOK' /\ VersionsFollow' /\ OpenIsCurrent'
  BY <1>1 DEF IndInv, TypeOK, VersionsFollow, OpenIsCurrent, Open
<1>3. TableInv' /\ KnownInv' /\ StageInv'
  BY <1>1 DEF IndInv, TableInv, Older, KnownInv, StageInv
<1> QED BY <1>2, <1>3 DEF IndInv

-----------------------------------------------------------------------------
(* The merge                                                               *)

(* Versions of the history after the merge of what was read in t at n:     *)
(* those that had ended, those that stay open, those that end, and those   *)
(* that begin.                                                             *)
Past == {h \in history : h.to # None}
Kept(t) == {h \in Open : h.id \in DOMAIN t /\ ~ (h.from < t[h.id].updated)}

LEMMA MergeEffect ==
  ASSUME IndInv, NEW t \in Table, NEW n \in Time,
         history' = {h \in history : \A c \in Ended(t, n) : <<c.id, c.from>> # <<h.id, h.from>>}
                      \cup Ended(t, n) \cup Begun(t)
  PROVE  history' = Past \cup Kept(t) \cup Ended(t, n) \cup Begun(t)
<1>1. \A h \in history : h \in Version
  BY DEF IndInv, TypeOK
<1>2. \A g, h \in history : <<g.id, g.from>> = <<h.id, h.from>> => g = h
  <2> SUFFICES ASSUME NEW g \in history, NEW h \in history, g.id = h.id, g.from = h.from, g # h
               PROVE  FALSE
    OBVIOUS
  <2>1. \/ g.to # None /\ g.to <= h.from
        \/ h.to # None /\ h.to <= g.from
    BY DEF IndInv, VersionsFollow
  <2>2. (g.to # None => g.from < g.to /\ g.to \in Nat) /\ (h.to # None => h.from < h.to /\ h.to \in Nat)
    BY <1>1, Versions DEF IndInv, TypeOK
  <2>3. g.from \in Nat /\ h.from \in Nat
    BY <1>1, Versions
  <2> QED BY <2>1, <2>2, <2>3
<1>3. \A h \in Open : h \in history /\ h \in Version /\ h.to = None
  BY OpenVersions
<1>4. ASSUME NEW c \in Ended(t, n)
      PROVE  \E g \in Open : /\ c.id = g.id /\ c.from = g.from
                             /\ g.id \in DOMAIN t => g.from < t[g.id].updated
  BY <1>3 DEF Ended, Version
<1>5. ASSUME NEW g \in Open, g.id \in DOMAIN t => g.from < t[g.id].updated
      PROVE  \E c \in Ended(t, n) : c.id = g.id /\ c.from = g.from
  <2>1. CASE g.id \in DOMAIN t
    <3>1. [g EXCEPT !.to = t[g.id].updated] \in Ended(t, n)
      BY <1>5, <2>1 DEF Ended
    <3> QED BY <1>3, <3>1, Versions
  <2>2. CASE g.id \notin DOMAIN t
    <3>1. [g EXCEPT !.to = n] \in Ended(t, n)
      BY <2>2 DEF Ended
    <3> QED BY <1>3, <3>1, Versions
  <2> QED BY <2>1, <2>2
<1>6. ASSUME NEW h \in history
      PROVE  (\A c \in Ended(t, n) : <<c.id, c.from>> # <<h.id, h.from>>)
                <=> h \in Past \cup Kept(t)
  <2>1. h \in Open <=> h.to = None
    BY DEF Open
  <2>2. ASSUME h \in Past, NEW c \in Ended(t, n) PROVE <<c.id, c.from>> # <<h.id, h.from>>
    <3>1. PICK g \in Open : c.id = g.id /\ c.from = g.from
      BY <1>4
    <3> QED BY <1>2, <1>3, <2>2, <3>1 DEF Past
  <2>3. ASSUME h \in Kept(t), NEW c \in Ended(t, n) PROVE <<c.id, c.from>> # <<h.id, h.from>>
    <3>1. PICK g \in Open : /\ c.id = g.id /\ c.from = g.from
                            /\ g.id \in DOMAIN t => g.from < t[g.id].updated
      BY <1>4
    <3> QED BY <1>2, <1>3, <2>3, <3>1 DEF Kept
  <2>4. ASSUME h \notin Past, h \notin Kept(t)
        PROVE  \E c \in Ended(t, n) : <<c.id, c.from>> = <<h.id, h.from>>
    <3>1. h \in Open /\ (h.id \in DOMAIN t => h.from < t[h.id].updated)
      BY <2>1, <2>4 DEF Past, Kept
    <3> QED BY <1>5, <3>1
  <2> QED BY <2>2, <2>3, <2>4
<1>7. Past \subseteq history /\ Kept(t) \subseteq history
  BY <1>3 DEF Past, Kept
<1> QED BY <1>6, <1>7

(* What a version kept, ended or begun has to do with t and the one it     *)
(* comes from.                                                             *)
LEMMA MergedVersions ==
  ASSUME IndInv, NEW t \in Table, NEW n \in Time,
         ReadAt(t, n)
  PROVE  /\ \A h \in Kept(t) : h \in Open /\ h.id \in DOMAIN t /\ h.from = t[h.id].updated
         /\ \A c \in Ended(t, n) :
              \E g \in Open :
                /\ c = [id |-> g.id, attr |-> g.attr, from |-> g.from, to |-> c.to]
                /\ c.to \in Time /\ g.from < c.to
                /\ c.to = IF g.id \in DOMAIN t THEN t[g.id].updated ELSE n
         /\ \A b \in Begun(t) :
              /\ b.id \in DOMAIN t /\ b.to = None
              /\ b = [id |-> b.id, attr |-> t[b.id].attr, from |-> t[b.id].updated, to |-> None]
              /\ \A g \in Open : g.id = b.id => g.from < b.from
<1>1. \A h \in Open : /\ h \in Version /\ h.from \in Nat
                      /\ h.id \in DOMAIN taken /\ h.from = taken[h.id].updated
  BY OpenVersions, Versions
<1>2. \A i \in DOMAIN t : t[i].updated \in Nat /\ t[i].updated \in Time
  BY Rows_
<1>3. ASSUME NEW h \in Kept(t)
      PROVE  h \in Open /\ h.id \in DOMAIN t /\ h.from = t[h.id].updated
  <2>1. h \in Open /\ h.id \in DOMAIN t /\ ~ (h.from < t[h.id].updated)
    BY DEF Kept
  <2>2. h.from <= t[h.id].updated /\ h.from \in Nat /\ t[h.id].updated \in Nat
    BY <1>1, <1>2, <2>1 DEF ReadAt
  <2> QED BY <2>1, <2>2
<1>4. ASSUME NEW c \in Ended(t, n)
      PROVE  \E g \in Open :
               /\ c = [id |-> g.id, attr |-> g.attr, from |-> g.from, to |-> c.to]
               /\ c.to \in Time /\ g.from < c.to
               /\ c.to = IF g.id \in DOMAIN t THEN t[g.id].updated ELSE n
  <2>1. CASE c \in {[h EXCEPT !.to = n] : h \in {g \in Open : g.id \notin DOMAIN t}}
    <3>1. PICK g \in Open : g.id \notin DOMAIN t /\ c = [g EXCEPT !.to = n]
      BY <2>1
    <3>2. c = [id |-> g.id, attr |-> g.attr, from |-> g.from, to |-> n]
      BY <1>1, <3>1, Versions
    <3>3. g.from < n
      BY <3>1 DEF ReadAt
    <3> QED BY <3>1, <3>2, <3>3
  <2>2. CASE c \in {[h EXCEPT !.to = t[h.id].updated] :
                      h \in {g \in Open : g.id \in DOMAIN t /\ g.from < t[g.id].updated}}
    <3>1. PICK g \in Open : /\ g.id \in DOMAIN t /\ g.from < t[g.id].updated
                            /\ c = [g EXCEPT !.to = t[g.id].updated]
      BY <2>2
    <3>2. c = [id |-> g.id, attr |-> g.attr, from |-> g.from, to |-> t[g.id].updated]
      BY <1>1, <3>1, Versions
    <3>3. t[g.id].updated \in Time
      BY <1>2, <3>1
    <3> QED BY <3>1, <3>2, <3>3
  <2> QED BY <2>1, <2>2 DEF Ended
<1>5. ASSUME NEW b \in Begun(t)
      PROVE  /\ b.id \in DOMAIN t /\ b.to = None
             /\ b = [id |-> b.id, attr |-> t[b.id].attr, from |-> t[b.id].updated, to |-> None]
             /\ \A g \in Open : g.id = b.id => g.from < b.from
  <2>1. PICK i \in DOMAIN t :
          /\ b = [id |-> i, attr |-> t[i].attr, from |-> t[i].updated, to |-> None]
          /\ \/ \A h \in Open : h.id # i
             \/ \E h \in Open : h.id = i /\ h.from < t[i].updated
    BY DEF Begun
  <2>2. b.id = i /\ b.from = t[i].updated /\ b.to = None
    BY <2>1
  <2>3. \A g, h \in Open : g.id = h.id => g = h
    BY OpenVersions
  <2> QED BY <2>1, <2>2, <2>3
<1> QED BY <1>3, <1>4, <1>5

(* Each version after the merge is one of the history, ended perhaps, or   *)
(* the first open one of a row.                                            *)
LEMMA MergedFollow ==
  ASSUME IndInv, NEW t \in Table, NEW n \in Time,
         ReadAt(t, n),
         NEW g \in Past \cup Kept(t) \cup Ended(t, n) \cup Begun(t),
         NEW h \in Past \cup Kept(t) \cup Ended(t, n) \cup Begun(t),
         g.id = h.id, g # h
  PROVE  \/ g.to # None /\ g.to <= h.from
         \/ h.to # None /\ h.to <= g.from
<1> DEFINE Old == Past \cup Kept(t) \cup Ended(t, n)
           Origin(e, o) ==
             /\ o \in history /\ o.id = e.id /\ o.from = e.from
             /\ \/ e \in Past /\ o = e
                \/ e \in Kept(t) /\ o = e /\ o \in Open
                   /\ o.id \in DOMAIN t /\ o.from = t[o.id].updated
                \/ /\ o \in Open /\ e.to \in Time /\ o.from < e.to
                   /\ e = [id |-> o.id, attr |-> o.attr, from |-> o.from, to |-> e.to]
                   /\ e.to = IF o.id \in DOMAIN t THEN t[o.id].updated ELSE n
<1>1. /\ \A k \in Kept(t) : k \in Open /\ k.id \in DOMAIN t /\ k.from = t[k.id].updated
      /\ \A c \in Ended(t, n) :
           \E o \in Open :
             /\ c = [id |-> o.id, attr |-> o.attr, from |-> o.from, to |-> c.to]
             /\ c.to \in Time /\ o.from < c.to
             /\ c.to = IF o.id \in DOMAIN t THEN t[o.id].updated ELSE n
      /\ \A b \in Begun(t) :
           /\ b.id \in DOMAIN t /\ b.to = None
           /\ b = [id |-> b.id, attr |-> t[b.id].attr, from |-> t[b.id].updated, to |-> None]
           /\ \A o \in Open : o.id = b.id => o.from < b.from
  BY MergedVersions
<1>2. /\ \A o \in Open : /\ o \in history /\ o \in Version /\ o.to = None
                         /\ o.id \in DOMAIN taken /\ o.from = taken[o.id].updated
      /\ \A i \in DOMAIN taken : \E o \in Open : o.id = i /\ o.from = taken[i].updated
      /\ \A o, q \in Open : o.id = q.id => o = q
  BY OpenVersions
<1>3. ASSUME NEW e \in Old
      PROVE  \E o : Origin(e, o)
  <2>1. CASE e \in Past
    <3>1. Origin(e, e)
      BY <2>1 DEF Past
    <3> QED BY <3>1
  <2>2. CASE e \in Kept(t)
    <3>1. Origin(e, e)
      BY <1>1, <1>2, <2>2
    <3> QED BY <3>1
  <2>3. CASE e \in Ended(t, n)
    <3>1. PICK o \in Open :
            /\ e = [id |-> o.id, attr |-> o.attr, from |-> o.from, to |-> e.to]
            /\ e.to \in Time /\ o.from < e.to
            /\ e.to = IF o.id \in DOMAIN t THEN t[o.id].updated ELSE n
      BY <1>1, <2>3
    <3>2. o \in history /\ o.id = e.id /\ o.from = e.from
      BY <1>2, <3>1
    <3>3. Origin(e, o)
      BY <3>1, <3>2
    <3> QED BY <3>3
  <2> QED BY <2>1, <2>2, <2>3
<1>4. ASSUME NEW e \in Old, NEW o, Origin(e, o), o.to # None
      PROVE  e = o
  BY <1>2, <1>4
<1>5. ASSUME NEW o \in history
      PROVE  o.from \in Nat /\ o.from \in Time
  BY Versions DEF IndInv, TypeOK
<1>6. ASSUME NEW e \in Old, NEW f \in Old, e.id = f.id, e # f
      PROVE  \/ e.to # None /\ e.to <= f.from
             \/ f.to # None /\ f.to <= e.from
  <2>1. PICK o : Origin(e, o)
    BY <1>3
  <2>2. PICK q : Origin(f, q)
    BY <1>3
  <2>3. CASE o # q
    <3>1. \/ o.to # None /\ o.to <= q.from
          \/ q.to # None /\ q.to <= o.from
      BY <1>6, <2>1, <2>2, <2>3 DEF IndInv, VersionsFollow
    <3>2. CASE o.to # None /\ o.to <= q.from
      BY <1>4, <2>1, <2>2, <3>2
    <3>3. CASE q.to # None /\ q.to <= o.from
      BY <1>4, <2>1, <2>2, <3>3
    <3> QED BY <3>1, <3>2, <3>3
  <2>4. CASE o = q
    <3>1. CASE o.to # None
      BY <1>4, <1>6, <2>1, <2>2, <2>4, <3>1
    <3>2. CASE o.to = None
      <4>1. e \notin Past \/ o # e
        BY <3>2 DEF Past
      <4>2. f \notin Past \/ o # f
        BY <3>2 DEF Past
      <4>3. o.from \in Nat
        BY <1>5, <2>1
      <4>4. ~ (o.id \in DOMAIN t /\ o.from = t[o.id].updated /\ o.from < t[o.id].updated)
        BY <4>3
      <4> QED BY <1>6, <2>1, <2>2, <2>4, <4>1, <4>2, <4>4
    <3> QED BY <3>1, <3>2
  <2> QED BY <2>3, <2>4
<1>7. ASSUME NEW e \in Old, NEW b \in Begun(t), e.id = b.id
      PROVE  e.to # None /\ e.to <= b.from
  <2>1. PICK o : Origin(e, o)
    BY <1>3
  <2>2. b.id \in DOMAIN t /\ b.from = t[b.id].updated
        /\ \A q \in Open : q.id = b.id => q.from < b.from
    BY <1>1
  <2>4. b.from \in Nat /\ b.from \in Time
    BY <2>2, Rows_
  <2>5. CASE o.to # None
    <3>1. o.to <= t[b.id].updated
      BY <1>7, <2>1, <2>2, <2>5 DEF ReadAt
    <3>2. e = o
      BY <1>4, <2>1, <2>5
    <3> QED BY <2>2, <2>5, <3>1, <3>2
  <2>6. CASE o.to = None
    <3>1. o \in Open
      BY <2>1, <2>6 DEF Open
    <3>2. o.from < b.from
      BY <1>7, <2>1, <2>2, <3>1
    <3>3. e.to = t[o.id].updated /\ e.to \in Time
      BY <1>5, <1>7, <2>1, <2>2, <2>4, <2>6, <3>2 DEF Past
    <3> QED BY <1>7, <2>1, <2>2, <2>4, <3>3, Constants
  <2> QED BY <2>5, <2>6
<1>8. ASSUME NEW b \in Begun(t), NEW c \in Begun(t), b.id = c.id
      PROVE  b = c
  BY <1>1, <1>8
<1> HIDE DEF Old
<1>9. g \in Old \cup Begun(t) /\ h \in Old \cup Begun(t)
  BY DEF Old
<1> QED BY <1>6, <1>7, <1>8, <1>9

(* What has been merged from the table that the snapshot has read.         *)
LEMMA Merged ==
  ASSUME IndInv, Merge
  PROVE  \E t \in Table, n \in Time :
           /\ t = stage.read /\ taken' = t /\ stage' = None
           /\ UNCHANGED <<now, born, users>>
           /\ ReadAt(t, n)
           /\ history' = Past \cup Kept(t) \cup Ended(t, n) \cup Begun(t)
<1> DEFINE t == stage.read
<1>1. /\ stage # None /\ stage' = None /\ taken' = t
      /\ UNCHANGED <<now, born, users>>
      /\ history' = {h \in history : \A c \in stage.close : <<c.id, c.from>> # <<h.id, h.from>>}
                       \cup stage.close \cup stage.insert
  BY DEF Merge
<1>2. t \in Table
  BY <1>1 DEF IndInv, TypeOK
<1>3. PICK n \in Time : /\ stage.close = Ended(t, n) /\ stage.insert = Begun(t)
                        /\ ReadAt(t, n)
  BY <1>1 DEF IndInv, StageInv
<1>5. history' = {h \in history : \A c \in Ended(t, n) : <<c.id, c.from>> # <<h.id, h.from>>}
                   \cup Ended(t, n) \cup Begun(t)
  BY <1>1, <1>3
<1> HIDE DEF t
<1>6. history' = Past \cup Kept(t) \cup Ended(t, n) \cup Begun(t)
  BY <1>2, <1>5, MergeEffect
<1>7. t = stage.read
  BY DEF t
<1> QED BY <1>1, <1>2, <1>3, <1>6, <1>7

LEMMA MergeStep == IndInv /\ Merge => IndInv'
<1> SUFFICES ASSUME IndInv, Merge PROVE IndInv'
  OBVIOUS
<1>1. PICK t \in Table, n \in Time :
        /\ t = stage.read /\ taken' = t /\ stage' = None
        /\ UNCHANGED <<now, born, users>>
        /\ ReadAt(t, n)
        /\ history' = Past \cup Kept(t) \cup Ended(t, n) \cup Begun(t)
  BY Merged
<1>2. /\ \A k \in Kept(t) : k \in Open /\ k.id \in DOMAIN t /\ k.from = t[k.id].updated
      /\ \A c \in Ended(t, n) :
           \E g \in Open :
             /\ c = [id |-> g.id, attr |-> g.attr, from |-> g.from, to |-> c.to]
             /\ c.to \in Time /\ g.from < c.to
             /\ c.to = IF g.id \in DOMAIN t THEN t[g.id].updated ELSE n
      /\ \A b \in Begun(t) :
           /\ b.id \in DOMAIN t /\ b.to = None
           /\ b = [id |-> b.id, attr |-> t[b.id].attr, from |-> t[b.id].updated, to |-> None]
           /\ \A g \in Open : g.id = b.id => g.from < b.from
  BY <1>1, MergedVersions
<1>3. /\ \A h \in Open : /\ h \in history /\ h \in Version /\ h.to = None
                         /\ h.id \in DOMAIN taken /\ h.from = taken[h.id].updated
      /\ \A i \in DOMAIN taken : \E h \in Open : h.id = i /\ h.from = taken[i].updated
      /\ \A g, h \in Open : g.id = h.id => g = h
  BY OpenVersions
<1>4. \A c \in Ended(t, n) : c.to # None /\ c.from < c.to /\ \E g \in Open : c.id = g.id
  BY <1>2, Constants
<1>5. TypeOK'
  <2>1. history' \subseteq Version
    BY <1>1, <1>3, StagedVersions DEF IndInv, TypeOK, Past, Kept
  <2>2. \A h \in history' : h.to # None => h.from < h.to
    BY <1>1, <1>2, <1>3, <1>4 DEF IndInv, TypeOK, Past
  <2> QED BY <1>1, <2>1, <2>2 DEF IndInv, TypeOK
<1>6. VersionsFollow'
  <2> SUFFICES ASSUME NEW g \in history', NEW h \in history', g.id = h.id, g # h
               PROVE  \/ g.to # None /\ g.to <= h.from
                      \/ h.to # None /\ h.to <= g.from
    BY DEF VersionsFollow
  <2> QED BY <1>1, MergedFollow
<1>7. Open' = Kept(t) \cup Begun(t)
  BY <1>1, <1>2, <1>3, <1>4 DEF Open, Past
<1>8. OpenIsCurrent'
  <2>1. ASSUME NEW h \in Open' PROVE h.id \in DOMAIN t /\ h.from = t[h.id].updated
    BY <1>2, <1>7
  <2>2. ASSUME NEW i \in DOMAIN t PROVE \E h \in Open' : h.id = i /\ h.from = t[i].updated
    <3>1. CASE \E h \in Kept(t) : h.id = i
      BY <1>2, <1>7, <3>1
    <3>2. CASE ~ \E h \in Kept(t) : h.id = i
      <4>1. \A h \in Open : h.id = i => h.from < t[i].updated
        BY <3>2 DEF Kept
      <4>2. [id |-> i, attr |-> t[i].attr, from |-> t[i].updated, to |-> None] \in Begun(t)
        BY <4>1 DEF Begun
      <4> QED BY <1>7, <4>2
    <3> QED BY <3>1, <3>2
  <2>3. taken' = t
    BY <1>1
  <2> QED BY <2>1, <2>2, <2>3 DEF OpenIsCurrent
<1>9. TableInv'
  <2>1. stage # None
    BY DEF Merge
  <2> QED BY <1>1, <2>1 DEF IndInv, TableInv, Older
<1>10. KnownInv'
  <2>1. /\ Older(t) /\ now \in Nat /\ n \in Nat /\ n <= now
        /\ \A i \in DOMAIN t : t[i].updated \in Nat
    <3>1. stage # None
      BY DEF Merge
    <3> QED BY <1>1, <3>1, Rows_, Constants DEF IndInv, TypeOK, TableInv, ReadAt
  <2> SUFFICES ASSUME NEW h \in history'
               PROVE  /\ h.id <= born
                      /\ h.to # None =>
                           /\ h.to <= now
                           /\ h.id \in DOMAIN users => h.to <= users[h.id].updated
    BY <1>1 DEF KnownInv
  <2>2. CASE h \in history
    BY <2>2 DEF IndInv, KnownInv
  <2>3. CASE h \in Ended(t, n)
    <3>1. PICK g \in Open : /\ h.id = g.id
                            /\ h.to = IF g.id \in DOMAIN t THEN t[g.id].updated ELSE n
      BY <1>2, <2>3
    <3>2. g \in history /\ g.id <= born
      BY <1>3 DEF IndInv, KnownInv
    <3>3. CASE g.id \in DOMAIN t
      BY <2>1, <3>1, <3>2, <3>3 DEF Older
    <3>4. CASE g.id \notin DOMAIN t
      BY <1>1, <2>1, <3>1, <3>2, <3>4 DEF ReadAt
    <3> QED BY <3>3, <3>4
  <2>4. CASE h \in Begun(t)
    BY <1>2, <2>1, <2>4 DEF Older
  <2>5. Past \subseteq history /\ Kept(t) \subseteq history
    BY <1>3 DEF Past, Kept
  <2> QED BY <1>1, <2>2, <2>3, <2>4, <2>5
<1>11. StageInv'
  BY <1>1 DEF StageInv
<1> QED BY <1>5, <1>6, <1>8, <1>9, <1>10, <1>11 DEF IndInv

-----------------------------------------------------------------------------
(* Theorems                                                                *)

(* However often users are changed, deleted and seeded again while         *)
(* snapshots run and fail, the invariant above holds.                      *)
THEOREM Invariant == Spec => []IndInv
<1>1. IndInv /\ [Next]_vars => IndInv'
  <2> SUFFICES ASSUME IndInv, [Next]_vars PROVE IndInv'
    OBVIOUS
  <2>1. CASE UNCHANGED vars
    <3>1. /\ now' = now /\ born' = born /\ users' = users /\ history' = history
          /\ stage' = stage /\ taken' = taken /\ Open' = Open
      BY <2>1 DEF vars, Open
    <3>2. TypeOK' /\ VersionsFollow' /\ OpenIsCurrent' /\ TableInv' /\ KnownInv'
      BY <3>1 DEF IndInv, TypeOK, VersionsFollow, OpenIsCurrent, TableInv, Older, KnownInv
    <3>3. StageInv'
      BY <3>1 DEF IndInv, StageInv, ReadAt, Begun, Ended
    <3> QED BY <3>2, <3>3 DEF IndInv
  <2> QED BY <2>1, SeedStep, ChangeStep, StageStep, MergeStep, AbortStep DEF Next
<1> QED BY <1>1, InitInv, PTL DEF Spec

(* The variables keep their types and no version is empty, though a merge  *)
(* ends versions by a table read some time before (snp_users).             *)
THEOREM TypeCorrect == Spec => []TypeOK
<1>1. IndInv => TypeOK
  BY DEF IndInv
<1> QED BY <1>1, Invariant, PTL

(* The versions of a user never overlap and at most one of them is open,   *)
(* for a table of any size and any changes to it (snp_users).              *)
THEOREM HistoryFollows == Spec => []VersionsFollow
<1>1. IndInv => VersionsFollow
  BY DEF IndInv
<1> QED BY <1>1, Invariant, PTL

(* The open versions are those of the table that the last snapshot has     *)
(* read: a deleted row is closed, a new one opened (snp_users).            *)
THEOREM OpenVersionsAreCurrent == Spec => []OpenIsCurrent
<1>1. IndInv => OpenIsCurrent
  BY DEF IndInv
<1> QED BY <1>1, Invariant, PTL

(* A merge never rewrites a version that has ended, and changes nothing of *)
(* an open one but its end (snp_users).                                    *)
THEOREM HistoryIsKept == Spec => HistoryStays
<1>1. IndInv /\ [Next]_vars =>
        [\A h \in history : \E g \in history' :
           /\ <<g.id, g.attr, g.from>> = <<h.id, h.attr, h.from>>
           /\ h.to # None => g.to = h.to]_vars
  <2> SUFFICES ASSUME IndInv, Next, NEW h \in history
               PROVE  \E g \in history' :
                        /\ <<g.id, g.attr, g.from>> = <<h.id, h.attr, h.from>>
                        /\ h.to # None => g.to = h.to
    OBVIOUS
  <2>1. CASE history' = history
    BY <2>1
  <2>2. CASE Merge
    <3>1. PICK t \in Table, n \in Time :
            history' = Past \cup Kept(t) \cup Ended(t, n) \cup Begun(t)
      BY <2>2, Merged
    <3>2. CASE h \in Past \cup Kept(t)
      BY <3>1, <3>2
    <3>3. CASE h \notin Past \cup Kept(t)
      <4>1. h \in Open /\ h \in Version /\ (h.id \in DOMAIN t => h.from < t[h.id].updated)
        BY <3>3 DEF IndInv, TypeOK, Past, Kept, Open
      <4>2. \E k : [h EXCEPT !.to = k] \in Ended(t, n)
        BY <4>1 DEF Ended
      <4>3. h.to = None
        BY <4>1 DEF Open
      <4> QED BY <3>1, <4>1, <4>2, <4>3, Versions
    <3> QED BY <3>2, <3>3
  <2> QED BY <2>1, <2>2 DEF Next, Seed, Change, Stage, Abort
<1> QED BY <1>1, Invariant, PTL DEF Spec, HistoryStays
=============================================================================
