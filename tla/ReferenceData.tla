--------------------------- MODULE ReferenceData ---------------------------
(***************************************************************************)
(* The reference table public.users: seed_reference.py fills it, operators *)
(* change it ("then mutable"), and dbt snapshot keeps the history          *)
(* snapshots.snp_users of it.                                              *)
(* public.merchants and snp_merchants are the same with other columns.     *)
(*                                                                         *)
(* ProfileFactory takes ids from uuid4, which no seed determines and which *)
(* never repeats: born counts the ids taken so far.  All other columns of  *)
(* a row are one value, attr.                                              *)
(***************************************************************************)
EXTENDS Integers, FiniteSets

CONSTANTS
  Rows,         \* NUM_USERS
  Attrs,        \* the other columns of a user
  Seeded,       \* those that SEED gives a new user
  MaxTime,      \* bound: changes of the reference table
  MaxIds,       \* bound: ids taken from uuid4
  None

VARIABLES
  now, born,
  users,        \* public.users: id |-> [attr, updated]
  history,      \* snapshots.snp_users
  stage,        \* what a running snapshot has staged
  taken         \* users, as the last complete snapshot has read it

vars == <<now, born, users, history, stage, taken>>

Ids     == 1 .. MaxIds
Time    == 0 .. MaxTime
User    == [attr : Attrs, updated : Time]
Version == [id : Ids, attr : Attrs, from : Time, to : Time \cup {None}]
Table   == UNION {[S -> User] : S \in SUBSET Ids}
Stages  == [close : SUBSET Version, insert : SUBSET Version, read : Table]

ASSUME ReferenceAssumption ==
  /\ Rows \in Nat \ {0} /\ MaxTime \in Nat /\ MaxIds \in Nat
  /\ Seeded \in Attrs /\ None \notin Time \cup Ids \cup Stages

Empty == [i \in {} |-> Seeded]

(* No version is empty: it begins before it ends.                          *)
TypeOK ==
  /\ now \in Time /\ born \in 0 .. MaxIds
  /\ users \in Table /\ taken \in Table
  /\ history \subseteq Version
  /\ stage = None \/ (/\ stage.close \subseteq Version
                      /\ stage.insert \subseteq Version /\ stage.read \in Table)
  /\ \A h \in history : h.to # None => h.from < h.to

Init ==
  /\ now = 0 /\ born = 0 /\ users = Empty /\ taken = Empty
  /\ history = {} /\ stage = None

-----------------------------------------------------------------------------
(* public.users                                                            *)

(* make_users: Rows new ids.                                               *)
NewIds == born + 1 .. born + Rows

Take == born' = born + Rows /\ born' <= MaxIds

Tick == now < MaxTime /\ now' = now + 1

(* TRUNCATE and the INSERTs are one transaction.  Accounts were created    *)
(* some days ago, and not updated since.                                   *)
Seed ==
  /\ Take /\ Tick
  /\ \E f \in [NewIds -> 0 .. now] :
       users' = [i \in NewIds |-> [attr |-> Seeded, updated |-> f[i]]]
  /\ UNCHANGED <<history, stage, taken>>

(* An operator changes a row, and may or may not set updated_at, which     *)
(* nothing in the schema does for him; deletes it; or inserts one, of a    *)
(* new id or one deleted before, and leaves updated_at to its default.     *)
Update(i) ==
  \E a \in Attrs, u \in {users[i].updated, now'} :
    users' = [users EXCEPT ![i] = [attr |-> a, updated |-> u]]

Delete(i) == users' = [j \in DOMAIN users \ {i} |-> users[j]]

Insert(i) ==
  /\ born' = IF i > born THEN i ELSE born
  /\ \E a \in Attrs :
       users' = [j \in DOMAIN users \cup {i} |->
                   IF j = i THEN [attr |-> a, updated |-> now'] ELSE users[j]]

Change ==
  /\ Tick
  /\ \/ \E i \in DOMAIN users : (Update(i) \/ Delete(i)) /\ born' = born
     \/ \E i \in (1 .. born + 1) \cap (Ids \ DOMAIN users) : Insert(i)
  /\ UNCHANGED <<history, stage, taken>>

-----------------------------------------------------------------------------
(* snp_users: strategy timestamp on updated_at, unique_key user_id         *)

Open == {h \in history : h.to = None}

(* Mutant: a new version does not end the one before.                      *)
NotUpdated == {}

(* Versions that a newer updated_at ends.                                  *)
Updated ==
  {[h EXCEPT !.to = users[h.id].updated] :
     h \in {g \in Open : g.id \in DOMAIN users /\ g.from < users[g.id].updated}}

(* Mutant: invalidate_hard_deletes is left out.                            *)
NotDeleted == {}

(* Mutant: a deleted row was valid at no time.                             *)
DeletedAtOnce == {[h EXCEPT !.to = h.from] : h \in {g \in Open : g.id \notin DOMAIN users}}

(* Mutant: versions that ended before end again.                           *)
DeletedAgain == {[h EXCEPT !.to = now] : h \in {g \in history : g.id \notin DOMAIN users}}

(* invalidate_hard_deletes: those whose row is gone end now.               *)
Deleted == {[h EXCEPT !.to = now] : h \in {g \in Open : g.id \notin DOMAIN users}}

Inserted ==
  {[id |-> i, attr |-> users[i].attr, from |-> users[i].updated, to |-> None] :
     i \in {j \in DOMAIN users :
              \/ \A h \in Open : h.id # j
              \/ \E h \in Open : h.id = j /\ h.from < users[j].updated}}

Stage ==
  /\ stage = None
  /\ stage' = [close |-> Updated \cup Deleted, insert |-> Inserted, read |-> users]
  /\ UNCHANGED <<now, born, users, history, taken>>

(* The merge, by dbt_scd_id: id and from.                                  *)
Merge ==
  /\ stage # None /\ stage' = None /\ taken' = stage.read
  /\ history' = {h \in history : \A c \in stage.close : <<c.id, c.from>> # <<h.id, h.from>>}
                  \cup stage.close \cup stage.insert
  /\ UNCHANGED <<now, born, users>>

(* The snapshot fails, and the next one starts over.                       *)
Abort ==
  /\ stage # None /\ stage' = None
  /\ UNCHANGED <<now, born, users, history, taken>>

Next ==
  \/ Seed \/ Change
  \/ Stage \/ Merge \/ Abort

Spec == Init /\ [][Next]_vars

-----------------------------------------------------------------------------
(* Properties                                                              *)

(* The versions of a user follow one another: one ends before the next     *)
(* begins, and at most one is open, while the table is updated, deleted    *)
(* from, inserted into and seeded again, and snapshots run and fail.  (Not *)
(* if an operator sets updated_at back, which the schema would let him.)   *)
VersionsFollow ==
  \A g, h \in history : g.id = h.id /\ g # h =>
    \/ g.to # None /\ g.to <= h.from
    \/ h.to # None /\ h.to <= g.from

(* The open versions are those of the table that the last snapshot read:   *)
(* none is missing, and none of a row that is gone is left open.           *)
OpenIsCurrent ==
  {<<h.id, h.from>> : h \in Open} = {<<i, taken[i].updated>> : i \in DOMAIN taken}

(* A version once ended stays as it is; an open one can only end.          *)
HistoryStays ==
  [][\A h \in history : \E g \in history' :
       /\ <<g.id, g.attr, g.from>> = <<h.id, h.attr, h.from>>
       /\ h.to # None => g.to = h.to]_vars
=============================================================================
