--------------------------- MODULE Reconciliation ---------------------------
(***************************************************************************)
(* The rows behind the gate: which records of bronze.transactions the view *)
(* silver.stg_transactions keeps, and how recon_bronze_silver accounts for *)
(* the others.  Both are SQL over text columns, written twice: staging     *)
(* says in three-valued logic which rows stay, recon which rows go.        *)
(*                                                                         *)
(* The streaming job lets a record pass when transaction_id, user_id and   *)
(* amount are there; event_timestamp and transaction_type may be null.     *)
(* Amounts are in thousandths, so that there is something for NUMERIC(12,2)*)
(* to round; one beyond its range raises, in staging and so in all that    *)
(* reads it.  Text that is no number or no time at all is left out here.   *)
(***************************************************************************)
EXTENDS Integers, FiniteSets

CONSTANTS
  Ids,          \* transaction_id; two records may share one
  Amounts,      \* in thousandths
  InTypes,      \* the transaction_type of a record, None for null
  MaxCents,     \* the largest NUMERIC(12,2), in cents
  MaxRows,      \* bound: rows of bronze.transactions
  None          \* SQL null

VARIABLE bronze \* rows of bronze.transactions

Types == {"PURCHASE", "REFUND", "TRANSFER", "WITHDRAWAL"}
Times == {"time", None}
Row   == [offset : Nat, id : Ids, amount : Amounts, time : Times, type : InTypes]

ASSUME ReconAssumption ==
  /\ Amounts \subseteq Int /\ {MaxCents, MaxRows} \subseteq Nat
  /\ None \notin Ids \cup Types \cup {"time", "BALANCED", "UNBALANCED"}

-----------------------------------------------------------------------------
(* SQL's three-valued logic: 0 is false, 1 unknown, 2 true.                *)

And(x, y) == IF x <= y THEN x ELSE y
Or(x, y)  == IF x >= y THEN x ELSE y
Not(x)    == 2 - x
Known(p)  == IF p THEN 2 ELSE 0

IsNull(v) == Known(v = None)
In(v, S)  == IF v = None THEN 1 ELSE Known(v \in S)

(* where keeps the rows for which the condition is true.                   *)
Where(rows, Cond(_)) == {r \in rows : Cond(r) = 2}

-----------------------------------------------------------------------------
(* stg_transactions                                                        *)

(* cast(amount as NUMERIC(12, 2)), in cents: half a cent is rounded away   *)
(* from zero.                                                              *)
Cents(a) == IF a >= 0 THEN (a + 5) \div 10 ELSE -((5 - a) \div 10)

(* Mutant: the column is taken for one without limits.                     *)
CastableAlways(a) == TRUE

(* The cast does not raise "numeric field overflow".                       *)
Castable(a) == Cents(a) \in -MaxCents .. MaxCents

(* Mutant: the amount is compared before it is rounded.                    *)
ValidatedText(r) ==
  And(Not(IsNull(r.id)), And(Known(r.amount > 0),
      And(Not(IsNull(r.time)), In(r.type, Types))))

Validated(r) ==
  And(Not(IsNull(r.id)), And(Known(Cents(r.amount) > 0),
      And(Not(IsNull(r.time)), In(r.type, Types))))

Silver == Where(bronze, Validated)

(* A query over the view raises.  Postgres applies the cheaper conditions  *)
(* first, so that the amounts of rows that fail one of them are not cast.  *)
CastFails ==
  \E r \in bronze :
    /\ r.id # None /\ r.time # None /\ r.type \in Types
    /\ ~Castable(r.amount)

-----------------------------------------------------------------------------
(* recon_bronze_silver                                                     *)

(* Mutant: what is no whole cent counts as nothing.                        *)
FilteredBelowCent(r) ==
  Or(IsNull(r.id), Or(Known(r.amount < 10),
     Or(IsNull(r.time), Not(In(r.type, Types)))))

FilteredRule(r) ==
  Or(IsNull(r.id), Or(Known(r.amount <= 0),
     Or(IsNull(r.time), Not(In(r.type, Types)))))

(* Mutant: the rules of validation are left to the other query.            *)
AnyRow(r) == 2

MissingRule(r) ==
  And(Not(IsNull(r.id)), And(Known(r.amount > 0),
      And(Not(IsNull(r.time)), In(r.type, Types))))

Filtered == Where(bronze, FilteredRule)

(* left join silver on the id, where the silver side is null.              *)
Missing ==
  {r \in Where(bronze, MissingRule) : \A s \in Silver : s.id # r.id}

missing_count == Cardinality(Missing)
unaccounted_records ==
  Cardinality(bronze) - Cardinality(Silver) - Cardinality(Filtered)

(* None: staging cannot be read, and the table is not built.               *)
recon_status ==
  IF CastFails THEN None
  ELSE IF unaccounted_records = 0 THEN "BALANCED" ELSE "UNBALANCED"

-----------------------------------------------------------------------------
TypeOK ==
  /\ bronze \in SUBSET Row /\ IsFiniteSet(bronze)
  /\ \A r \in Silver : Cents(r.amount) > 0 /\ r.time # None /\ r.type \in Types

Init == bronze = {}

(* One more record is ingested and loaded; bronze is append-only.          *)
Load ==
  /\ Cardinality(bronze) < MaxRows
  /\ \E id \in Ids, a \in Amounts, t \in Times, k \in InTypes :
       bronze' = bronze \cup {[offset |-> Cardinality(bronze), id |-> id,
                               amount |-> a, time |-> t, type |-> k]}

Next == Load

Spec == Init /\ [][Next]_bronze

-----------------------------------------------------------------------------
(* Properties                                                              *)

(* The balance is honest: unaccounted_records counts the rows that are     *)
(* neither in silver nor filtered; none is both, and offsets another one.  *)
AccountsExactly ==
  ~CastFails =>
    unaccounted_records = Cardinality(bronze \ (Silver \cup Filtered))

(* The rows the two queries disagree on: a null type is unknown to "in"    *)
(* and to "not in"; less than half a cent is positive and rounds to 0.00.  *)
Disputed(r) ==
  /\ r.id # None /\ r.time # None /\ r.amount > 0
  /\ r.type = None \/ (r.type \in Types /\ r.amount < 5)

(* A row that staging stumbles over: half a cent beyond the range of the   *)
(* column, above or below, and nothing else that would drop it.            *)
OutOfRange(r) ==
  /\ r.id # None /\ r.time # None /\ r.type \in Types
  /\ r.amount >= 10 * MaxCents + 5 \/ r.amount <= -(10 * MaxCents + 5)

(* Reconciliation reports a balance unless one of these rows is there, and *)
(* fails for no other reason.                                              *)
UnbalancedOnlyByDisputed ==
  recon_status = "BALANCED" <=>
    \A r \in bronze : ~Disputed(r) /\ ~OutOfRange(r)

(* What the join by id reports as missing is among the unaccounted.        *)
MissingIsUnaccounted ==
  ~CastFails =>
    /\ Missing \subseteq bronze \ (Silver \cup Filtered)
    /\ missing_count <= unaccounted_records

(* No later record restores the balance: once the DAG has failed for want  *)
(* of it, it fails in every later run, and nothing is loaded again.        *)
UnbalancedForEver ==
  [][recon_status # "BALANCED" => recon_status' # "BALANCED"]_bronze
=============================================================================
