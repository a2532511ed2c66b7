------------------------ MODULE ReconciliationProofs ------------------------
(***************************************************************************)
(* Reconciliation for every table.  Each row is exactly one of silver,     *)
(* filtered and disputed; so the counts leave exactly the disputed rows,   *)
(* where an amount out of range does not keep the query from counting.     *)
(***************************************************************************)
EXTENDS Reconciliation, FiniteSetTheorems, TLAPS

Rows == bronze \in SUBSET Row /\ IsFiniteSet(bronze)

(* NUMERIC(12,2) is positive from half a cent on.                          *)
LEMMA CentsPositive ==
  ASSUME NEW a \in Int
  PROVE  Cents(a) > 0 <=> a >= 5
BY DEF Cents

(* The cast raises from half a cent beyond the largest amount on.          *)
LEMMA CastableRange ==
  ASSUME NEW a \in Int
  PROVE  Castable(a) <=> a < 10 * MaxCents + 5 /\ a > -(10 * MaxCents + 5)
<1>1. MaxCents \in Nat
  BY ReconAssumption
<1> QED BY <1>1 DEF Castable, Cents

(* A row of bronze is kept, filtered or disputed, and only one of these.   *)
LEMMA OneOfThree ==
  ASSUME NEW r \in Row
  PROVE  /\ Validated(r) = 2 => FilteredRule(r) # 2 /\ ~Disputed(r)
         /\ FilteredRule(r) = 2 => ~Disputed(r)
         /\ Validated(r) # 2 /\ FilteredRule(r) # 2 => Disputed(r)
<1>1. r.amount \in Int
  BY ReconAssumption DEF Row
<1>2. Cents(r.amount) > 0 <=> r.amount >= 5
  BY <1>1, CentsPositive
<1> DEFINE c == Cents(r.amount) > 0
<1>3. Validated(r) = 2 <=>
        r.id # None /\ r.amount >= 5 /\ r.time # None
          /\ r.type # None /\ r.type \in Types
  <2>1. Validated(r) = And(Not(IsNull(r.id)), And(Known(c),
                           And(Not(IsNull(r.time)), In(r.type, Types))))
    BY DEF Validated
  <2>2. c <=> r.amount >= 5
    BY <1>2
  <2> HIDE DEF c
  <2> QED BY <2>1, <2>2 DEF And, Not, IsNull, Known, In
<1>4. FilteredRule(r) = 2 <=>
        r.id = None \/ r.amount <= 0 \/ r.time = None
          \/ (r.type # None /\ r.type \notin Types)
  BY <1>1 DEF FilteredRule, Or, Not, IsNull, Known, In
<1>5. None \notin Types
  BY ReconAssumption
<1> QED BY <1>1, <1>3, <1>4, <1>5 DEF Disputed

-----------------------------------------------------------------------------
LEMMA RowsInvariant == Spec => []Rows
<1>1. Init => Rows
  BY FS_EmptySet DEF Init, Rows
<1>2. Rows /\ [Next]_bronze => Rows'
  <2> SUFFICES ASSUME Rows, [Next]_bronze PROVE Rows'
    OBVIOUS
  <2>1. CASE UNCHANGED bronze
    BY <2>1 DEF Rows
  <2>2. CASE Load
    <3>1. PICK id \in Ids, a \in Amounts, t \in Times, k \in InTypes :
            bronze' = bronze \cup {[offset |-> Cardinality(bronze), id |-> id,
                                    amount |-> a, time |-> t, type |-> k]}
      BY <2>2 DEF Load
    <3>2. Cardinality(bronze) \in Nat
      BY FS_CardinalityType DEF Rows
    <3>3. bronze' \in SUBSET Row
      BY <3>1, <3>2 DEF Rows, Row
    <3>4. IsFiniteSet(bronze')
      BY <3>1, FS_AddElement DEF Rows
    <3> QED BY <3>3, <3>4 DEF Rows
  <2> QED BY <2>1, <2>2 DEF Next
<1> QED BY <1>1, <1>2, PTL DEF Spec

(* The sets the queries count, and what is left of bronze.                 *)
Left == {r \in bronze : Disputed(r)}

LEMMA Partition ==
  ASSUME Rows
  PROVE  /\ Silver \in SUBSET bronze /\ Filtered \in SUBSET bronze
         /\ Silver \cap Filtered = {}
         /\ bronze \ (Silver \cup Filtered) = Left
<1>1. \A r \in bronze : r \in Row
  BY DEF Rows
<1>2. Silver = {r \in bronze : Validated(r) = 2}
  BY DEF Silver, Where
<1>3. Filtered = {r \in bronze : FilteredRule(r) = 2}
  BY DEF Filtered, Where
<1> QED BY <1>1, <1>2, <1>3, OneOfThree DEF Left

LEMMA CastFailsIff ==
  ASSUME Rows
  PROVE  CastFails <=> \E r \in bronze : OutOfRange(r)
<1>1. MaxCents \in Nat
  BY ReconAssumption
<1>2. ASSUME NEW r \in bronze
      PROVE  ~Castable(r.amount) <=>
               r.amount >= 10 * MaxCents + 5 \/ r.amount <= -(10 * MaxCents + 5)
  <2>1. r.amount \in Int
    BY ReconAssumption DEF Rows, Row
  <2> QED BY <1>1, <2>1, CastableRange
<1> QED BY <1>2 DEF CastFails, OutOfRange

(* unaccounted_records counts the disputed rows.                           *)
LEMMA Balance ==
  ASSUME Rows
  PROVE  /\ IsFiniteSet(Left)
         /\ unaccounted_records = Cardinality(Left)
         /\ unaccounted_records \in Nat
<1> DEFINE S == Silver  F == Filtered
<1>1. S \in SUBSET bronze /\ F \in SUBSET bronze /\ S \cap F = {} /\ bronze \ (S \cup F) = Left
  BY Partition
<1>2. IsFiniteSet(bronze)
  BY DEF Rows
<1> HIDE DEF S, F
<1>3. IsFiniteSet(S) /\ IsFiniteSet(F)
  BY <1>1, <1>2, FS_Subset
<1>4. Cardinality(S \cup F) = Cardinality(S) + Cardinality(F) - Cardinality({})
  BY <1>1, <1>3, FS_Union
<1>5. bronze \cap (S \cup F) = S \cup F
  BY <1>1
<1>6. /\ IsFiniteSet(bronze \ (S \cup F))
      /\ Cardinality(bronze \ (S \cup F))
           = Cardinality(bronze) - Cardinality(bronze \cap (S \cup F))
  BY <1>2, FS_Difference, Zenon
<1>7. IsFiniteSet(Left) /\ Cardinality(Left) = Cardinality(bronze) - Cardinality(S \cup F)
  BY <1>1, <1>5, <1>6
<1>8. Cardinality({}) = 0
  BY FS_EmptySet
<1>9. /\ Cardinality(bronze) \in Nat /\ Cardinality(S) \in Nat /\ Cardinality(F) \in Nat
      /\ Cardinality(Left) \in Nat
  BY <1>2, <1>3, <1>7, FS_CardinalityType
<1>10. unaccounted_records = Cardinality(bronze) - Cardinality(S) - Cardinality(F)
  BY DEF unaccounted_records, S, F
<1>11. unaccounted_records = Cardinality(Left)
  BY <1>4, <1>7, <1>8, <1>9, <1>10
<1> QED BY <1>7, <1>9, <1>11

-----------------------------------------------------------------------------
(* Bronze is a finite set of rows, and every row of silver passes the data *)
(* tests of stg_transactions.                                              *)
THEOREM TypeCorrect == Spec => []TypeOK
<1>1. ASSUME Rows, NEW r \in Silver
      PROVE  Cents(r.amount) > 0 /\ r.time # None /\ r.type \in Types
  <2>1. r \in Row /\ Validated(r) = 2
    BY <1>1 DEF Rows, Silver, Where
  <2> QED BY <2>1 DEF Validated, And, Not, IsNull, Known, In
<1>2. Rows => TypeOK
  BY <1>1 DEF Rows, TypeOK
<1> QED BY <1>2, RowsInvariant, PTL

(* unaccounted_records never offsets a row counted twice against one that  *)
(* is lost, for any number of rows and any amounts.                        *)
THEOREM BalanceIsHonest == Spec => []AccountsExactly
<1>1. Rows => AccountsExactly
  BY Balance, Partition DEF AccountsExactly
<1> QED BY <1>1, RowsInvariant, PTL

LEMMA BalancedIff ==
  ASSUME Rows
  PROVE  UnbalancedOnlyByDisputed
<1>1. IsFiniteSet(Left) /\ unaccounted_records = Cardinality(Left)
  BY Balance
<1>2. Cardinality(Left) = 0 <=> Left = {}
  BY <1>1, FS_EmptySet
<1>3. recon_status = "BALANCED" <=> ~CastFails /\ unaccounted_records = 0
  BY ReconAssumption DEF recon_status
<1> QED BY <1>1, <1>2, <1>3, CastFailsIff DEF UnbalancedOnlyByDisputed, Left

(* There is a balance unless a type is null, an amount below half a cent   *)
(* or out of the range of the column, and for every other table.           *)
THEOREM BalanceIsExact == Spec => []UnbalancedOnlyByDisputed
<1>1. Rows => UnbalancedOnlyByDisputed
  BY BalancedIff
<1> QED BY <1>1, RowsInvariant, PTL

(* What the join by id misses is unaccounted for: as rows, and so by count.*)
THEOREM MissingIsBounded == Spec => []MissingIsUnaccounted
<1>1. Rows => MissingIsUnaccounted
  <2> SUFFICES ASSUME Rows PROVE MissingIsUnaccounted
    OBVIOUS
  <2>1. Missing \subseteq Left
    <3> SUFFICES ASSUME NEW r \in Missing PROVE r \in Left
      OBVIOUS
    <3>1. r \in bronze /\ MissingRule(r) = 2 /\ r \notin Silver
      BY DEF Missing, Where
    <3>2. r \in Row
      BY <3>1 DEF Rows
    <3>3. r.amount \in Int
      BY <3>2, ReconAssumption DEF Row
    <3>4. FilteredRule(r) # 2
      BY <3>1, <3>3
      DEF MissingRule, FilteredRule, And, Or, Not, IsNull, Known, In
    <3>5. Validated(r) # 2
      BY <3>1 DEF Silver, Where
    <3> QED BY <3>1, <3>2, <3>4, <3>5, OneOfThree DEF Left
  <2>2. IsFiniteSet(Left) /\ unaccounted_records = Cardinality(Left)
    BY Balance
  <2>3. Cardinality(Missing) <= Cardinality(Left)
    BY <2>1, <2>2, FS_Subset
  <2>4. Missing \subseteq bronze \ (Silver \cup Filtered)
    BY <2>1, Partition
  <2> QED BY <2>2, <2>3, <2>4 DEF MissingIsUnaccounted, missing_count
<1> QED BY <1>1, RowsInvariant, PTL

(* Once out of balance, or not to be read, for ever: whatever is loaded    *)
(* afterwards.                                                             *)
THEOREM NeverRebalanced == Spec => UnbalancedForEver
<1>1. Rows => UnbalancedOnlyByDisputed
  BY BalancedIff
<1>2. UnbalancedOnlyByDisputed /\ UnbalancedOnlyByDisputed' /\ [Next]_bronze
        => [recon_status # "BALANCED" => recon_status' # "BALANCED"]_bronze
  <2> SUFFICES ASSUME UnbalancedOnlyByDisputed, UnbalancedOnlyByDisputed', Next,
                      recon_status # "BALANCED"
               PROVE  recon_status' # "BALANCED"
    OBVIOUS
  <2>1. bronze \subseteq bronze'
    BY DEF Next, Load
  <2>2. PICK r \in bronze : Disputed(r) \/ OutOfRange(r)
    BY DEF UnbalancedOnlyByDisputed
  <2> QED BY <2>1, <2>2 DEF UnbalancedOnlyByDisputed
<1> QED BY <1>1, <1>2, RowsInvariant, PTL DEF Spec, UnbalancedForEver
=============================================================================
