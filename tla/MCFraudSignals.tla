--------------------------- MODULE MCFraudSignals ---------------------------
(* One user and merchant that the reference tables know, and one of each   *)
(* that they do not.  Amounts are a few paise and the tickets 30 paise, in *)
(* place of rupees: what matters is their order and the limits between.    *)
EXTENDS FraudSignals

CONSTANTS u1, u2, m1, m2, c1, c2, c3

TwoUsers     == {u1, u2}
TwoMerchants == {m1, m2}
ThreeCities  == {c1, c2, c3}
HomeCities   == [u \in TwoUsers |-> c1]
Tickets      == [m \in TwoMerchants |-> 300]
SomeWords    == TransactionType \cup TransactionStatus \cup {"CHARGEBACK"}
KnownIds     == {u1, m1}
Hours        == {3, 28, 196}
IST          == 5

Row(u, mer, a, at, off, type, st, city) ==
  [id |-> 0, user |-> u, merchant |-> mer, amount |-> a,
   time |-> [at |-> at, off |-> off], type |-> type, status |-> st, city |-> city]

(* What the generator draws: below the floor, half a paisa, above the cap. *)
SomeDraws ==
  {[user |-> u1, merchant |-> m2, raw |-> a, type |-> "PURCHASE", status |-> "SUCCESS"] :
     a \in {4, 1005, 9999}}

(* Purchases of one user in three cities, on the limit of a day's window   *)
(* and beyond it, and a larger one at the end of it or much later.         *)
Purchases ==
  {Row(u1, m1, 10, at, 0, "PURCHASE", st, c1) : at \in {3, 27}, st \in {"SUCCESS", "FAILED"}}
  \cup {Row(u1, m1, 10, 27, 0, "PURCHASE", "FAILED", c2),
        Row(u1, m1, 10, 27, 0, "PURCHASE", "SUCCESS", c3)}
  \cup {Row(u1, m2, 20, at, 0, "PURCHASE", "PENDING", c1) : at \in {28, 196}}

(* A user unknown to the reference tables, offsets from UTC, and no city.  *)
Others == {Row(u2, m2, 10, 3, off, "REFUND", "SUCCESS", c1) : off \in {0, 5}}
          \cup {Row(u1, m1, 10, 27, 0, "PURCHASE", "PENDING", None)}

(* What one of the two languages might refuse and the other not.           *)
Odd == {Row(u2, m1, a, 3, 0, type, "SUCCESS", c2) :
          a \in {-10, 0, 4, 15, 20, 10010}, type \in {"TRANSFER", "CHARGEBACK"}}

SomeEvents == Purchases \cup Others \cup Odd

(* Nine and one are too few for a z-score of 3, nine and two are not.      *)
NumberOf == {1, 9}

(* Events written with an offset west of UTC.                              *)
West == {Row(u1, m1, 10, at, off, "PURCHASE", "SUCCESS", c1) :
           at \in {3, 7, 27, 32}, off \in {-5, 0}}
=============================================================================
