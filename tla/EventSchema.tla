---------------------------- MODULE EventSchema ----------------------------
(***************************************************************************)
(* schemas.py, what TransactionEvent accepts, and generator.py, the events *)
(* that generate_one makes of its random choices.                          *)
(*                                                                         *)
(* Amounts are in thousandths of a rupee, times in hours.  A timestamp is  *)
(* an instant (at) and the UTC offset it is written with (off).  Columns   *)
(* that no model reads (currency, payment method, device, address) and the *)
(* lengths of names are left out.                                          *)
(***************************************************************************)
EXTENDS Integers

CONSTANTS
  Users, Merchants, Cities,
  Words,        \* what callers pass for an enum
  Home,         \* user |-> the city of its profile
  Ticket,       \* merchant |-> avg_ticket_size
  None          \* no city

TransactionType   == {"PURCHASE", "REFUND", "TRANSFER", "WITHDRAWAL"}
TransactionStatus == {"PENDING", "SUCCESS", "FAILED"}

(* What a caller passes to the constructor.  id tells events apart that    *)
(* agree in all other fields: transaction_id comes from uuid4.             *)
Event == [id : Nat, user : Users, merchant : Merchants, amount : Int,
          time : [at : Int, off : Int], type : Words, status : Words,
          city : Cities \cup {None}]

ASSUME SchemaAssumption ==
  /\ TransactionType \cup TransactionStatus \subseteq Words
  /\ Home \in [Users -> Cities] /\ None \notin Cities
  /\ Ticket \in [Merchants -> Nat]

(* validate_timestamp_not_future: the clock of UTC is given the offset of  *)
(* the timestamp (replace) and not converted to it (astimezone).           *)
NotFuture(time, now) == time.at <= now - time.off

(* Mutant: validate_amount_precision is left out.                          *)
AcceptsAnyPrecision(e, now) ==
  /\ e.amount > 0
  /\ e.type \in TransactionType /\ e.status \in TransactionStatus
  /\ NotFuture(e.time, now)

(* The constructor does not raise: the amount is positive and written with *)
(* two decimals at most, the enums know their values, the time is not in   *)
(* the future.                                                             *)
Accepts(e, now) ==
  /\ e.amount > 0 /\ e.amount % 10 = 0
  /\ e.type \in TransactionType /\ e.status \in TransactionStatus
  /\ NotFuture(e.time, now)

(* Mutant: no floor.                                                       *)
AmountCapped(raw, ticket) ==
  LET capped == IF raw < 5 * ticket THEN raw ELSE 5 * ticket
  IN  10 * ((capped + 5) \div 10)

(* _generate_amount: capped at five times the ticket, at least one rupee,  *)
(* rounded half up to paise.                                               *)
Amount(raw, ticket) ==
  LET capped == IF raw < 5 * ticket THEN raw ELSE 5 * ticket
  IN  10 * (((IF capped > 1000 THEN capped ELSE 1000) + 5) \div 10)

(* The random choices of generate_one that matter here; raw is the base    *)
(* amount of the user times the lognormal factor.                          *)
Choice == [user : Users, merchant : Merchants, raw : Nat,
           type : TransactionType, status : TransactionStatus]

(* The event made of a choice; its city is the user's, its time UTC, and   *)
(* now up to a jitter of seconds.                                          *)
Generated(c, now) ==
  [id |-> 0, user |-> c.user, merchant |-> c.merchant,
   amount |-> Amount(c.raw, Ticket[c.merchant]), time |-> [at |-> now, off |-> 0],
   type |-> c.type, status |-> c.status, city |-> Home[c.user]]
=============================================================================
