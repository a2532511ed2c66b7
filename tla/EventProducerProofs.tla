------------------------ MODULE EventProducerProofs ------------------------
(***************************************************************************)
(* EventProducer for any partitions, retries and number of events.         *)
(*                                                                         *)
(* Events are numbered as they are made.  With one batch under way per     *)
(* partition what the topic has is older than the batch or part of it, and *)
(* the batch is older than the buffer; so whatever is written again, it is *)
(* written after the first copies of all that is older.  Each event is in  *)
(* one buffer or batch at most, and one that is in none and was not        *)
(* delivered has been counted as an error, but for the last event while it *)
(* has no errback.                                                         *)
(***************************************************************************)
EXTENDS EventProducer, FiniteSetTheorems, TLAPS

-----------------------------------------------------------------------------
(* The invariant                                                           *)

Increasing(s) == \A i, j \in DOMAIN s : i < j => s[i] < s[j]
Below(S, T)   == \A x \in S, y \in T : x < y

InFlight(p) == UNION {Range(flight[p][i].events) : i \in DOMAIN flight[p]}
Held(p)     == Range(buffer[p]) \cup InFlight(p)
Pending     == UNION {Held(p) : p \in Partitions}

(* Events of which nothing is left: they failed.                           *)
Lost == {e \in 1 .. made : ~Delivered(e) /\ e \notin Pending}

(* One batch is under way; batch and buffer are in the order of sending.   *)
Shape(p) ==
  /\ Len(flight[p]) <= 1
  /\ Increasing(buffer[p])
  /\ \A i \in DOMAIN flight[p] : Increasing(flight[p][i].events)

(* What is anywhere has been made.                                         *)
Made(p) == Held(p) \cup Range(topic[p]) \subseteq 1 .. made

(* Topic, batch and buffer are each older than the next, but that part of  *)
(* the batch may be in the topic already.                                  *)
Age(p) ==
  /\ Below(InFlight(p), Range(buffer[p]))
  /\ Below(Range(topic[p]), Range(buffer[p]))
  /\ \A t \in Range(topic[p]) : t \in InFlight(p) \/ Below({t}, InFlight(p))

(* A copy of e is in s before place k.                                     *)
Before(s, e, k) == \E i \in 1 .. k - 1 : s[i] = e

(* Before a copy of an event of the batch there are copies of all events   *)
(* that precede it in the batch.                                           *)
BatchInOrder(s, batch) ==
  \A k \in DOMAIN s : s[k] \in batch =>
    \A e \in batch : e < s[k] => Before(s, e, k)

(* FirstCopiesInOrder, of one partition.                                   *)
InOrder(s) ==
  \A j \in DOMAIN s : \A k \in 1 .. j - 1 : s[k] > s[j] => Before(s, s[j], k)

(* What is acknowledged is in the topic.                                   *)
Written(p) ==
  \A i \in DOMAIN flight[p] :
    flight[p][i].written => Range(flight[p][i].events) \subseteq Range(topic[p])

Kept(p) ==
  /\ Shape(p) /\ Made(p) /\ Age(p) /\ Written(p)
  /\ InOrder(topic[p]) /\ BatchInOrder(topic[p], InFlight(p))

PartitionInv == \A p \in Partitions : Kept(p)

(* An event has one partition.                                             *)
PlaceInv == \A p, q \in Partitions : p # q => Held(p) \cap Held(q) = {}

(* The loop goes on while there are events to make and the last one has    *)
(* its errback, and main() stops when nothing is pending.                  *)
MainInv ==
  /\ pc \in {"run", "flush"} => made < MaxEvents /\ future = "watched"
  /\ pc = "attach" => sent < made
  /\ pc = "stopped" => Flushed

(* The future of the last event is failed when nothing is left of it.      *)
FutureInv ==
  /\ future # "watched" => made \in Events
  /\ future = "failed" => made \notin Pending
  /\ future = "open" /\ pc # "dead" => made \notin Lost

(* Errors are other events than the pending ones and the one without an    *)
(* errback; a process that was not killed has counted all else that failed.*)
CountInv ==
  /\ errors + Cardinality(Pending \cup Unwatched) <= made
  /\ pc # "dead" => Cardinality(Lost \ Unwatched) <= errors

IndInv == TypeOK /\ PartitionInv /\ PlaceInv /\ MainInv /\ FutureInv /\ CountInv

-----------------------------------------------------------------------------
(* Sequences of events                                                     *)

LEMMA Places ==
  ASSUME NEW S, NEW s \in Seq(S)
  PROVE  Len(s) \in Nat /\ DOMAIN s = 1 .. Len(s) /\ \A i \in 1 .. Len(s) : s[i] \in S
OBVIOUS

LEMMA EventPlaces ==
  ASSUME NEW s \in Seq(Events)
  PROVE  /\ Len(s) \in Nat /\ DOMAIN s = 1 .. Len(s)
         /\ \A i \in 1 .. Len(s) : s[i] \in Events /\ s[i] \in Nat
BY Places, ProducerAssumption DEF Events

LEMMA RangeIsMade ==
  ASSUME NEW s \in Seq(Events)
  PROVE  Range(s) \subseteq Events /\ (s = <<>> <=> Range(s) = {})
BY DEF Range

LEMMA Appended ==
  ASSUME NEW s \in Seq(Events), NEW e \in Events
  PROVE  /\ Append(s, e) \in Seq(Events)
         /\ Range(Append(s, e)) = Range(s) \cup {e}
         /\ Increasing(s) /\ Below(Range(s), {e}) => Increasing(Append(s, e))
<1> DEFINE t == Append(s, e)
<1>1. /\ t \in Seq(Events) /\ Len(t) = Len(s) + 1
      /\ t[Len(s) + 1] = e /\ \A i \in 1 .. Len(s) : t[i] = s[i]
  OBVIOUS
<1>2. DOMAIN t = 1 .. Len(s) + 1 /\ DOMAIN s = 1 .. Len(s)
  BY <1>1
<1> HIDE DEF t
<1>3. Range(t) = Range(s) \cup {e}
  BY <1>1, <1>2 DEF Range
<1>4. ASSUME Increasing(s), Below(Range(s), {e}) PROVE Increasing(t)
  BY <1>1, <1>2, <1>4 DEF Increasing, Below, Range
<1> QED BY <1>1, <1>3, <1>4 DEF t

(* A batch is added to the topic.                                          *)
LEMMA Joined ==
  ASSUME NEW s \in Seq(Events), NEW t \in Seq(Events)
  PROVE  /\ s \o t \in Seq(Events) /\ Len(s \o t) = Len(s) + Len(t)
         /\ \A i \in 1 .. Len(s) : (s \o t)[i] = s[i]
         /\ \A i \in 1 .. Len(t) : (s \o t)[Len(s) + i] = t[i]
         /\ Range(s \o t) = Range(s) \cup Range(t)
<1> DEFINE u == s \o t
           m == Len(s)
           n == Len(t)
<1>1. /\ u \in Seq(Events) /\ Len(u) = m + n
      /\ \A i \in 1 .. m : u[i] = s[i]
      /\ \A i \in 1 .. n : u[m + i] = t[i]
  OBVIOUS
<1>2. /\ m \in Nat /\ n \in Nat
      /\ DOMAIN s = 1 .. m /\ DOMAIN t = 1 .. n /\ DOMAIN u = 1 .. m + n
  BY <1>1, EventPlaces
<1> HIDE DEF u, m, n
<1>3. \A i \in 1 .. m : i \in 1 .. m + n
  BY <1>2
<1>4. \A i \in 1 .. n : m + i \in 1 .. m + n
  BY <1>2
<1>5. \A i \in 1 .. m + n : i \in 1 .. m \/ (i - m \in 1 .. n /\ m + (i - m) = i)
  BY <1>2
<1>6. Range(s) \subseteq Range(u)
  BY <1>1, <1>2, <1>3 DEF Range
<1>7. Range(t) \subseteq Range(u)
  BY <1>1, <1>2, <1>4 DEF Range
<1>8. ASSUME NEW i \in 1 .. m + n PROVE u[i] \in Range(s) \cup Range(t)
  <2>1. CASE i \in 1 .. m
    BY <1>1, <1>2, <2>1 DEF Range
  <2>2. CASE i - m \in 1 .. n /\ m + (i - m) = i
    <3>1. u[i] = t[i - m]
      BY <1>1, <2>2
    <3> QED BY <1>2, <2>2, <3>1 DEF Range
  <2> QED BY <1>5, <2>1, <2>2
<1>9. Range(u) \subseteq Range(s) \cup Range(t)
  BY <1>2, <1>8 DEF Range
<1> QED BY <1>1, <1>6, <1>7, <1>9 DEF u, m, n

(* A batch is cut off the front of a buffer.                               *)
Parts(s, m, n, a, b) ==
  /\ DOMAIN s = 1 .. m /\ DOMAIN a = 1 .. n /\ DOMAIN b = 1 .. m - n
  /\ \A i \in 1 .. n : a[i] = s[i]
  /\ \A i \in 1 .. m - n : b[i] = s[n + i]

LEMMA TwoParts ==
  ASSUME NEW m \in Nat, NEW n \in 1 .. m, NEW s, NEW a, NEW b, Parts(s, m, n, a, b)
  PROVE  /\ Range(s) = Range(a) \cup Range(b)
         /\ Increasing(s) => Increasing(a) /\ Increasing(b) /\ Below(Range(a), Range(b))
<1> USE DEF Parts
<1>1. n \in Nat /\ n <= m /\ m - n \in Nat
  OBVIOUS
<1>2. \A i \in 1 .. n : i \in 1 .. m
  BY <1>1
<1>3. \A i \in 1 .. m - n : n + i \in 1 .. m
  BY <1>1
<1>4. Range(a) \subseteq Range(s)
  BY <1>2 DEF Range
<1>5. Range(b) \subseteq Range(s)
  BY <1>3 DEF Range
<1>6. ASSUME NEW i \in 1 .. m PROVE s[i] \in Range(a) \cup Range(b)
  <2>1. CASE i \in 1 .. n
    BY <2>1 DEF Range
  <2>2. CASE i \notin 1 .. n
    <3>1. i - n \in 1 .. m - n /\ n + (i - n) = i
      BY <1>1, <2>2
    <3>2. b[i - n] = s[i]
      BY <3>1
    <3> QED BY <3>1, <3>2 DEF Range
  <2> QED BY <2>1, <2>2
<1>7. Range(s) \subseteq Range(a) \cup Range(b)
  BY <1>6 DEF Range
<1>8. ASSUME Increasing(s)
      PROVE  Increasing(a) /\ Increasing(b) /\ Below(Range(a), Range(b))
  <2>1. \A i, j \in 1 .. m : i < j => s[i] < s[j]
    BY <1>8 DEF Increasing
  <2>2. Increasing(a)
    BY <1>2, <2>1 DEF Increasing
  <2>3. Increasing(b)
    <3> SUFFICES ASSUME NEW i \in 1 .. m - n, NEW j \in 1 .. m - n, i < j PROVE b[i] < b[j]
      BY DEF Increasing
    <3>1. n + i < n + j
      BY <1>1
    <3> QED BY <1>3, <2>1, <3>1
  <2>4. ASSUME NEW i \in 1 .. n, NEW j \in 1 .. m - n PROVE a[i] < b[j]
    <3>1. i < n + j
      BY <1>1
    <3> QED BY <1>2, <1>3, <2>1, <3>1
  <2>5. Below(Range(a), Range(b))
    BY <2>4 DEF Below, Range
  <2> QED BY <2>2, <2>3, <2>5
<1> QED BY <1>4, <1>5, <1>7, <1>8

LEMMA CutOff ==
  ASSUME NEW s \in Seq(Events), NEW n \in 1 .. Len(s)
  PROVE  LET a == SubSeq(s, 1, n)
             b == SubSeq(s, n + 1, Len(s))
         IN  /\ a \in Seq(Events) /\ b \in Seq(Events)
             /\ Range(s) = Range(a) \cup Range(b)
             /\ Increasing(s) =>
                  Increasing(a) /\ Increasing(b) /\ Below(Range(a), Range(b))
<1> DEFINE m == Len(s)
           a == SubSeq(s, 1, n)
           b == SubSeq(s, n + 1, m)
<1>1. /\ a \in Seq(Events) /\ DOMAIN a = 1 .. n /\ \A i \in 1 .. n : a[i] = s[i]
  OBVIOUS
<1>2. /\ b \in Seq(Events) /\ DOMAIN b = 1 .. m - n
      /\ \A i \in 1 .. m - n : b[i] = s[n + i]
  OBVIOUS
<1>3. m \in Nat /\ n \in 1 .. m /\ DOMAIN s = 1 .. m
  BY EventPlaces
<1> HIDE DEF m, a, b
<1> Parts(s, m, n, a, b)
  BY <1>1, <1>2, <1>3 DEF Parts
<1>4. /\ Range(s) = Range(a) \cup Range(b)
      /\ Increasing(s) => Increasing(a) /\ Increasing(b) /\ Below(Range(a), Range(b))
  BY <1>3, TwoParts
<1> QED BY <1>1, <1>2, <1>4 DEF a, b, m

(* An increasing sequence has as many events as places.                    *)
LEMMA RangeSize ==
  ASSUME NEW s \in Seq(Events), Increasing(s)
  PROVE  IsFiniteSet(Range(s)) /\ Cardinality(Range(s)) = Len(s) /\ Len(s) \in Nat
<1>1. Len(s) \in Nat /\ DOMAIN s = 1 .. Len(s) /\ \A i \in 1 .. Len(s) : s[i] \in Nat
  BY EventPlaces
<1>2. s \in Surjection(1 .. Len(s), Range(s))
  <2>1. s \in [1 .. Len(s) -> Range(s)]
    BY DEF Range
  <2> QED BY <1>1, <2>1 DEF Surjection, Range
<1>3. \A i, j \in 1 .. Len(s) : s[i] = s[j] => i = j
  BY <1>1 DEF Increasing
<1>4. s \in Bijection(1 .. Len(s), Range(s))
  BY <1>1, <1>2, <1>3 DEF Bijection, Injection, IsInjective, Surjection
<1>5. IsFiniteSet(1 .. Len(s)) /\ Cardinality(1 .. Len(s)) = Len(s)
  BY <1>1, FS_Interval
<1> QED BY <1>1, <1>4, <1>5, FS_Bijection DEF ExistsBijection

LEMMA OnlyOne ==
  ASSUME NEW s \in Seq(Batch), Len(s) <= 1, NEW i \in DOMAIN s
  PROVE  i = 1 /\ Len(s) = 1 /\ RemoveAt(s, i) = <<>>
<1> DEFINE n == Len(s)
<1>0. n \in Nat /\ i \in 1 .. n /\ n <= 1
  BY Places
<1>1. i = 1 /\ n = 1
  <2> HIDE DEF n
  <2> QED BY <1>0
<1>2. SubSeq(s, 1, 0) = <<>> /\ SubSeq(s, 2, 1) = <<>>
  OBVIOUS
<1> QED BY <1>1, <1>2 DEF RemoveAt

(* The answer to a request changes its batch.                              *)
LEMMA Replaced ==
  ASSUME NEW s \in Seq(Batch), NEW i \in DOMAIN s, NEW b \in Batch,
         NEW t, t = [s EXCEPT ![i] = b]
  PROVE  /\ t \in Seq(Batch) /\ Len(t) = Len(s) /\ DOMAIN t = DOMAIN s
         /\ t[i] = b /\ \A j \in DOMAIN s : j # i => t[j] = s[j]
<1> DEFINE n == Len(s)
<1>1. n \in Nat /\ DOMAIN s = 1 .. n /\ \A j \in 1 .. n : s[j] \in Batch
  BY Places
<1>2. DOMAIN t = 1 .. n /\ t[i] = b /\ \A j \in 1 .. n : j # i => t[j] = s[j]
  BY <1>1
<1>3. t \in [1 .. n -> Batch]
  BY <1>1
<1>4. t \in Seq(Batch) /\ Len(t) = n
  <2> HIDE DEF n
  <2> QED BY <1>1, <1>3
<1> QED BY <1>1, <1>2, <1>4

-----------------------------------------------------------------------------
(* Partitions and counts                                                   *)

LEMMA Types ==
  ASSUME TypeOK, NEW p \in Partitions
  PROVE  /\ buffer[p] \in Seq(Events) /\ topic[p] \in Seq(Events) /\ flight[p] \in Seq(Batch)
         /\ \A i \in DOMAIN flight[p] :
              /\ flight[p][i] \in Batch /\ flight[p][i].events \in Seq(Events)
              /\ flight[p][i].tries \in 0 .. Retries /\ flight[p][i].written \in BOOLEAN
<1>1. buffer[p] \in Seq(Events) /\ topic[p] \in Seq(Events) /\ flight[p] \in Seq(Batch)
  BY DEF TypeOK
<1>2. ASSUME NEW i \in DOMAIN flight[p] PROVE flight[p][i] \in Batch
  <2> HIDE DEF TypeOK
  <2> QED BY <1>1, Places
<1> QED BY <1>1, <1>2 DEF Batch

(* What a step leaves alone in a partition.                                *)
LEMMA Unmoved ==
  ASSUME NEW p \in Partitions, buffer'[p] = buffer[p], flight'[p] = flight[p]
  PROVE  InFlight(p)' = InFlight(p) /\ Held(p)' = Held(p)
BY DEF InFlight, Held

LEMMA UnmovedKept ==
  ASSUME NEW p \in Partitions, Kept(p), made \in Nat, made' \in Nat, made <= made',
         buffer'[p] = buffer[p], flight'[p] = flight[p], topic'[p] = topic[p]
  PROVE  Kept(p)'
<1>1. InFlight(p)' = InFlight(p) /\ Held(p)' = Held(p)
  BY Unmoved
<1>2. Shape(p)' /\ Written(p)'
  BY DEF Kept, Shape, Written
<1>3. Made(p)'
  <2>1. 1 .. made \subseteq 1 .. made'
    OBVIOUS
  <2> QED BY <1>1, <2>1 DEF Kept, Made
<1>4. Age(p)' /\ InOrder(topic[p])' /\ BatchInOrder(topic[p], InFlight(p))'
  BY <1>1 DEF Kept, Age
<1> QED BY <1>2, <1>3, <1>4 DEF Kept

(* What is in flight in a partition is one batch or none.                  *)
LEMMA OneBatch ==
  ASSUME TypeOK, NEW p \in Partitions, Shape(p)
  PROVE  /\ flight[p] = <<>> => InFlight(p) = {}
         /\ \A i \in DOMAIN flight[p] :
              /\ InFlight(p) = Range(flight[p][i].events)
              /\ RemoveAt(flight[p], i) = <<>> /\ DOMAIN flight[p] = {i}
<1>1. flight[p] = <<>> => InFlight(p) = {}
  BY DEF InFlight
<1>2. ASSUME NEW i \in DOMAIN flight[p]
      PROVE  /\ InFlight(p) = Range(flight[p][i].events)
             /\ RemoveAt(flight[p], i) = <<>> /\ DOMAIN flight[p] = {i}
  <2>1. flight[p] \in Seq(Batch) /\ Len(flight[p]) <= 1
    BY Types DEF Shape
  <2>2. i = 1 /\ Len(flight[p]) = 1 /\ RemoveAt(flight[p], i) = <<>>
    BY <2>1, OnlyOne
  <2>3. DOMAIN flight[p] = {i}
    BY <2>1, <2>2, Places
  <2> QED BY <2>2, <2>3 DEF InFlight
<1> QED BY <1>1, <1>2

LEMMA FiniteCounts ==
  ASSUME made \in Nat, PartitionInv
  PROVE  /\ Pending \subseteq 1 .. made /\ IsFiniteSet(Pending) /\ Cardinality(Pending) \in Nat
         /\ IsFiniteSet(Lost) /\ Cardinality(Lost) \in Nat
         /\ IsFiniteSet(Unwatched)
<1>1. IsFiniteSet(1 .. made)
  BY FS_Interval
<1>2. Pending \subseteq 1 .. made
  BY DEF Pending, PartitionInv, Kept, Made
<1>3. Lost \subseteq 1 .. made
  BY DEF Lost
<1>4. IsFiniteSet(Unwatched)
  BY FS_EmptySet, FS_Singleton DEF Unwatched
<1> QED BY <1>1, <1>2, <1>3, <1>4, FS_Subset, FS_CardinalityType

(* A step of one partition that makes nothing pending there.               *)
LEMMA OnePartition ==
  ASSUME IndInv, NEW p \in Partitions, UNCHANGED <<made, sent, pc>>, pc # "stopped",
         future = "watched" => future' = "watched",
         \A q \in Partitions : q # p =>
           buffer'[q] = buffer[q] /\ flight'[q] = flight[q] /\ topic'[q] = topic[q],
         Held(p)' \subseteq Held(p), Kept(p)'
  PROVE  /\ PartitionInv' /\ PlaceInv' /\ MainInv'
         /\ Pending' \subseteq Pending
         /\ \A q \in Partitions : q # p => Held(q)' = Held(q)
<1>1. made \in Nat
  BY DEF IndInv, TypeOK
<1>2. \A q \in Partitions : q # p => Held(q)' = Held(q)
  BY Unmoved
<1>3. \A q \in Partitions : q # p => Kept(q)'
  BY <1>1, UnmovedKept DEF IndInv, PartitionInv
<1>4. PartitionInv'
  BY <1>3 DEF PartitionInv
<1>5. PlaceInv'
  <2>1. \A q \in Partitions : Held(q)' \subseteq Held(q)
    BY <1>2
  <2>2. PlaceInv
    BY DEF IndInv
  <2> HIDE DEF Held
  <2> QED BY <2>1, <2>2 DEF PlaceInv
<1>6. MainInv'
  BY DEF IndInv, MainInv
<1>7. Pending' \subseteq Pending
  BY <1>2 DEF Pending
<1> QED BY <1>2, <1>4, <1>5, <1>6, <1>7

LEMMA Sizes ==
  ASSUME NEW S, IsFiniteSet(S), NEW T, IsFiniteSet(T)
  PROVE  /\ IsFiniteSet(S \cup T)
         /\ Cardinality(S) \in Nat /\ Cardinality(T) \in Nat /\ Cardinality(S \cup T) \in Nat
         /\ Cardinality(S \cup T) <= Cardinality(S) + Cardinality(T)
         /\ S \cap T = {} => Cardinality(S \cup T) = Cardinality(S) + Cardinality(T)
<1>1. /\ IsFiniteSet(S \cup T)
      /\ Cardinality(S \cup T) = Cardinality(S) + Cardinality(T) - Cardinality(S \cap T)
  BY FS_Union
<1>2. IsFiniteSet(S \cap T)
  BY FS_Subset, S \cap T \subseteq S
<1>3. /\ Cardinality(S) \in Nat /\ Cardinality(T) \in Nat
      /\ Cardinality(S \cap T) \in Nat /\ Cardinality(S \cup T) \in Nat
  BY <1>1, <1>2, FS_CardinalityType
<1>4. S \cap T = {} => Cardinality(S \cap T) = 0
  BY FS_EmptySet
<1> QED BY <1>1, <1>3, <1>4

LEMMA Smaller ==
  ASSUME NEW T, IsFiniteSet(T), NEW S, S \subseteq T
  PROVE  /\ IsFiniteSet(S) /\ Cardinality(S) \in Nat /\ Cardinality(T) \in Nat
         /\ Cardinality(S) <= Cardinality(T)
BY FS_Subset, FS_CardinalityType

(* Nothing more is counted when nothing more is lost.                      *)
LEMMA NoneLost ==
  ASSUME IndInv, UNCHANGED <<made, errors, future>>, PartitionInv',
         Pending' \subseteq Pending, pc' # "dead" => pc # "dead" /\ Lost' \subseteq Lost
  PROVE  CountInv' /\ FutureInv'
<1>1. made \in Nat /\ errors \in Nat /\ Unwatched' = Unwatched
  BY DEF IndInv, TypeOK, Unwatched
<1>2. IsFiniteSet(Pending \cup Unwatched) /\ IsFiniteSet(Lost \ Unwatched)
  BY <1>1, FiniteCounts, FS_Union, FS_Difference DEF IndInv
<1>3. /\ Cardinality(Pending' \cup Unwatched) <= Cardinality(Pending \cup Unwatched)
      /\ Cardinality(Pending' \cup Unwatched) \in Nat
      /\ Cardinality(Pending \cup Unwatched) \in Nat
  <2>1. Pending' \cup Unwatched \subseteq Pending \cup Unwatched
    OBVIOUS
  <2> QED BY <1>2, <2>1, Smaller
<1>4. pc' # "dead" => /\ Cardinality(Lost' \ Unwatched) <= Cardinality(Lost \ Unwatched)
                      /\ Cardinality(Lost' \ Unwatched) \in Nat
                      /\ Cardinality(Lost \ Unwatched) \in Nat
  <2>1. pc' # "dead" => Lost' \ Unwatched \subseteq Lost \ Unwatched
    OBVIOUS
  <2> QED BY <1>2, <2>1, Smaller
<1>5. CountInv'
  BY <1>1, <1>3, <1>4 DEF IndInv, CountInv
<1>6. FutureInv'
  BY DEF IndInv, FutureInv
<1> QED BY <1>5, <1>6

-----------------------------------------------------------------------------
(* The sender thread and the broker                                        *)

LEMMA Running ==
  ASSUME IndInv, NEW p \in Partitions, SenderStep(p)
  PROVE  pc # "stopped"
<1>1. buffer[p] # <<>> \/ DOMAIN flight[p] # {}
  BY DEF SenderStep, Request
<1>2. flight[p] = <<>> => DOMAIN flight[p] = {}
  OBVIOUS
<1> QED BY <1>1, <1>2 DEF IndInv, MainInv, Flushed

(* The new batch is the front of the buffer: younger than all of the topic *)
(* and older than the rest.                                                *)
LEMMA RequestStep ==
  ASSUME IndInv, NEW p \in Partitions, Request(p), pc # "stopped"
  PROVE  IndInv'
<1>0. TypeOK /\ Kept(p) /\ made \in Nat
  BY DEF IndInv, PartitionInv, TypeOK
<1>1. PICK n \in 1 .. Len(buffer[p]) :
        /\ flight' = [flight EXCEPT ![p] = Append(@,
             [events |-> SubSeq(buffer[p], 1, n), tries |-> 0, written |-> FALSE])]
        /\ buffer' = [buffer EXCEPT ![p] = SubSeq(@, n + 1, Len(@))]
  BY DEF Request
<1> DEFINE a == SubSeq(buffer[p], 1, n)
           b == SubSeq(buffer[p], n + 1, Len(buffer[p]))
           batch == [events |-> a, tries |-> 0, written |-> FALSE]
<1>2. /\ a \in Seq(Events) /\ b \in Seq(Events) /\ Range(buffer[p]) = Range(a) \cup Range(b)
      /\ Increasing(a) /\ Increasing(b) /\ Below(Range(a), Range(b))
  <2>1. buffer[p] \in Seq(Events) /\ Increasing(buffer[p])
    BY <1>0, Types DEF Kept, Shape
  <2> QED BY <2>1, CutOff
<1>3. flight[p] = <<>>
  <2>1. Len(flight[p]) < 1 /\ flight[p] \in Seq(Batch)
    BY <1>0, Types DEF Request, MaxInFlight
  <2> QED BY <2>1
<1>4. buffer'[p] = b /\ flight'[p] = <<batch>> /\ topic'[p] = topic[p]
  <2>1. p \in DOMAIN buffer /\ p \in DOMAIN flight
    BY <1>0 DEF TypeOK
  <2>2. flight'[p] = Append(flight[p], batch) /\ buffer'[p] = b
    BY <1>1, <2>1
  <2>3. Append(<<>>, batch) = <<batch>>
    OBVIOUS
  <2>4. topic' = topic
    BY DEF Request
  <2> HIDE DEF batch, b
  <2> QED BY <1>3, <2>2, <2>3, <2>4
<1> HIDE DEF a, b
<1>5. \A q \in Partitions : q # p =>
        buffer'[q] = buffer[q] /\ flight'[q] = flight[q] /\ topic'[q] = topic[q]
  BY <1>0, <1>1 DEF TypeOK, Request
<1>6. batch \in Batch
  BY <1>2, ProducerAssumption DEF Batch
<1>7. TypeOK'
  <2>1. buffer' \in [Partitions -> Seq(Events)]
    BY <1>0, <1>1, <1>2 DEF TypeOK, b
  <2>2. <<batch>> \in Seq(Batch)
    BY <1>6
  <2>3. flight' = [flight EXCEPT ![p] = <<batch>>]
    BY <1>1, <1>3 DEF a
  <2>4. flight' \in [Partitions -> Seq(Batch)]
    <3> HIDE DEF batch
    <3> QED BY <1>0, <2>2, <2>3 DEF TypeOK
  <2> QED BY <1>0, <2>1, <2>4 DEF TypeOK, Request
<1>8. InFlight(p)' = Range(a) /\ InFlight(p) = {}
  BY <1>3, <1>4 DEF InFlight
<1>9. Held(p)' = Held(p)
  BY <1>2, <1>4, <1>8 DEF Held
<1>10. Kept(p)'
  <2>1. Shape(p)' /\ Written(p)'
    BY <1>2, <1>4 DEF Shape, Written
  <2>2. Made(p)'
    BY <1>0, <1>4, <1>9 DEF Kept, Made, Request
  <2>3. Below(Range(topic[p]), Range(a)) /\ Below(Range(topic[p]), Range(b))
    BY <1>0, <1>2 DEF Kept, Age, Below
  <2>4. Age(p)'
    BY <1>2, <1>4, <1>8, <2>3 DEF Age, Below
  <2>5. BatchInOrder(topic[p], InFlight(p))'
    <3>1. \A t \in Range(topic[p]) : t \notin Range(a)
      <4>1. \A t \in Range(topic[p]) : t \in Nat
        BY <1>0 DEF Kept, Made
      <4> QED BY <2>3, <4>1 DEF Below
    <3>2. \A k \in DOMAIN topic[p] : topic[p][k] \in Range(topic[p])
      BY DEF Range
    <3> QED BY <1>4, <1>8, <3>1, <3>2 DEF BatchInOrder
  <2>6. InOrder(topic[p])'
    BY <1>0, <1>4 DEF Kept
  <2> QED BY <2>1, <2>2, <2>4, <2>5, <2>6 DEF Kept
<1>11. UNCHANGED <<made, sent, pc, errors, future, topic>>
  BY DEF Request
<1>12. /\ PartitionInv' /\ PlaceInv' /\ MainInv' /\ Pending' \subseteq Pending
       /\ \A q \in Partitions : q # p => Held(q)' = Held(q)
  BY <1>5, <1>9, <1>10, <1>11, OnePartition
<1>13. Pending' = Pending
  BY <1>9, <1>12 DEF Pending
<1>14. CountInv' /\ FutureInv'
  BY <1>11, <1>12, <1>13, NoneLost DEF Lost, Delivered
<1> QED BY <1>7, <1>12, <1>14 DEF IndInv

(* An answer to batch i leaves its events as they are.                     *)
LEMMA SameBatch ==
  ASSUME TypeOK, NEW p \in Partitions, Shape(p), NEW i \in DOMAIN flight[p],
         NEW b \in Batch, b.events = flight[p][i].events,
         flight' = [flight EXCEPT ![p] = [@ EXCEPT ![i] = b]]
  PROVE  /\ flight' \in [Partitions -> Seq(Batch)]
         /\ \A q \in Partitions : q # p => flight'[q] = flight[q]
         /\ Len(flight'[p]) <= 1 /\ DOMAIN flight'[p] = {i} /\ flight'[p][i] = b
         /\ InFlight(p)' = InFlight(p)
<1> DEFINE t == [flight[p] EXCEPT ![i] = b]
<1>1. /\ t \in Seq(Batch) /\ Len(t) = Len(flight[p]) /\ DOMAIN t = DOMAIN flight[p]
      /\ t[i] = b
  BY Types, Replaced
<1>2. flight' = [flight EXCEPT ![p] = t]
  OBVIOUS
<1>3. DOMAIN flight[p] = {i} /\ InFlight(p) = Range(flight[p][i].events)
  BY OneBatch
<1> HIDE DEF t
<1>4. flight \in [Partitions -> Seq(Batch)]
  BY DEF TypeOK
<1>5. /\ flight' \in [Partitions -> Seq(Batch)] /\ flight'[p] = t
      /\ \A q \in Partitions : q # p => flight'[q] = flight[q]
  BY <1>1, <1>2, <1>4
<1>6. InFlight(p)' = InFlight(p)
  BY <1>1, <1>3, <1>5 DEF InFlight
<1> QED BY <1>1, <1>3, <1>5, <1>6 DEF Shape

LEMMA Retried ==
  ASSUME NEW b \in Batch, b.tries < Retries,
         NEW c, c = [b EXCEPT !.tries = @ + 1, !.written = FALSE]
  PROVE  c \in Batch /\ c.events = b.events /\ c.written = FALSE
<1>1. b.events \in Seq(Events) /\ b.tries \in 0 .. Retries
  BY DEF Batch
<1>2. b.tries + 1 \in 0 .. Retries
  BY <1>1, ProducerAssumption
<1>3. c = [events |-> b.events, tries |-> b.tries + 1, written |-> FALSE]
  BY DEF Batch
<1> QED BY <1>1, <1>2, <1>3 DEF Batch

LEMMA RetryStep ==
  ASSUME IndInv, NEW p \in Partitions, NEW i \in DOMAIN flight[p], Retry(p, i), pc # "stopped"
  PROVE  IndInv'
<1>0. TypeOK /\ Kept(p) /\ made \in Nat
  BY DEF IndInv, PartitionInv, TypeOK
<1> DEFINE old == flight[p][i]
           new == [old EXCEPT !.tries = @ + 1, !.written = FALSE]
<1>1. old \in Batch /\ old.tries < Retries
  BY <1>0, Types DEF Retry
<1>2. new \in Batch /\ new.events = old.events /\ new.written = FALSE
  BY <1>1, Retried
<1>3. flight' = [flight EXCEPT ![p] = [@ EXCEPT ![i] = new]]
  BY <1>0 DEF Retry, TypeOK
<1> HIDE DEF new
<1>4. /\ flight' \in [Partitions -> Seq(Batch)]
      /\ \A q \in Partitions : q # p => flight'[q] = flight[q]
      /\ Len(flight'[p]) <= 1 /\ DOMAIN flight'[p] = {i} /\ flight'[p][i] = new
      /\ InFlight(p)' = InFlight(p)
  BY <1>0, <1>2, <1>3, SameBatch DEF Kept
<1>5. UNCHANGED <<made, buffer, sent, errors, future, pc, topic>>
  BY DEF Retry, client
<1>6. TypeOK'
  BY <1>0, <1>4, <1>5 DEF TypeOK
<1>7. Held(p)' = Held(p)
  BY <1>4, <1>5 DEF Held
<1>8. Kept(p)'
  <2>1. Shape(p)' /\ Written(p)'
    BY <1>0, <1>2, <1>4, <1>5 DEF Kept, Shape, Written
  <2>2. Made(p)' /\ Age(p)' /\ InOrder(topic[p])' /\ BatchInOrder(topic[p], InFlight(p))'
    BY <1>0, <1>4, <1>5, <1>7 DEF Kept, Made, Age
  <2> QED BY <2>1, <2>2 DEF Kept
<1>9. /\ PartitionInv' /\ PlaceInv' /\ MainInv' /\ Pending' \subseteq Pending
      /\ \A q \in Partitions : q # p => Held(q)' = Held(q)
  BY <1>4, <1>5, <1>7, <1>8, OnePartition
<1>10. Pending' = Pending
  BY <1>7, <1>9 DEF Pending
<1>11. CountInv' /\ FutureInv'
  BY <1>5, <1>9, <1>10, NoneLost DEF Lost, Delivered
<1> QED BY <1>6, <1>9, <1>11 DEF IndInv

(* A batch that is written, the first time or again, comes after copies of *)
(* all that is older; and of its own events the older ones come first.     *)
Longer(s, m, ev, n, u) ==
  /\ m \in Nat /\ n \in Nat
  /\ DOMAIN s = 1 .. m /\ DOMAIN ev = 1 .. n /\ DOMAIN u = 1 .. m + n
  /\ \A i \in 1 .. m : u[i] = s[i] /\ s[i] \in Nat
  /\ \A i \in 1 .. n : u[m + i] = ev[i] /\ ev[i] \in Nat

LEMMA OrderIsKept ==
  ASSUME NEW s, NEW m, NEW ev, NEW n, NEW u, Longer(s, m, ev, n, u),
         Increasing(ev), InOrder(s), BatchInOrder(s, Range(ev)),
         \A t \in Range(s) : t \in Range(ev) \/ Below({t}, Range(ev))
  PROVE  InOrder(u) /\ BatchInOrder(u, Range(ev))
<1> DEFINE F == Range(ev)
<1> USE DEF Longer
<1>1. \A i \in 1 .. n : ev[i] \in F
  BY DEF Range
<1>2. \A x \in F : \E i \in 1 .. n : x = ev[i]
  BY DEF Range
<1>3. \A k \in 1 .. m + n : k \in 1 .. m \/ (k - m \in 1 .. n /\ u[k] = ev[k - m])
  <2> SUFFICES ASSUME NEW k \in 1 .. m + n, k \notin 1 .. m
               PROVE  k - m \in 1 .. n /\ u[k] = ev[k - m]
    OBVIOUS
  <2>1. k - m \in 1 .. n /\ m + (k - m) = k
    OBVIOUS
  <2> QED BY <2>1
<1>4. ASSUME NEW e, NEW k \in 1 .. m, Before(s, e, k) PROVE Before(u, e, k)
  <2>1. PICK i \in 1 .. k - 1 : s[i] = e
    BY <1>4 DEF Before
  <2>2. i \in 1 .. m
    OBVIOUS
  <2> QED BY <2>1, <2>2 DEF Before
<1>5. ASSUME NEW k \in 1 .. m, s[k] \in F, NEW e \in F, e < s[k]
      PROVE  Before(u, e, k)
  <2>1. Before(s, e, k)
    BY <1>5 DEF BatchInOrder
  <2> QED BY <1>4, <2>1
<1>6. \A a, b \in 1 .. n : a < b => ev[a] < ev[b]
  BY DEF Increasing
<1> HIDE DEF F
<1>7. ASSUME NEW k \in 1 .. m + n, NEW e \in F, u[k] \in F, e < u[k]
      PROVE  Before(u, e, k)
  <2>1. CASE k \in 1 .. m
    BY <1>5, <1>7, <2>1
  <2>2. CASE k - m \in 1 .. n /\ u[k] = ev[k - m]
    <3>1. PICK i \in 1 .. n : e = ev[i]
      BY <1>2
    <3>2. ev[i] < ev[k - m] /\ ev[i] \in Nat /\ ev[k - m] \in Nat
      BY <1>7, <2>2, <3>1
    <3>3. ~(k - m < i) /\ k - m # i
      BY <1>6, <2>2, <3>2
    <3>4. m + i \in 1 .. k - 1 /\ u[m + i] = e
      BY <2>2, <3>1, <3>3
    <3> QED BY <3>4 DEF Before
  <2> QED BY <1>3, <2>1, <2>2
<1>8. ASSUME NEW j \in 1 .. m + n, NEW k \in 1 .. j - 1, u[k] > u[j]
      PROVE  Before(u, u[j], k)
  <2>1. k \in 1 .. m + n /\ k < j
    OBVIOUS
  <2>2. CASE j \in 1 .. m
    <3>1. k \in 1 .. m
      BY <2>1, <2>2
    <3>2. Before(s, s[j], k)
      BY <1>8, <2>2, <3>1 DEF InOrder
    <3> QED BY <1>4, <2>2, <3>1, <3>2
  <2>3. CASE j - m \in 1 .. n /\ u[j] = ev[j - m]
    <3>1. u[j] \in F /\ u[j] \in Nat
      BY <1>1, <2>3
    <3>2. CASE k \in 1 .. m
      <4>1. s[k] \in Range(s) /\ u[k] = s[k] /\ s[k] \in Nat
        BY <3>2 DEF Range
      <4>2. s[k] \in F \/ s[k] < u[j]
        BY <3>1, <4>1 DEF Below, F
      <4>3. s[k] \in F /\ u[j] < s[k]
        BY <1>8, <3>1, <4>1, <4>2
      <4> QED BY <1>5, <3>1, <3>2, <4>3
    <3>3. CASE k - m \in 1 .. n /\ u[k] = ev[k - m]
      <4>1. k - m < j - m
        BY <2>1
      <4>2. ev[k - m] < ev[j - m] /\ ev[k - m] \in Nat /\ ev[j - m] \in Nat
        BY <1>6, <2>3, <3>3, <4>1
      <4>3. ev[k - m] > ev[j - m]
        BY <1>8, <2>3, <3>3
      <4> QED BY <4>2, <4>3
    <3> QED BY <1>3, <2>1, <3>2, <3>3
  <2> QED BY <1>3, <2>2, <2>3
<1>9. BatchInOrder(u, F)
  BY <1>7 DEF BatchInOrder
<1>10. InOrder(u)
  BY <1>8 DEF InOrder
<1> QED BY <1>9, <1>10 DEF F

LEMMA WriteStep ==
  ASSUME IndInv, NEW p \in Partitions, NEW i \in DOMAIN flight[p], Write(p, i), pc # "stopped"
  PROVE  IndInv'
<1>0. TypeOK /\ Kept(p) /\ made \in Nat
  BY DEF IndInv, PartitionInv, TypeOK
<1> DEFINE old == flight[p][i]
           new == [old EXCEPT !.written = TRUE]
           ev  == old.events
<1>1. old \in Batch /\ ev \in Seq(Events) /\ Increasing(ev) /\ topic[p] \in Seq(Events)
  BY <1>0, Types DEF Kept, Shape
<1>2. new \in Batch /\ new.events = ev
  BY <1>1 DEF Batch
<1>3. flight' = [flight EXCEPT ![p] = [@ EXCEPT ![i] = new]]
  BY <1>0 DEF Write, TypeOK
<1>4. topic' = [topic EXCEPT ![p] = @ \o ev]
  BY DEF Write
<1>5. InFlight(p) = Range(ev)
  BY <1>0, OneBatch DEF Kept
<1> HIDE DEF old, new, ev
<1>6. /\ flight' \in [Partitions -> Seq(Batch)]
      /\ \A q \in Partitions : q # p => flight'[q] = flight[q]
      /\ Len(flight'[p]) <= 1 /\ DOMAIN flight'[p] = {i} /\ flight'[p][i] = new
      /\ InFlight(p)' = InFlight(p)
  BY <1>0, <1>2, <1>3, SameBatch DEF Kept, old, ev
<1>7. UNCHANGED <<made, buffer, sent, errors, future, pc>>
  BY DEF Write, client
<1>8. /\ topic[p] \o ev \in Seq(Events) /\ topic'[p] = topic[p] \o ev
      /\ Range(topic'[p]) = Range(topic[p]) \cup Range(ev)
      /\ topic' \in [Partitions -> Seq(Events)]
      /\ \A q \in Partitions : q # p => topic'[q] = topic[q]
  <2>1. /\ topic[p] \o ev \in Seq(Events)
        /\ Range(topic[p] \o ev) = Range(topic[p]) \cup Range(ev)
    BY <1>1, Joined
  <2>2. topic \in [Partitions -> Seq(Events)]
    BY <1>0 DEF TypeOK
  <2> DEFINE long == topic[p] \o ev
  <2>3. topic' = [topic EXCEPT ![p] = long]
    BY <1>4
  <2> HIDE DEF long
  <2>4. /\ topic'[p] = long /\ \A q \in Partitions : q # p => topic'[q] = topic[q]
        /\ long \in Seq(Events) => topic' \in [Partitions -> Seq(Events)]
    BY <2>2, <2>3
  <2> QED BY <2>1, <2>4 DEF long
<1>9. TypeOK'
  BY <1>0, <1>6, <1>7, <1>8 DEF TypeOK
<1>10. Held(p)' = Held(p)
  BY <1>6, <1>7 DEF Held
<1>11. Kept(p)'
  <2>1. Shape(p)'
    BY <1>0, <1>1, <1>2, <1>6, <1>7 DEF Kept, Shape
  <2>2. Written(p)'
    BY <1>2, <1>6, <1>8 DEF Written
  <2>3. Made(p)'
    <3>1. Range(ev) \subseteq 1 .. made /\ Range(topic[p]) \cup Held(p) \subseteq 1 .. made
      BY <1>0, <1>5 DEF Kept, Made, Held
    <3> QED BY <1>7, <1>8, <1>10, <3>1 DEF Made
  <2>4. Age(p)'
    BY <1>0, <1>5, <1>6, <1>7, <1>8 DEF Kept, Age, Below
  <2>5. Longer(topic[p], Len(topic[p]), ev, Len(ev), topic'[p])
    <3>1. topic'[p] \in Seq(Events) /\ Len(topic'[p]) = Len(topic[p]) + Len(ev)
      BY <1>1, <1>8, Joined
    <3>2. DOMAIN topic'[p] = 1 .. Len(topic[p]) + Len(ev)
      BY <3>1, EventPlaces
    <3>3. /\ \A j \in 1 .. Len(topic[p]) : topic'[p][j] = topic[p][j]
          /\ \A j \in 1 .. Len(ev) : topic'[p][Len(topic[p]) + j] = ev[j]
      BY <1>1, <1>8, Joined
    <3> QED BY <1>1, <3>2, <3>3, EventPlaces DEF Longer
  <2>6. InOrder(topic[p])' /\ BatchInOrder(topic[p], InFlight(p))'
    <3>1. /\ InOrder(topic[p]) /\ BatchInOrder(topic[p], Range(ev))
          /\ \A t \in Range(topic[p]) : t \in Range(ev) \/ Below({t}, Range(ev))
      BY <1>0, <1>5 DEF Kept, Age
    <3>2. InOrder(topic'[p]) /\ BatchInOrder(topic'[p], Range(ev))
      BY <1>1, <2>5, <3>1, OrderIsKept
    <3> QED BY <1>5, <1>6, <3>2
  <2> QED BY <2>1, <2>2, <2>3, <2>4, <2>6 DEF Kept
<1>12. /\ PartitionInv' /\ PlaceInv' /\ MainInv' /\ Pending' \subseteq Pending
       /\ \A q \in Partitions : q # p => Held(q)' = Held(q)
  BY <1>6, <1>7, <1>8, <1>10, <1>11, OnePartition
<1>13. Pending' = Pending
  BY <1>10, <1>12 DEF Pending
<1>14. Lost' \subseteq Lost
  <2>1. \A q \in Partitions : Range(topic[q]) \subseteq Range(topic'[q])
    BY <1>8
  <2> QED BY <1>7, <1>13, <2>1 DEF Lost, Delivered
<1>15. CountInv' /\ FutureInv'
  BY <1>7, <1>12, <1>13, <1>14, NoneLost
<1> QED BY <1>9, <1>12, <1>15 DEF IndInv

(* A batch leaves the partition, delivered or failed.                      *)
LEMMA BatchLeaves ==
  ASSUME TypeOK, made \in Nat, NEW p \in Partitions, Kept(p), NEW i \in DOMAIN flight[p],
         flight' = [flight EXCEPT ![p] = RemoveAt(@, i)],
         UNCHANGED <<made, buffer, topic>>
  PROVE  /\ flight' \in [Partitions -> Seq(Batch)]
         /\ \A q \in Partitions : q # p => flight'[q] = flight[q]
         /\ InFlight(p) = Range(flight[p][i].events)
         /\ Held(p)' = Range(buffer[p]) /\ Held(p) = Held(p)' \cup InFlight(p)
         /\ Held(p)' \cap InFlight(p) = {}
         /\ Kept(p)'
<1>1. RemoveAt(flight[p], i) = <<>> /\ InFlight(p) = Range(flight[p][i].events)
  BY OneBatch DEF Kept
<1>2. flight \in [Partitions -> Seq(Batch)] /\ <<>> \in Seq(Batch)
  BY DEF TypeOK
<1>3. flight' = [flight EXCEPT ![p] = <<>>]
  BY <1>1
<1>4. /\ flight' \in [Partitions -> Seq(Batch)] /\ flight'[p] = <<>>
      /\ \A q \in Partitions : q # p => flight'[q] = flight[q]
  BY <1>2, <1>3
<1>5. InFlight(p)' = {}
  BY <1>4 DEF InFlight
<1>6. Held(p)' = Range(buffer[p]) /\ Held(p) = Held(p)' \cup InFlight(p)
  BY <1>5 DEF Held
<1>7. Held(p)' \cap InFlight(p) = {}
  <2>1. Below(InFlight(p), Range(buffer[p])) /\ Range(buffer[p]) \subseteq Nat
    BY DEF Kept, Age, Made, Held
  <2> QED BY <1>6, <2>1 DEF Below
<1>8. Kept(p)'
  <2>1. Shape(p)' /\ Written(p)'
    BY <1>4 DEF Kept, Shape, Written
  <2>2. Made(p)' /\ Age(p)'
    BY <1>5, <1>6 DEF Kept, Made, Age, Below
  <2>3. InOrder(topic[p])' /\ BatchInOrder(topic[p], InFlight(p))'
    BY <1>5 DEF Kept, BatchInOrder
  <2> QED BY <2>1, <2>2, <2>3 DEF Kept
<1> QED BY <1>1, <1>4, <1>6, <1>7, <1>8

(* What is acknowledged has been delivered.                                *)
LEMMA AcknowledgedStep ==
  ASSUME IndInv, NEW p \in Partitions, NEW i \in DOMAIN flight[p], Acknowledged(p, i),
         pc # "stopped"
  PROVE  IndInv'
<1>0. TypeOK /\ Kept(p) /\ made \in Nat
  BY DEF IndInv, PartitionInv, TypeOK
<1>1. UNCHANGED <<made, buffer, sent, errors, future, pc, topic>>
  BY DEF Acknowledged, client
<1>2. /\ flight' \in [Partitions -> Seq(Batch)]
      /\ \A q \in Partitions : q # p => flight'[q] = flight[q]
      /\ InFlight(p) = Range(flight[p][i].events)
      /\ Held(p) = Held(p)' \cup InFlight(p) /\ Kept(p)'
  BY <1>0, <1>1, BatchLeaves DEF Acknowledged
<1>3. TypeOK'
  BY <1>0, <1>1, <1>2 DEF TypeOK
<1>4. /\ PartitionInv' /\ PlaceInv' /\ MainInv' /\ Pending' \subseteq Pending
      /\ \A q \in Partitions : q # p => Held(q)' = Held(q)
  BY <1>1, <1>2, OnePartition
<1>5. InFlight(p) \subseteq Range(topic[p])
  BY <1>0, <1>2 DEF Kept, Written, Acknowledged
<1>6. Pending \subseteq Pending' \cup InFlight(p)
  BY <1>2, <1>4 DEF Pending
<1>7. Lost' \subseteq Lost
  BY <1>1, <1>5, <1>6 DEF Lost, Delivered
<1>8. CountInv' /\ FutureInv'
  BY <1>1, <1>4, <1>7, NoneLost
<1> QED BY <1>3, <1>4, <1>8 DEF IndInv

(* A batch that fails is counted event by event, as many as are pending no *)
(* longer and may be lost; the one that has no errback stays out of both.  *)
LEMMA FailStep ==
  ASSUME IndInv, NEW p \in Partitions, NEW i \in DOMAIN flight[p], Fail(p, i), pc # "stopped"
  PROVE  IndInv'
<1>0. TypeOK /\ Kept(p) /\ made \in Nat /\ errors \in Nat
  BY DEF IndInv, PartitionInv, TypeOK
<1> DEFINE F == InFlight(p)
           U == Unwatched
<1>1. UNCHANGED <<made, buffer, sent, pc, topic>>
  BY DEF Fail
<1>2. /\ flight' \in [Partitions -> Seq(Batch)]
      /\ \A q \in Partitions : q # p => flight'[q] = flight[q]
      /\ F = Range(flight[p][i].events)
      /\ Held(p) = Held(p)' \cup F /\ Held(p)' \cap F = {} /\ Kept(p)'
  BY <1>0, <1>1, BatchLeaves DEF Fail
<1>3. /\ errors' = errors + Cardinality(F \ U)
      /\ future' = IF F \cap U = {} THEN future ELSE "failed"
  BY <1>2 DEF Fail, OnError
<1>4. /\ future = "watched" => future' = "watched"
      /\ future' \in {"watched", "open", "failed"} /\ Unwatched' = U
  BY <1>0, <1>1, <1>3 DEF TypeOK, Unwatched
<1>5. /\ PartitionInv' /\ PlaceInv' /\ MainInv' /\ Pending' \subseteq Pending
      /\ \A q \in Partitions : q # p => Held(q)' = Held(q)
  BY <1>1, <1>2, <1>4, OnePartition
<1> HIDE DEF F
<1>6. Pending = Pending' \cup F /\ Pending' \cap F = {}
  <2>1. Pending = Pending' \cup F
    BY <1>2, <1>5 DEF Pending
  <2>2. \A q \in Partitions : Held(q)' \cap F = {}
    <3>1. \A q \in Partitions : q # p => Held(q) \cap Held(p) = {}
      BY DEF IndInv, PlaceInv
    <3> QED BY <1>2, <1>5, <3>1
  <2> QED BY <2>1, <2>2 DEF Pending
<1>7. Lost' \subseteq Lost \cup F
  BY <1>1, <1>6 DEF Lost, Delivered
<1>8. FutureInv'
  <2>1. F \cap U = {} => U \cap Lost' \subseteq U \cap Lost
    BY <1>7
  <2>2. CASE F \cap U = {}
    BY <1>1, <1>3, <1>5, <2>1, <2>2 DEF IndInv, FutureInv, Unwatched
  <2>3. CASE F \cap U # {}
    <3>1. future # "watched" /\ made \in F /\ future' = "failed"
      BY <1>3, <2>3 DEF Unwatched
    <3> QED BY <1>1, <1>6, <3>1 DEF IndInv, FutureInv
  <2> QED BY <2>2, <2>3
<1> HIDE DEF U
<1>9. /\ IsFiniteSet(Pending' \cup U) /\ IsFiniteSet(Lost \ U) /\ IsFiniteSet(F \ U)
  <2>1. IsFiniteSet(Pending) /\ IsFiniteSet(Lost) /\ IsFiniteSet(U)
    BY <1>0, FiniteCounts DEF IndInv, U
  <2>2. IsFiniteSet(F) /\ IsFiniteSet(Pending')
    BY <1>6, <2>1, FS_Subset
  <2> QED BY <2>1, <2>2, FS_Union, FS_Difference
<1>10. /\ Cardinality(Pending \cup U) = Cardinality(Pending' \cup U) + Cardinality(F \ U)
       /\ Cardinality(Pending' \cup U) \in Nat /\ Cardinality(F \ U) \in Nat
  <2>1. /\ Pending \cup U = (Pending' \cup U) \cup (F \ U)
        /\ (Pending' \cup U) \cap (F \ U) = {}
    BY <1>6
  <2> QED BY <1>9, <2>1, Sizes
<1>11. /\ Cardinality(Lost' \ U) <= Cardinality(Lost \ U) + Cardinality(F \ U)
       /\ Cardinality(Lost' \ U) \in Nat /\ Cardinality(Lost \ U) \in Nat
  <2>1. Lost' \ U \subseteq (Lost \ U) \cup (F \ U)
    BY <1>7
  <2>2. /\ IsFiniteSet((Lost \ U) \cup (F \ U)) /\ Cardinality(Lost \ U) \in Nat
        /\ Cardinality((Lost \ U) \cup (F \ U)) <= Cardinality(Lost \ U) + Cardinality(F \ U)
    BY <1>9, Sizes
  <2>3. /\ Cardinality(Lost' \ U) <= Cardinality((Lost \ U) \cup (F \ U))
        /\ Cardinality(Lost' \ U) \in Nat /\ Cardinality((Lost \ U) \cup (F \ U)) \in Nat
    BY <2>1, <2>2, Smaller
  <2> QED BY <1>10, <2>2, <2>3
<1>12. CountInv'
  BY <1>0, <1>1, <1>3, <1>4, <1>10, <1>11 DEF IndInv, CountInv, U
<1>13. TypeOK'
  <2>1. errors' \in 0 .. made
    BY <1>0, <1>1, <1>3, <1>4, <1>10, <1>12 DEF CountInv
  <2> QED BY <1>0, <1>1, <1>2, <1>4, <2>1 DEF TypeOK
<1> QED BY <1>5, <1>8, <1>12, <1>13 DEF IndInv

-----------------------------------------------------------------------------
(* main()                                                                  *)

LEMMA AfterAnEvent ==
  ASSUME NEW n \in Events
  PROVE  /\ After(n) \in {"run", "flush", "final"}
         /\ After(n) \in {"run", "flush"} => n < MaxEvents
BY ProducerAssumption DEF After, Events

(* The new event is the youngest, and in one place.                        *)
LEMMA BufferedStep ==
  ASSUME IndInv, NEW p \in Partitions, made' = made + 1, made' \in Events,
         buffer' = [buffer EXCEPT ![p] = Append(@, made')], UNCHANGED kafka
  PROVE  /\ buffer' \in [Partitions -> Seq(Events)]
         /\ PartitionInv' /\ PlaceInv'
         /\ Pending' = Pending \cup {made'} /\ made' \notin Pending
<1> DEFINE n == made'
<1>0. TypeOK /\ made \in Nat /\ PartitionInv /\ PlaceInv
  BY DEF IndInv, TypeOK
<1>1. n \in Nat /\ n = made + 1 /\ n \in Events
  BY <1>0
<1>2. buffer[p] \in Seq(Events) /\ Kept(p)
  BY <1>0, Types DEF PartitionInv
<1>3. \A q \in Partitions : Held(q) \cup Range(topic[q]) \subseteq 1 .. made
  BY <1>0 DEF PartitionInv, Kept, Made
<1>4. Below(Range(buffer[p]), {n}) /\ Below(InFlight(p), {n}) /\ Below(Range(topic[p]), {n})
  <2>1. \A x \in 1 .. made : x < n
    BY <1>0, <1>1
  <2> HIDE DEF n
  <2> QED BY <1>3, <2>1 DEF Below, Held
<1>5. /\ Append(buffer[p], n) \in Seq(Events)
      /\ Range(Append(buffer[p], n)) = Range(buffer[p]) \cup {n}
      /\ Increasing(Append(buffer[p], n))
  BY <1>1, <1>2, <1>4, Appended DEF Kept, Shape
<1> DEFINE b == Append(buffer[p], n)
<1>6. buffer' = [buffer EXCEPT ![p] = b] /\ flight' = flight /\ topic' = topic
  BY DEF kafka
<1> HIDE DEF b
<1>7. /\ buffer'[p] = b /\ \A q \in Partitions : q # p => buffer'[q] = buffer[q]
      /\ b \in Seq(Events) => buffer' \in [Partitions -> Seq(Events)]
  BY <1>0, <1>6 DEF TypeOK
<1>8. InFlight(p)' = InFlight(p) /\ Held(p)' = Held(p) \cup {n}
  BY <1>5, <1>6, <1>7 DEF InFlight, Held, b
<1>9. \A q \in Partitions : q # p => Held(q)' = Held(q) /\ Kept(q)'
  BY <1>0, <1>1, <1>6, <1>7, Unmoved, UnmovedKept DEF PartitionInv
<1>10. Kept(p)'
  <2>1. Shape(p)' /\ Written(p)'
    BY <1>2, <1>5, <1>6, <1>7 DEF Kept, Shape, Written, b
  <2>2. Made(p)'
    <3>1. 1 .. made \cup {n} \subseteq 1 .. n
      BY <1>0, <1>1
    <3> QED BY <1>3, <1>6, <1>8, <3>1 DEF Made
  <2>3. Age(p)'
    <3>1. Range(b) = Range(buffer[p]) \cup {n}
      BY <1>5 DEF b
    <3>2. /\ Below(InFlight(p), Range(b)) /\ Below(Range(topic[p]), Range(b))
          /\ \A t \in Range(topic[p]) : t \in InFlight(p) \/ Below({t}, InFlight(p))
      BY <1>2, <1>4, <3>1 DEF Kept, Age, Below
    <3> QED BY <1>6, <1>7, <1>8, <3>2 DEF Age
  <2>4. InOrder(topic[p])' /\ BatchInOrder(topic[p], InFlight(p))'
    BY <1>2, <1>6, <1>8 DEF Kept
  <2> QED BY <2>1, <2>2, <2>3, <2>4 DEF Kept
<1>11. PartitionInv'
  BY <1>9, <1>10 DEF PartitionInv
<1>12. \A q \in Partitions : n \notin Held(q)
  BY <1>0, <1>1, <1>3
<1>13. PlaceInv'
  <2> SUFFICES ASSUME NEW q \in Partitions, NEW r \in Partitions, q # r
               PROVE  Held(q)' \cap Held(r)' = {}
    BY DEF PlaceInv
  <2>1. Held(q) \cap Held(r) = {}
    BY <1>0 DEF PlaceInv
  <2> QED BY <1>8, <1>9, <1>12, <2>1
<1>14. Pending' = Pending \cup {n} /\ n \notin Pending
  BY <1>8, <1>9, <1>12 DEF Pending
<1> QED BY <1>5, <1>7, <1>11, <1>13, <1>14 DEF b

(* A buffered event is pending, and one that send() refuses is an error;   *)
(* one whose future has failed is neither until it has its errback.        *)
LEMMA SendStep ==
  ASSUME IndInv, Send
  PROVE  IndInv'
<1>0. TypeOK /\ made \in Nat /\ errors \in Nat /\ sent \in Nat /\ made < MaxEvents
  BY DEF IndInv, TypeOK, MainInv, Send
<1>1. /\ made' = made + 1 /\ made' \in Events /\ made' \in Nat /\ pc = "run"
      /\ sent' = sent /\ flight' = flight /\ topic' = topic
  BY <1>0, ProducerAssumption DEF Send, Events, kafka
<1>2. Unwatched = {} /\ future = "watched"
  BY <1>1 DEF IndInv, MainInv, Unwatched
<1>3. /\ IsFiniteSet(Pending) /\ Cardinality(Pending) \in Nat
      /\ IsFiniteSet(Lost) /\ Cardinality(Lost) \in Nat
      /\ errors + Cardinality(Pending) <= made /\ Cardinality(Lost) <= errors
      /\ Pending \subseteq 1 .. made
  <2>1. Pending \cup Unwatched = Pending /\ Lost \ Unwatched = Lost
    BY <1>2
  <2> QED BY <1>0, <1>1, <2>1, FiniteCounts DEF IndInv, CountInv
<1>4. made' \in 0 .. MaxEvents /\ sent' \in 0 .. made' /\ sent' < made'
  BY <1>0, <1>1, ProducerAssumption DEF TypeOK
<1>5. \A e \in 1 .. made' : e # made' => e \in 1 .. made
  BY <1>0, <1>1
<1>6. /\ IsFiniteSet(Pending \cup {made'})
      /\ Cardinality(Pending \cup {made'}) = Cardinality(Pending) + 1
  <2>1. made' \notin Pending
    BY <1>0, <1>1, <1>3
  <2> QED BY <1>3, <2>1, FS_AddElement
<1>7. ASSUME NEW p \in Partitions, buffer' = [buffer EXCEPT ![p] = Append(@, made')],
             errors' = errors, future' = "open", pc' = "attach"
      PROVE  IndInv'
  <2>1. /\ buffer' \in [Partitions -> Seq(Events)]
        /\ PartitionInv' /\ PlaceInv'
        /\ Pending' = Pending \cup {made'}
    BY <1>1, <1>7, BufferedStep DEF kafka
  <2>2. TypeOK'
    BY <1>0, <1>1, <1>4, <1>7, <2>1 DEF TypeOK
  <2>3. Lost' \subseteq Lost /\ made' \notin Lost'
    BY <1>1, <1>5, <2>1 DEF Lost, Delivered
  <2>4. Unwatched' = {made'}
    BY <1>7 DEF Unwatched
  <2>5. Pending' \cup Unwatched' = Pending \cup {made'} /\ Lost' \ Unwatched' \subseteq Lost
    BY <2>1, <2>3, <2>4
  <2>6. /\ Cardinality(Lost' \ Unwatched') <= Cardinality(Lost)
        /\ Cardinality(Lost' \ Unwatched') \in Nat
    BY <1>3, <2>5, Smaller
  <2>7. CountInv'
    <3>1. Cardinality(Pending' \cup Unwatched') = Cardinality(Pending) + 1
      BY <1>6, <2>5, Zenon
    <3> QED BY <1>0, <1>1, <1>3, <1>7, <2>6, <3>1 DEF CountInv
  <2>8. MainInv' /\ FutureInv'
    BY <1>1, <1>4, <1>7, <2>3 DEF MainInv, FutureInv
  <2> QED BY <2>1, <2>2, <2>7, <2>8 DEF IndInv
<1>8. ASSUME buffer' = buffer
      PROVE  /\ PartitionInv' /\ PlaceInv' /\ Pending' = Pending
             /\ Lost' \subseteq Lost \cup {made'}
  <2>1. \A q \in Partitions : Held(q)' = Held(q) /\ Kept(q)'
    BY <1>0, <1>1, <1>8, Unmoved, UnmovedKept DEF IndInv, PartitionInv
  <2>2. PartitionInv' /\ PlaceInv' /\ Pending' = Pending
    BY <2>1 DEF IndInv, PartitionInv, PlaceInv, Pending
  <2>3. Lost' \subseteq Lost \cup {made'}
    BY <1>1, <1>5, <2>2 DEF Lost, Delivered
  <2> QED BY <2>2, <2>3
<1>9. ASSUME buffer' = buffer, errors' = errors, future' = "failed", pc' = "attach"
      PROVE  IndInv'
  <2>1. /\ PartitionInv' /\ PlaceInv' /\ Pending' = Pending
        /\ Lost' \subseteq Lost \cup {made'}
    BY <1>8, <1>9
  <2>2. TypeOK'
    BY <1>0, <1>1, <1>4, <1>9 DEF TypeOK
  <2>3. Unwatched' = {made'}
    BY <1>9 DEF Unwatched
  <2>4. Pending' \cup Unwatched' = Pending \cup {made'} /\ Lost' \ Unwatched' \subseteq Lost
    BY <2>1, <2>3
  <2>5. /\ Cardinality(Lost' \ Unwatched') <= Cardinality(Lost)
        /\ Cardinality(Lost' \ Unwatched') \in Nat
    BY <1>3, <2>4, Smaller
  <2>6. CountInv'
    <3>1. Cardinality(Pending' \cup Unwatched') = Cardinality(Pending) + 1
      BY <1>6, <2>4, Zenon
    <3> QED BY <1>0, <1>1, <1>3, <1>9, <2>5, <3>1 DEF CountInv
  <2>7. made' \notin Pending'
    BY <1>0, <1>1, <1>3, <2>1
  <2>8. MainInv' /\ FutureInv'
    BY <1>1, <1>4, <1>9, <2>7 DEF MainInv, FutureInv
  <2> QED BY <2>1, <2>2, <2>6, <2>8 DEF IndInv
<1>10. ASSUME buffer' = buffer, errors' = errors + 1, future' = future, pc' = After(made')
       PROVE  IndInv'
  <2>1. /\ PartitionInv' /\ PlaceInv' /\ Pending' = Pending
        /\ Lost' \subseteq Lost \cup {made'}
    BY <1>8, <1>10
  <2>2. /\ pc' \in {"run", "flush", "final"}
        /\ pc' \in {"run", "flush"} => made' < MaxEvents
    BY <1>1, <1>10, AfterAnEvent
  <2>3. TypeOK'
    <3>1. errors' \in 0 .. made'
      BY <1>0, <1>1, <1>3, <1>10
    <3> QED BY <1>0, <1>1, <1>4, <1>10, <2>2, <3>1 DEF TypeOK
  <2>4. Unwatched' = {} /\ future' = "watched"
    BY <1>2, <1>10 DEF Unwatched
  <2>5. /\ Cardinality(Lost') <= Cardinality(Lost) + 1 /\ Cardinality(Lost') \in Nat
    <3>1. IsFiniteSet({made'}) /\ Cardinality({made'}) = 1
      BY FS_Singleton
    <3>2. /\ IsFiniteSet(Lost \cup {made'}) /\ Cardinality(Lost \cup {made'}) \in Nat
          /\ Cardinality(Lost \cup {made'}) <= Cardinality(Lost) + 1
      BY <1>3, <3>1, Sizes
    <3>3. /\ Cardinality(Lost') \in Nat
          /\ Cardinality(Lost') <= Cardinality(Lost \cup {made'})
      BY <2>1, <3>2, Smaller
    <3> QED BY <1>3, <3>2, <3>3
  <2>6. CountInv'
    <3>1. Pending' \cup Unwatched' = Pending /\ Lost' \ Unwatched' = Lost'
      BY <2>1, <2>4
    <3>2. /\ Cardinality(Pending' \cup Unwatched') = Cardinality(Pending)
          /\ Cardinality(Lost' \ Unwatched') = Cardinality(Lost')
      BY <3>1, Zenon
    <3> QED BY <1>0, <1>1, <1>3, <1>10, <2>5, <3>2 DEF CountInv
  <2>7. MainInv' /\ FutureInv'
    BY <2>2, <2>4 DEF MainInv, FutureInv
  <2> QED BY <2>1, <2>3, <2>6, <2>7 DEF IndInv
<1> QED BY <1>7, <1>9, <1>10 DEF Send, Buffered

(* An event that failed before it had its errback is counted now; of one   *)
(* that is open nothing is lost.                                           *)
LEMMA AttachStep ==
  ASSUME IndInv, Attach
  PROVE  IndInv'
<1>0. TypeOK /\ made \in Nat /\ errors \in Nat /\ sent \in Nat /\ sent < made
  BY DEF IndInv, TypeOK, MainInv, Attach
<1>1. /\ UNCHANGED <<made, buffer, flight, topic>> /\ pc = "attach" /\ future' = "watched"
      /\ sent' \in {sent, sent + 1} /\ pc' \in {After(made), "final"}
      /\ errors' = IF future = "failed" THEN errors + 1 ELSE errors
  BY DEF Attach, kafka
<1>2. \A q \in Partitions : Held(q)' = Held(q) /\ Kept(q)'
  BY <1>0, <1>1, Unmoved, UnmovedKept DEF IndInv, PartitionInv
<1>3. PartitionInv' /\ PlaceInv' /\ Pending' = Pending
  BY <1>2 DEF IndInv, PartitionInv, PlaceInv, Pending
<1>4. Lost' = Lost
  BY <1>1, <1>3 DEF Lost, Delivered
<1>5. /\ IsFiniteSet(Pending) /\ Cardinality(Pending) \in Nat
      /\ IsFiniteSet(Lost) /\ Cardinality(Lost) \in Nat
      /\ IsFiniteSet(Lost \ Unwatched) /\ Cardinality(Lost \ Unwatched) \in Nat
  BY <1>0, FiniteCounts, FS_Difference, FS_CardinalityType DEF IndInv
<1>6. /\ errors + Cardinality(Pending \cup Unwatched) <= made
      /\ Cardinality(Lost \ Unwatched) <= errors
  BY <1>1 DEF IndInv, CountInv
<1>7. errors' + Cardinality(Pending) <= made /\ Cardinality(Lost) <= errors'
  <2>1. CASE future = "watched"
    <3>1. Pending \cup Unwatched = Pending /\ Lost \ Unwatched = Lost
      BY <2>1 DEF Unwatched
    <3> QED BY <1>1, <1>6, <2>1, <3>1
  <2>2. CASE future = "open"
    <3>1. IsFiniteSet(Pending \cup {made})
      BY <1>5, FS_AddElement
    <3>2. /\ Cardinality(Pending) <= Cardinality(Pending \cup {made})
          /\ Cardinality(Pending \cup {made}) \in Nat
      BY <3>1, Smaller
    <3>3. made \notin Lost
      BY <1>1, <2>2 DEF IndInv, FutureInv
    <3>4. Pending \cup Unwatched = Pending \cup {made} /\ Lost \ Unwatched = Lost
      BY <2>2, <3>3 DEF Unwatched
    <3> QED BY <1>0, <1>1, <1>5, <1>6, <2>2, <3>2, <3>4
  <2>3. CASE future = "failed"
    <3>1. made \notin Pending
      BY <2>3 DEF IndInv, FutureInv
    <3>2. Cardinality(Pending \cup {made}) = Cardinality(Pending) + 1
      BY <1>5, <3>1, FS_AddElement
    <3>3. /\ Pending \cup Unwatched = Pending \cup {made}
          /\ Lost \subseteq (Lost \ Unwatched) \cup {made}
      BY <2>3 DEF Unwatched
    <3>4. Cardinality(Lost) <= Cardinality(Lost \ Unwatched) + 1
      <4>1. IsFiniteSet({made}) /\ Cardinality({made}) = 1
        BY FS_Singleton
      <4>2. /\ IsFiniteSet((Lost \ Unwatched) \cup {made})
            /\ Cardinality((Lost \ Unwatched) \cup {made}) \in Nat
            /\ Cardinality((Lost \ Unwatched) \cup {made}) <= Cardinality(Lost \ Unwatched) + 1
        BY <1>5, <4>1, Sizes
      <4>3. Cardinality(Lost) <= Cardinality((Lost \ Unwatched) \cup {made})
        BY <3>3, <4>2, Smaller
      <4> QED BY <1>5, <4>2, <4>3
    <3> QED BY <1>0, <1>1, <1>5, <1>6, <2>3, <3>2, <3>3, <3>4
  <2> QED BY <1>0, <2>1, <2>2, <2>3 DEF TypeOK
<1>8. CountInv' /\ FutureInv'
  <2>1. Unwatched' = {}
    BY <1>1 DEF Unwatched
  <2>2. Pending' \cup Unwatched' = Pending /\ Lost' \ Unwatched' = Lost
    BY <1>3, <1>4, <2>1
  <2> QED BY <1>1, <1>7, <2>2 DEF CountInv, FutureInv
<1>9. /\ pc' \in {"run", "flush", "final"}
      /\ pc' \in {"run", "flush"} => made < MaxEvents
  <2>1. made \in Events
    BY <1>0, ProducerAssumption DEF TypeOK, Events
  <2> QED BY <1>1, <2>1, AfterAnEvent
<1>10. MainInv'
  BY <1>1, <1>9 DEF MainInv
<1>11. TypeOK'
  <2>1. sent' \in 0 .. made /\ errors' \in 0 .. made
    BY <1>0, <1>1, <1>5, <1>7
  <2> QED BY <1>0, <1>1, <1>9, <2>1 DEF TypeOK
<1> QED BY <1>3, <1>8, <1>10, <1>11 DEF IndInv

(* Steps that only move main() keep all but its own invariant.             *)
LEMMA OnlyMain ==
  ASSUME IndInv, UNCHANGED <<made, buffer, sent, errors, future, kafka>>,
         pc' \in {"run", "attach", "flush", "final", "stopped", "dead"},
         pc' # "dead" => pc # "dead", MainInv'
  PROVE  IndInv'
<1>0. TypeOK /\ made \in Nat /\ UNCHANGED <<flight, topic>>
  BY DEF IndInv, TypeOK, kafka
<1>1. \A q \in Partitions : Held(q)' = Held(q) /\ Kept(q)'
  BY <1>0, Unmoved, UnmovedKept DEF IndInv, PartitionInv
<1>2. PartitionInv' /\ PlaceInv' /\ Pending' = Pending
  BY <1>1 DEF IndInv, PartitionInv, PlaceInv, Pending
<1>3. Lost' = Lost
  BY <1>0, <1>2 DEF Lost, Delivered
<1>4. CountInv' /\ FutureInv'
  BY <1>2, <1>3, NoneLost
<1>5. TypeOK'
  BY <1>0 DEF TypeOK
<1> QED BY <1>2, <1>4, <1>5 DEF IndInv

(* A kill loses the buffers: less is pending, and losses count no more.    *)
LEMMA DieStep ==
  ASSUME IndInv, Die
  PROVE  IndInv'
<1>0. TypeOK /\ made \in Nat
  BY DEF IndInv, TypeOK
<1>1. /\ UNCHANGED <<made, sent, errors, future, flight, topic>> /\ pc' = "dead"
      /\ buffer' = [p \in Partitions |-> <<>>]
  BY DEF Die, kafka
<1>2. \A p \in Partitions : buffer'[p] = <<>> /\ Range(buffer'[p]) = {}
  BY <1>1 DEF Range
<1>3. \A p \in Partitions : InFlight(p)' = InFlight(p) /\ Held(p)' \subseteq Held(p)
  BY <1>1, <1>2 DEF InFlight, Held
<1>4. ASSUME NEW p \in Partitions PROVE Kept(p)'
  <2>0. Kept(p)
    BY DEF IndInv, PartitionInv
  <2>1. Shape(p)' /\ Written(p)'
    BY <1>1, <1>2, <2>0 DEF Kept, Shape, Written, Increasing
  <2>2. Made(p)' /\ Age(p)'
    BY <1>1, <1>2, <1>3, <2>0 DEF Kept, Made, Age, Below
  <2>3. InOrder(topic[p])' /\ BatchInOrder(topic[p], InFlight(p))'
    BY <1>1, <1>3, <2>0 DEF Kept
  <2> QED BY <2>1, <2>2, <2>3 DEF Kept
<1>5. PartitionInv' /\ Pending' \subseteq Pending
  BY <1>3, <1>4 DEF PartitionInv, Pending
<1>6. PlaceInv'
  BY <1>3 DEF IndInv, PlaceInv
<1>7. CountInv' /\ FutureInv'
  BY <1>1, <1>5, NoneLost
<1>8. TypeOK'
  BY <1>0, <1>1 DEF TypeOK
<1> QED BY <1>1, <1>5, <1>6, <1>7, <1>8 DEF IndInv, MainInv

-----------------------------------------------------------------------------
(* Theorems                                                                *)

LEMMA InitInv == Init => IndInv
<1> SUFFICES ASSUME Init PROVE IndInv
  OBVIOUS
<1>1. \A p \in Partitions : buffer[p] = <<>> /\ flight[p] = <<>> /\ topic[p] = <<>>
  BY DEF Init
<1>2. Range(<<>>) = {}
  BY DEF Range
<1>3. \A p \in Partitions : InFlight(p) = {} /\ Held(p) = {}
  BY <1>1, <1>2 DEF InFlight, Held
<1>4. TypeOK
  BY ProducerAssumption DEF Init, TypeOK
<1>5. ASSUME NEW p \in Partitions PROVE Kept(p)
  <2>1. Shape(p) /\ Written(p)
    BY <1>1 DEF Shape, Written, Increasing
  <2>2. Made(p) /\ Age(p)
    BY <1>1, <1>2, <1>3 DEF Made, Age, Below
  <2>3. InOrder(topic[p]) /\ BatchInOrder(topic[p], InFlight(p))
    BY <1>1 DEF InOrder, BatchInOrder
  <2> QED BY <2>1, <2>2, <2>3 DEF Kept
<1>6. PartitionInv /\ PlaceInv /\ Pending = {}
  BY <1>3, <1>5 DEF PartitionInv, PlaceInv, Pending
<1>7. Lost = {}
  BY DEF Init, Lost
<1>8. CountInv
  <2>1. Pending \cup Unwatched = {} /\ Lost \ Unwatched = {}
    BY <1>6, <1>7 DEF Init, Unwatched
  <2>2. Cardinality(Pending \cup Unwatched) = 0 /\ Cardinality(Lost \ Unwatched) = 0
    BY <2>1, FS_EmptySet, Zenon
  <2> QED BY <2>2 DEF Init, CountInv
<1>9. MainInv /\ FutureInv
  BY ProducerAssumption DEF Init, MainInv, FutureInv
<1> QED BY <1>4, <1>6, <1>8, <1>9 DEF IndInv

LEMMA NextInv == IndInv /\ [Next]_vars => IndInv'
<1> SUFFICES ASSUME IndInv, [Next]_vars PROVE IndInv'
  OBVIOUS
<1>1. CASE Send
  BY <1>1, SendStep
<1>2. CASE Attach
  BY <1>2, AttachStep
<1>3. CASE Interrupt
  <2>1. MainInv'
    BY <1>3 DEF Interrupt, MainInv
  <2> QED BY <1>3, <2>1, OnlyMain DEF Interrupt
<1>4. CASE Flush
  <2>1. MainInv'
    BY <1>4 DEF Flush, MainInv, IndInv, Flushed, kafka
  <2> QED BY <1>4, <2>1, OnlyMain DEF Flush
<1>5. CASE Die
  BY <1>5, DieStep
<1>6. ASSUME NEW p \in Partitions, SenderStep(p) PROVE IndInv'
  <2>1. pc # "stopped"
    BY <1>6, Running
  <2>2. CASE Request(p)
    BY <2>1, <2>2, RequestStep
  <2>3. ASSUME NEW i \in DOMAIN flight[p],
               Write(p, i) \/ Acknowledged(p, i) \/ Retry(p, i) \/ Fail(p, i)
        PROVE  IndInv'
    BY <2>1, <2>3, WriteStep, AcknowledgedStep, RetryStep, FailStep
  <2> QED BY <1>6, <2>2, <2>3 DEF SenderStep
<1>7. CASE UNCHANGED vars
  <2>1. UNCHANGED <<made, buffer, sent, errors, future, kafka, pc>>
    BY <1>7 DEF vars, client
  <2>2. MainInv' /\ pc' \in {"run", "attach", "flush", "final", "stopped", "dead"}
    BY <2>1 DEF IndInv, TypeOK, MainInv, Flushed, kafka
  <2> QED BY <2>1, <2>2, OnlyMain
<1> QED BY <1>1, <1>2, <1>3, <1>4, <1>5, <1>6, <1>7 DEF Next

(* The inductive invariant of the producer, for any partitions, retries    *)
(* and number of events.                                                   *)
THEOREM Invariant == Spec => []IndInv
BY InitInv, NextInv, PTL DEF Spec

(* Every variable has its type: sent and errors never exceed what was made.*)
THEOREM TypeCorrect == Spec => []TypeOK
<1>1. IndInv => TypeOK
  BY DEF IndInv
<1> QED BY <1>1, Invariant, PTL

(* With one request under way, first copies are in the order of sending,   *)
(* whatever is retried, fails, or is written after its request timed out.  *)
THEOREM FirstCopiesAreInOrder == Spec => []FirstCopiesInOrder
<1>1. IndInv => FirstCopiesInOrder
  <2> SUFFICES ASSUME IndInv, NEW p \in Partitions
               PROVE  InOrder(topic[p])
    BY DEF FirstCopiesInOrder, InOrder, Before
  <2> QED BY DEF IndInv, PartitionInv, Kept
<1> QED BY <1>1, Invariant, PTL

(* When main() stops nothing is pending, so what was made and is not in    *)
(* the topic has been counted, whatever failed and wherever Ctrl+C came;   *)
(* all but the last event, when it came before that had its errback.       *)
THEOREM NothingIsLostSilently == Spec => []NothingLostSilently
<1>1. IndInv => NothingLostSilently
  <2> SUFFICES ASSUME IndInv, pc = "stopped"
               PROVE  Cardinality({e \in 1 .. made : ~Delivered(e)} \ Unwatched) <= errors
    BY DEF NothingLostSilently
  <2>1. \A p \in Partitions : buffer[p] = <<>> /\ flight[p] = <<>>
    BY DEF IndInv, MainInv, Flushed
  <2>2. Pending = {}
    BY <2>1 DEF Pending, Held, InFlight, Range
  <2>3. Lost = {e \in 1 .. made : ~Delivered(e)}
    BY <2>2 DEF Lost
  <2> QED BY <2>3 DEF IndInv, CountInv
<1> QED BY <1>1, Invariant, PTL
=============================================================================
