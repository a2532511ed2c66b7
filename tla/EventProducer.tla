--------------------------- MODULE EventProducer ---------------------------
(***************************************************************************)
(* ingestion/transaction_generator: the main loop of run.py, the wrapper   *)
(* TransactionKafkaProducer with its counters, and the sender thread of    *)
(* kafka-python behind it.                                                 *)
(*                                                                         *)
(* kafka-python and the broker are external.  send() buffers a record for  *)
(* the partition of its key; the sender thread takes batches off the       *)
(* buffers.  A request whose answer is an error, or is lost, is repeated   *)
(* up to retries times, whether or not the broker has written its batch;   *)
(* then the batch fails, and the future of each of its records runs the    *)
(* errbacks it has; one that is added to a failed future runs at once.     *)
(* Both threads count errors; CPython 3.11 does not switch within the +=.  *)
(* An event is the number it was generated as.                             *)
(***************************************************************************)
EXTENDS Naturals, Sequences, FiniteSets, SequencesExt

CONSTANTS
  Partitions,
  Retries,      \* retries of the producer
  PrintEvery,   \* PRINT_EVERY
  MaxEvents     \* --max-events

VARIABLES
  made,         \* events that send() has taken or refused
  buffer,       \* partition |-> events waiting for a request
  flight,       \* partition |-> batches under way: [events, tries, written]
  topic,        \* partition |-> transactions.raw
  sent, errors, \* the counters of the wrapper
  future,       \* of the last event: without an errback it is open or failed
  pc            \* where main() is

kafka  == <<flight, topic>>
client == <<made, buffer, sent, errors, future, pc>>
vars   == <<client, kafka>>

Events  == 1 .. MaxEvents
Batch   == [events : Seq(Events), tries : 0 .. Retries, written : BOOLEAN]

ASSUME ProducerAssumption ==
  /\ Retries \in Nat /\ PrintEvery \in Nat \ {0} /\ MaxEvents \in Nat \ {0}

TypeOK ==
  /\ made \in 0 .. MaxEvents
  /\ buffer \in [Partitions -> Seq(Events)]
  /\ flight \in [Partitions -> Seq(Batch)]
  /\ topic \in [Partitions -> Seq(Events)]
  /\ sent \in 0 .. made /\ errors \in 0 .. made
  /\ future \in {"watched", "open", "failed"}
  /\ pc \in {"run", "attach", "flush", "final", "stopped", "dead"}

Init ==
  /\ made = 0 /\ sent = 0 /\ errors = 0
  /\ buffer = [p \in Partitions |-> <<>>]
  /\ flight = buffer /\ topic = buffer
  /\ future = "watched" /\ pc = "run"

-----------------------------------------------------------------------------
(* main()                                                                  *)

(* Where the loop goes on after its nth event.                             *)
After(n) == IF n = MaxEvents THEN "final"
            ELSE IF n % PrintEvery = 0 THEN "flush" ELSE "run"

Buffered(e) == \E p \in Partitions : buffer' = [buffer EXCEPT ![p] = Append(@, e)]

(* _producer.send() buffers the event, and returns a future; or it returns *)
(* one that has failed already, or raises a KafkaError.                    *)
Send ==
  /\ pc = "run" /\ made' = made + 1
  /\ \/ Buffered(made') /\ future' = "open" /\ pc' = "attach" /\ UNCHANGED errors
     \/ future' = "failed" /\ pc' = "attach" /\ UNCHANGED <<buffer, errors>>
     \/ errors' = errors + 1 /\ pc' = After(made') /\ UNCHANGED <<buffer, future>>
  /\ UNCHANGED <<sent, kafka>>

(* .add_errback(), and the event counts as sent, if Ctrl+C is not between. *)
Attach ==
  /\ pc = "attach" /\ future' = "watched"
  /\ errors' = IF future = "failed" THEN errors + 1 ELSE errors
  /\ \/ sent' = sent + 1 /\ pc' = After(made)
     \/ pc' = "final" /\ UNCHANGED sent
  /\ UNCHANGED <<made, buffer, kafka>>

(* Ctrl+C anywhere else in the loop; after Send the last event is left     *)
(* without an errback.                                                     *)
Interrupt ==
  /\ pc \in {"run", "attach", "flush"} /\ pc' = "final"
  /\ UNCHANGED <<made, buffer, sent, errors, future, kafka>>

Flushed == \A p \in Partitions : buffer[p] = <<>> /\ flight[p] = <<>>

(* flush() returns, every PrintEvery events and in the finally block.      *)
Flush ==
  /\ Flushed
  /\ \/ pc = "flush" /\ pc' = "run"
     \/ pc = "final" /\ pc' = "stopped"
  /\ UNCHANGED <<made, buffer, sent, errors, future, kafka>>

(* A kill, or a second Ctrl+C in the finally block: buffers are lost.      *)
Die ==
  /\ pc \in {"run", "attach", "flush", "final"} /\ pc' = "dead"
  /\ buffer' = [p \in Partitions |-> <<>>]
  /\ UNCHANGED <<made, sent, errors, future, kafka>>

-----------------------------------------------------------------------------
(* The sender thread and the broker                                        *)

Alive == pc # "dead"

(* Mutant: the default of kafka-python.                                    *)
DefaultInFlight == 5

MaxInFlight == 1

Request(p) ==
  /\ Alive /\ Len(flight[p]) < MaxInFlight /\ buffer[p] # <<>>
  /\ \E n \in 1 .. Len(buffer[p]) :
       /\ flight' = [flight EXCEPT ![p] = Append(@,
            [events |-> SubSeq(buffer[p], 1, n), tries |-> 0, written |-> FALSE])]
       /\ buffer' = [buffer EXCEPT ![p] = SubSeq(@, n + 1, Len(@))]
  /\ UNCHANGED <<made, sent, errors, future, pc, topic>>

(* All replicas have the batch; the acknowledgement is on its way.         *)
Write(p, i) ==
  /\ ~flight[p][i].written
  /\ topic' = [topic EXCEPT ![p] = @ \o flight[p][i].events]
  /\ flight' = [flight EXCEPT ![p][i].written = TRUE]
  /\ UNCHANGED client

Acknowledged(p, i) ==
  /\ Alive /\ flight[p][i].written
  /\ flight' = [flight EXCEPT ![p] = RemoveAt(@, i)]
  /\ UNCHANGED <<client, topic>>

(* Mutant: the comparison lets one more retry through.                     *)
RetryOnceMore(p, i) ==
  /\ Alive /\ flight[p][i].tries <= Retries
  /\ flight' = [flight EXCEPT ![p][i].tries = @ + 1, ![p][i].written = FALSE]
  /\ UNCHANGED <<client, topic>>

(* An error that a retry may cure, or no answer in time.                   *)
Retry(p, i) ==
  /\ Alive /\ flight[p][i].tries < Retries
  /\ flight' = [flight EXCEPT ![p][i].tries = @ + 1, ![p][i].written = FALSE]
  /\ UNCHANGED <<client, topic>>

(* The event whose future has no errback.                                  *)
Unwatched == IF future = "watched" THEN {} ELSE {made}

(* Mutant: an errback per batch and not per record.                        *)
OnErrorOnce(p, i) == errors' = errors + 1 /\ UNCHANGED future

(* _on_error, for each record of the batch that has it.                    *)
OnError(p, i) ==
  LET failed == Range(flight[p][i].events)
  IN  /\ errors' = errors + Cardinality(failed \ Unwatched)
      /\ future' = IF failed \cap Unwatched = {} THEN future ELSE "failed"

(* Mutant: what fails is buffered again.                                   *)
FailToBuffer(p, i) ==
  /\ Alive /\ ~flight[p][i].written
  /\ buffer' = [buffer EXCEPT ![p] = flight[p][i].events \o @]
  /\ flight' = [flight EXCEPT ![p] = RemoveAt(@, i)]
  /\ UNCHANGED <<made, sent, errors, future, pc, topic>>

(* The last retry is used up, the error is final, or the batch expires.    *)
Fail(p, i) ==
  /\ Alive
  /\ flight[p][i].written => flight[p][i].tries = Retries
  /\ OnError(p, i)
  /\ flight' = [flight EXCEPT ![p] = RemoveAt(@, i)]
  /\ UNCHANGED <<made, buffer, sent, pc, topic>>

SenderStep(p) ==
  \/ Request(p)
  \/ \E i \in DOMAIN flight[p] :
       Write(p, i) \/ Acknowledged(p, i) \/ Retry(p, i) \/ Fail(p, i)

Next ==
  \/ Send \/ Attach \/ Interrupt \/ Flush \/ Die
  \/ \E p \in Partitions : SenderStep(p)

Spec == Init /\ [][Next]_vars

(* The main and the sender thread are scheduled, and every request is      *)
(* answered or times out.                                                  *)
FairSpec ==
  /\ Spec /\ WF_vars(Flush)
  /\ \A p \in Partitions : WF_vars(SenderStep(p))

-----------------------------------------------------------------------------
(* Properties                                                              *)

Delivered(e) == \E p \in Partitions : e \in Range(topic[p])

(* max_in_flight_requests_per_connection=1, "Preserve ordering": in each   *)
(* partition the first copies of the events are in the order they were     *)
(* sent in, whatever is retried or gives up.                               *)
FirstCopiesInOrder ==
  \A p \in Partitions : \A j \in DOMAIN topic[p] : \A k \in 1 .. j - 1 :
    topic[p][k] > topic[p][j] =>
      \E i \in 1 .. k - 1 : topic[p][i] = topic[p][j]

(* When main() prints its report, each event it made is in the topic or    *)
(* among the errors, whatever was retried and whatever failed; but for one *)
(* at most, the last, if Ctrl+C has come before it had its errback.        *)
NothingLostSilently ==
  pc = "stopped" =>
    Cardinality({e \in 1 .. made : ~Delivered(e)} \ Unwatched) <= errors

(* A flush returns, however the broker answers.                            *)
FlushReturns == pc \in {"flush", "final"} ~> pc \in {"run", "stopped", "dead"}
=============================================================================
