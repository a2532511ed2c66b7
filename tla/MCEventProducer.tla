-------------------------- MODULE MCEventProducer --------------------------
(* Two partitions; every interleaving of main, sender and broker.   *)
EXTENDS EventProducer

CONSTANTS p1, p2

TwoPartitions == {p1, p2}
=============================================================================
