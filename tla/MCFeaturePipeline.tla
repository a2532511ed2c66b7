------------------------- MODULE MCFeaturePipeline -------------------------
(* One or two slots for DAG runs; micro-batches that are clean, that hold  *)
(* a duplicate transaction_id, a null transaction_type or an amount that   *)
(* is no number.                                                           *)
EXTENDS FeaturePipeline

CONSTANTS r1, r2

OneSlot  == {r1}
TwoSlots == {r1, r2}
OneFlaw  == {{}, {"stg", "int"}}
AllFlaws  == {{}, {"stg", "int"}, {"recon"}, {"cast"}}
=============================================================================
