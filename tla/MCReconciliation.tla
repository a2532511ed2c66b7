------------------------- MODULE MCReconciliation -------------------------
(* Tables of up to three rows, with amounts on both sides of every limit.  *)
EXTENDS Reconciliation

CONSTANTS i1, i2

TwoIds == {i1, i2}
AllAmounts   == {-15, -5, 0, 4, 5, 14, 15}
AllTypes     == {"PURCHASE", "CHARGEBACK", None}
=============================================================================
