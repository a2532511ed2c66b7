--------------------------- MODULE MCBronzeLoad ---------------------------
(* One load script at a time; a Delta table read in two partitions.          *)
EXTENDS BronzeLoad

CONSTANTS l1, p1, p2

OneLoader  == {l1}
TwoParts   == {p1, p2}
OneFlaw    == {{}, {"stg"}}
=============================================================================
