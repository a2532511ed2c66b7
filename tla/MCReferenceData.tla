-------------------------- MODULE MCReferenceData --------------------------
(* Two users, and one change of a row for every tick of the clock.         *)
EXTENDS ReferenceData

CONSTANTS a, b

TwoAttrs == {a, b}
=============================================================================
