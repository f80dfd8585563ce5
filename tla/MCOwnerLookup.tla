---------------------------- MODULE MCOwnerLookup ----------------------------
(* Instances of OwnerLookup for TLC.                                         *)
EXTENDS OwnerLookup

\* The bootstrap node uses the default, the others are configured with two shards.
TwoTotals == [n \in Node |-> IF n = Bootstrap THEN 0 ELSE 2]
=============================================================================
