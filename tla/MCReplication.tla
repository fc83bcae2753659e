--------------------------- MODULE MCReplication ---------------------------
(* Instances of Replication for TLC: one or two goroutines.                  *)
EXTENDS Replication
=============================================================================
