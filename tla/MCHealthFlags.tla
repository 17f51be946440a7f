--------------------------- MODULE MCHealthFlags ---------------------------
(* HealthFlags on small instances: see the .cfg files for the bounds.      *)
EXTENDS HealthFlags
=============================================================================
