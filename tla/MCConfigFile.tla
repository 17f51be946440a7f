---------------------------- MODULE MCConfigFile ----------------------------
(* ConfigFile on a small instance: see ConfigFile.cfg for the bounds.      *)
EXTENDS ConfigFile
=============================================================================
