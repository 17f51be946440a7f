----------------------------- MODULE MCLogging -----------------------------
(* Logging on a small instance: see Logging.cfg for the bounds.            *)
EXTENDS Logging
=============================================================================
