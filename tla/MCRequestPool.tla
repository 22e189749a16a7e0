---------------------------- MODULE MCRequestPool -----------------------------
(* Instances of the request pool for TLC. *)
EXTENDS RequestPool
=============================================================================
