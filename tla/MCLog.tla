------------------------------- MODULE MCLog --------------------------------
(* Log on small instances. *)
EXTENDS Log
=============================================================================
