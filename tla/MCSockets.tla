----------------------------- MODULE MCSockets ------------------------------
(* The sockets on small instances. *)
EXTENDS Sockets
=============================================================================
