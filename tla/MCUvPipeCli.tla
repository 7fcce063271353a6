---------------------------- MODULE MCUvPipeCli -----------------------------
(* Clients of both classes on small instances. *)
EXTENDS UvPipeCli
=============================================================================
