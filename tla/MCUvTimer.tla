----------------------------- MODULE MCUvTimer ------------------------------
(* UvTimer on small instances; the timer at the lowest address repeats. *)
EXTENDS UvTimer

MCRepeating == {1}
=============================================================================
