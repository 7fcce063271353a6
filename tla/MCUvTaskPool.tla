---------------------------- MODULE MCUvTaskPool ----------------------------
(* UvTaskPool on small instances. *)
EXTENDS UvTaskPool, TLC

Symmetric == Permutations(Clients) \cup Permutations(Tasks) \cup Permutations(Workers)
=============================================================================
