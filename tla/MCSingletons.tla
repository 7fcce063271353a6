---------------------------- MODULE MCSingletons ----------------------------
(* The singletons on small instances: a block of 3 words instead of 624,   *)
(* and words of 3 bits.                                                    *)
EXTENDS Singletons
=============================================================================
