------------------------------ MODULE MCMemMgr ------------------------------
(* MemMgr on small instances: the alignment and the limit are 4 instead of *)
(* 1024, the header 1 instead of 20.  A length of 3 fills the limit        *)
(* exactly and is small; 4 and 8 are large and of different size classes,  *)
(* which SetAlign(8) changes; after SetAllocMinLimit(2) 3 is large and in  *)
(* the class of 4.                                                         *)
EXTENDS MemMgr, TLC

Symmetric == Permutations(Callers) \cup Permutations(Blocks)
=============================================================================
