------------------------------ MODULE MCKmalloc ------------------------------
(* Sizes for the run of Kmalloc.                                           *)
EXTENDS Kmalloc

CONSTANTS c1, c2

MCCacheSize == [c \in Caches |-> IF c = c1 THEN 1 ELSE 2]
=============================================================================
