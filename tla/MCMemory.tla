------------------------------ MODULE MCMemory ------------------------------
(* Virtual pages for the runs of Memory.                                   *)
EXTENDS Memory

MCHeapPages == {<<2, 0, 0, 0>>, <<2, 0, 0, 1>>, <<2, 1, 0, 0>>}
=============================================================================
