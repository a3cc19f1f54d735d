------------------------------ MODULE MCBuddy ------------------------------
(* Buddy with powers of two for the sizes.                                 *)
EXTENDS Buddy

MCPagesPerOrder == [o \in Orders |-> 2 ^ o]
=============================================================================
