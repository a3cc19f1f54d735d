---------------------------- MODULE AddressSpace ----------------------------
(***************************************************************************)
(* What the callers of vmm.h rely on: a page is mapped to a frame or to    *)
(* none, and an operation changes the mapping of the page it is given, or  *)
(* fails and changes nothing.                                              *)
(***************************************************************************)
EXTENDS Integers

CONSTANTS VirtPages, Frames, Unmapped

VARIABLE physical    \* virtual page -> frame, or Unmapped

Init == physical \in [VirtPages -> Frames \cup {Unmapped}]

OthersKept(v) == \A w \in VirtPages \ {v} : physical'[w] = physical[w]

Map(v) ==
  /\ physical[v] = Unmapped
  /\ physical'[v] \in Frames
  /\ OthersKept(v)

Unmap(v) ==
  /\ physical[v] # Unmapped
  /\ physical'[v] = Unmapped
  /\ OthersKept(v)

Next == \E v \in VirtPages : Map(v) \/ Unmap(v)

Spec == Init /\ [][Next]_physical
=============================================================================
