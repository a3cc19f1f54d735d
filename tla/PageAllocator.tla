--------------------------- MODULE PageAllocator ---------------------------
(***************************************************************************)
(* What the clients of a page allocator rely on (buddy.h): a block handed  *)
(* out lies in the region and overlaps no block that is still held, and a  *)
(* block is given back as a whole.  Which block, and when a request fails, *)
(* is left open.                                                           *)
(***************************************************************************)
EXTENDS Integers

CONSTANTS
  Lowest, Highest, \* the pages that can be handed out
  Sizes            \* the sizes a block can have

VARIABLE held    \* the blocks clients hold, as <<first page, size>>

PagesOf(b) == b[1] .. b[1] + b[2] - 1

Init == held = {}

Give(b) ==
  /\ PagesOf(b) \subseteq Lowest .. Highest
  /\ \A h \in held : PagesOf(b) \cap PagesOf(h) = {}
  /\ held' = held \cup {b}

TakeBack(b) ==
  /\ b \in held
  /\ held' = held \ {b}

Next ==
  \/ \E b \in (Lowest .. Highest) \X Sizes : Give(b)
  \/ \E b \in held : TakeBack(b)

Spec == Init /\ [][Next]_held
=============================================================================
