------------------------------- MODULE Buddy -------------------------------
(***************************************************************************)
(* The buddy allocator of mm/allocators/buddy.c.  A block is the index of  *)
(* its first page relative to base_addr.  Each turn of a loop and each     *)
(* level of a recursion is a step; pc says which function is executing.    *)
(* The allocator is entered again only when it has returned (pc = "ready").*)
(***************************************************************************)
EXTENDS Integers, Lists

CONSTANTS
  TotalPages,         \* total_pages
  PAGE_SIZE,
  BUDDY_MAX_ORDER,
  PagesPerOrder,      \* order -> 2^order
  Requests            \* the numbers of pages clients ask for

Orders == 0 .. BUDDY_MAX_ORDER
Pages == 0 .. TotalPages - 1

(* The pages that buddy_init sets aside for its two bitmaps: a bit and a   *)
(* byte for each page.                                                     *)
BitmapPages == ((TotalPages + 7) \div 8 + TotalPages + PAGE_SIZE - 1) \div PAGE_SIZE

ASSUME BuddyAssumption ==
  /\ TotalPages \in Nat /\ PAGE_SIZE \in Nat \ {0}
  /\ BitmapPages \in Nat /\ BitmapPages <= TotalPages
  /\ BUDDY_MAX_ORDER \in Nat
  /\ PagesPerOrder \in [Orders -> Nat \ {0}]
  /\ PagesPerOrder[0] = 1
  /\ \A o \in 1 .. BUDDY_MAX_ORDER : PagesPerOrder[o] = 2 * PagesPerOrder[o - 1]
  /\ Requests \subseteq Nat

VARIABLES
  free_lists,         \* order -> blocks, head first
  allocation_bitmap,  \* page -> allocated?
  order_bitmap,       \* page -> order of the allocation it belongs to
  held,               \* blocks clients hold: <<block, order>>
  pc,                 \* "ready", or the function that is executing
  order,              \* the order asked for, or of the block being freed
  level,              \* argument of split_block or try_merge, order of buddy_init
  block               \* current_addr of buddy_init, addr of try_merge

buddyVars == <<free_lists, allocation_bitmap, order_bitmap, held, pc, order,
               level, block>>

Init ==
  /\ free_lists = [o \in Orders |-> <<>>]
  /\ allocation_bitmap = [p \in Pages |-> FALSE]
  /\ order_bitmap = [p \in Pages |-> 0]
  /\ held = {}
  /\ pc = "init"
  /\ order = 0
  /\ level = BUDDY_MAX_ORDER
  /\ block = BitmapPages

(* The function that is executing returns; its locals are gone.            *)
Return ==
  /\ pc' = "ready"
  /\ order' = 0 /\ level' = 0 /\ block' = 0

add_to_free_list(lists, b, o) == [lists EXCEPT ![o] = Cons(b, @)]

remove_from_free_list(lists, b, o) == [lists EXCEPT ![o] = Without(@, b)]

BlockPages(b, o) == b .. b + PagesPerOrder[o] - 1

(* The bitmap with the pages of a block set, and with them cleared.        *)
bitmap_set(b, o) == [p \in Pages |-> p \in BlockPages(b, o) \/ allocation_bitmap[p]]

bitmap_clear(b, o) == [p \in Pages |-> p \notin BlockPages(b, o) /\ allocation_bitmap[p]]

-----------------------------------------------------------------------------
BlockFits == TotalPages - block >= PagesPerOrder[level]

(* buddy_init: blocks of decreasing order until no page remains.           *)
buddy_init ==
  /\ pc = "init"
  /\ \/ /\ BlockFits
        /\ free_lists' = add_to_free_list(free_lists, block, level)
        /\ block' = block + PagesPerOrder[level]
        /\ UNCHANGED <<pc, order, level>>
     \/ /\ ~BlockFits /\ level > 0
        /\ level' = level - 1
        /\ UNCHANGED <<free_lists, pc, order, block>>
     \/ /\ ~BlockFits /\ level = 0
        /\ Return
        /\ UNCHANGED free_lists
  /\ UNCHANGED <<allocation_bitmap, order_bitmap, held>>

-----------------------------------------------------------------------------
(* o is the smallest order that fits, or the largest one if none does.     *)
buddy_get_order_for_size(n, o) ==
  /\ PagesPerOrder[o] >= n \/ o = BUDDY_MAX_ORDER
  /\ \A k \in 0 .. o - 1 : PagesPerOrder[k] < n

(* buddy_alloc, up to its call of split_block.                             *)
buddy_alloc(n) ==
  /\ pc = "ready"
  /\ \E o \in Orders :
       /\ buddy_get_order_for_size(n, o)
       /\ order' = o /\ level' = o
       /\ pc' = IF free_lists[o] = <<>> THEN "search" ELSE "take"
  /\ UNCHANGED <<free_lists, allocation_bitmap, order_bitmap, held, block>>

(* split_block on its way up: it calls itself until the next larger order  *)
(* has a block, and fails at the largest order.                            *)
SearchLarger ==
  /\ pc = "search"
  /\ \/ /\ level >= BUDDY_MAX_ORDER
        /\ Return
     \/ /\ level < BUDDY_MAX_ORDER /\ free_lists[level + 1] = <<>>
        /\ level' = level + 1
        /\ UNCHANGED <<pc, order, block>>
     \/ /\ level < BUDDY_MAX_ORDER /\ free_lists[level + 1] # <<>>
        /\ pc' = "split"
        /\ UNCHANGED <<order, level, block>>
  /\ UNCHANGED <<free_lists, allocation_bitmap, order_bitmap, held>>

(* split_block on its way down: the head of the larger order is halved.    *)
split_block ==
  LET b == Head(free_lists[level + 1])
      taken == remove_from_free_list(free_lists, b, level + 1)
  IN
  /\ pc = "split"
  /\ free_lists' = add_to_free_list(add_to_free_list(taken, b, level),
                                    b + PagesPerOrder[level], level)
  /\ IF level = order THEN pc' = "take" /\ UNCHANGED level
                      ELSE level' = level - 1 /\ UNCHANGED pc
  /\ UNCHANGED <<allocation_bitmap, order_bitmap, held, order, block>>

(* The rest of buddy_alloc_order: take the head of the list and mark it.   *)
buddy_alloc_order ==
  LET b == Head(free_lists[order]) IN
  /\ pc = "take"
  /\ free_lists' = remove_from_free_list(free_lists, b, order)
  /\ allocation_bitmap' = bitmap_set(b, order)
  /\ order_bitmap' = [p \in Pages |->
                        IF p \in BlockPages(b, order) THEN order ELSE order_bitmap[p]]
  /\ held' = held \cup {<<b, order>>}
  /\ Return

-----------------------------------------------------------------------------
(* buddy_free, up to its call of try_merge.  Clients free blocks they hold *)
(* and, by mistake, pages that are free already.                           *)
buddy_free(h) ==
  LET o == order_bitmap[h[1]] IN
  /\ pc = "ready"
  /\ h \in held
  /\ allocation_bitmap[h[1]]
  /\ allocation_bitmap' = bitmap_clear(h[1], o)
  /\ order_bitmap' = [p \in Pages |->
                        IF p \in BlockPages(h[1], o) THEN 0 ELSE order_bitmap[p]]
  /\ free_lists' = add_to_free_list(free_lists, h[1], o)
  /\ held' = held \ {h}
  /\ pc' = "merge"
  /\ order' = o /\ level' = o /\ block' = h[1]

(* The double free is detected and ignored.                                *)
DoubleFree(p) ==
  /\ pc = "ready"
  /\ ~allocation_bitmap[p]
  /\ UNCHANGED buddyVars

(* get_buddy_addr: block ^ 2^order.                                        *)
get_buddy_addr(b, o) ==
  IF (b \div PagesPerOrder[o]) % 2 = 0 THEN b + PagesPerOrder[o] ELSE b - PagesPerOrder[o]

(* Variant: the buddy's own order is not looked at.                        *)
CanMerge_AnyOrder(b, o) ==
  /\ o < BUDDY_MAX_ORDER
  /\ get_buddy_addr(b, o) \in Pages
  /\ ~allocation_bitmap[get_buddy_addr(b, o)]

(* Variant: only a buddy above is merged.                                  *)
CanMerge_Above(b, o) ==
  /\ o < BUDDY_MAX_ORDER
  /\ get_buddy_addr(b, o) > b
  /\ get_buddy_addr(b, o) \in Range(free_lists[o])

(* The buddy is in range, its first page is not allocated, and it is in    *)
(* the free list of the same order.                                        *)
CanMerge(b, o) ==
  /\ o < BUDDY_MAX_ORDER
  /\ get_buddy_addr(b, o) \in Pages
  /\ ~allocation_bitmap[get_buddy_addr(b, o)]
  /\ get_buddy_addr(b, o) \in Range(free_lists[o])

(* Variant: the merged block starts where the freed one does.              *)
MergedStart_Freed(b, buddy) == b

MergedStart(b, buddy) == IF b < buddy THEN b ELSE buddy

(* One level of try_merge.                                                 *)
try_merge ==
  LET buddy == get_buddy_addr(block, level)
      merged == MergedStart(block, buddy)
      taken == remove_from_free_list(remove_from_free_list(free_lists, buddy, level),
                                     block, level)
  IN
  /\ pc = "merge"
  /\ \/ /\ CanMerge(block, level)
        /\ free_lists' = add_to_free_list(taken, merged, level + 1)
        /\ block' = merged
        /\ level' = level + 1
        /\ UNCHANGED <<pc, order>>
     \/ /\ ~CanMerge(block, level)
        /\ Return
        /\ UNCHANGED free_lists
  /\ UNCHANGED <<allocation_bitmap, order_bitmap, held>>

-----------------------------------------------------------------------------
Next ==
  \/ buddy_init
  \/ \E n \in Requests : buddy_alloc(n)
  \/ SearchLarger \/ split_block \/ buddy_alloc_order
  \/ \E h \in held : buddy_free(h)
  \/ \E p \in Pages : DoubleFree(p)
  \/ try_merge

Spec == Init /\ [][Next]_buddyVars

-----------------------------------------------------------------------------
FreeBlocks == {x \in Pages \X Orders : x[1] \in Range(free_lists[x[2]])}

(* The three records of who has a page agree, also while a call splits or  *)
(* merges: each page after the bitmaps is in exactly one block, which is   *)
(* in one free list or held by a client; the allocation bitmap has exactly *)
(* the pages that are held, so a double free is always detected; and the   *)
(* order stored for a held block, by which buddy_free goes, is its order.  *)
PagesAccounted ==
  /\ \A o \in Orders : IsInjective(free_lists[o])
  /\ FreeBlocks \cap held = {}
  /\ \A x, y \in FreeBlocks \cup held :
       x # y => BlockPages(x[1], x[2]) \cap BlockPages(y[1], y[2]) = {}
  /\ pc # "init" =>
       UNION {BlockPages(x[1], x[2]) : x \in FreeBlocks \cup held}
         = BitmapPages .. TotalPages - 1
  /\ \A p \in Pages :
       allocation_bitmap[p] <=> \E x \in held : p \in BlockPages(x[1], x[2])
  /\ \A x \in held : order_bitmap[x[1]] = x[2]

(* The allocator implements what its clients rely on.                      *)
Abstract == INSTANCE PageAllocator WITH
  Lowest <- BitmapPages, Highest <- TotalPages - 1,
  Sizes <- {PagesPerOrder[o] : o \in Orders},
  held <- {<<x[1], PagesPerOrder[x[2]]>> : x \in held}
IsPageAllocator == Abstract!Spec

(* When a call has returned no two buddies are both free: the bitmaps put  *)
(* blocks at indices that are no multiple of their size, so a block's two  *)
(* halves need not be buddies, and splitting frees blocks without a look   *)
(* for theirs; still try_merge never leaves a pair that it would merge.    *)
BuddiesMerged ==
  pc = "ready" => \A o \in Orders \ {BUDDY_MAX_ORDER} : \A b \in Range(free_lists[o]) :
                    get_buddy_addr(b, o) \notin Range(free_lists[o])
=============================================================================
