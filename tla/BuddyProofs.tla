---------------------------- MODULE BuddyProofs ----------------------------
(***************************************************************************)
(* The buddy allocator never has a page in two blocks and never loses one, *)
(* for any number of pages, any orders and any place of the bitmaps.       *)
(***************************************************************************)
EXTENDS Buddy, ListTheorems

Types ==
  /\ free_lists \in [Orders -> Seq(Pages)]
  /\ allocation_bitmap \in [Pages -> BOOLEAN]
  /\ order_bitmap \in [Pages -> Orders]
  /\ held \subseteq Pages \X Orders
  /\ pc \in {"init", "ready", "search", "split", "take", "merge"}
  /\ order \in Orders /\ level \in Orders
  /\ block \in 0 .. TotalPages

(* What the function that is executing has made sure of before its next    *)
(* step: the list it takes a head from has one, and the block it merges is *)
(* in the free list of its order.                                          *)
Places ==
  /\ pc = "init" => held = {} /\ BitmapPages <= block
  /\ pc = "split" => level < BUDDY_MAX_ORDER /\ free_lists[level + 1] # <<>> /\ order <= level
  /\ pc = "search" => order <= level
  /\ pc = "take" => free_lists[order] # <<>>
  /\ pc = "merge" => block \in Range(free_lists[level])

(* The blocks in B tile the pages from the bitmaps up to hi.               *)
Tiles(B, hi) ==
  /\ \A x \in B : BlockPages(x[1], x[2]) \subseteq BitmapPages .. hi - 1
  /\ \A p \in BitmapPages .. hi - 1 : \E x \in B : p \in BlockPages(x[1], x[2])
  /\ \A x, y \in B : \A p \in BlockPages(x[1], x[2]) :
       p \in BlockPages(y[1], y[2]) => x = y

(* While buddy_init runs only the pages below current_addr are in blocks.  *)
Limit == IF pc = "init" THEN block ELSE TotalPages

Bitmaps ==
  /\ \A p \in Pages :
       allocation_bitmap[p] <=> \E x \in held : p \in BlockPages(x[1], x[2])
  /\ \A x \in held : order_bitmap[x[1]] = x[2]

(* The free blocks of a set of free lists.                                 *)
BlocksOf(lists) == {x \in Pages \X Orders : x[1] \in Range(lists[x[2]])}
Listed(lists) == lists \in [Orders -> Seq(Pages)] /\ \A o \in Orders : IsInjective(lists[o])

IInv ==
  /\ Types /\ Places /\ Listed(free_lists)
  /\ FreeBlocks \cap held = {}
  /\ Tiles(FreeBlocks \cup held, Limit)
  /\ Bitmaps

-----------------------------------------------------------------------------
(* A block has its first page.                                             *)
LEMMA BlockFacts ==
  ASSUME NEW b \in Int, NEW o \in Orders
  PROVE  /\ PagesPerOrder[o] \in Nat \ {0}
         /\ b \in BlockPages(b, o)
         /\ \A p : p \in BlockPages(b, o) <=> p \in Int /\ b <= p /\ p < b + PagesPerOrder[o]
<1>1. PagesPerOrder[o] \in Nat \ {0}
  BY Zenon, BuddyAssumption
<1> QED
  BY <1>1 DEF BlockPages

(* The next order is twice the size.                                       *)
LEMMA DoubleSize ==
  ASSUME NEW o \in Orders, o < BUDDY_MAX_ORDER
  PROVE  o + 1 \in Orders /\ PagesPerOrder[o + 1] = 2 * PagesPerOrder[o]
<1>1. o + 1 \in 1 .. BUDDY_MAX_ORDER /\ o + 1 \in Orders /\ (o + 1) - 1 = o
  BY BuddyAssumption DEF Orders
<1> QED
  BY Zenon, <1>1, BuddyAssumption

(* add_to_free_list adds one block.                                        *)
LEMMA AddList ==
  ASSUME NEW lists, Listed(lists), NEW b \in Pages, NEW o \in Orders,
         <<b, o>> \notin BlocksOf(lists)
  PROVE  /\ Listed(add_to_free_list(lists, b, o))
         /\ BlocksOf(add_to_free_list(lists, b, o)) = BlocksOf(lists) \cup {<<b, o>>}
         /\ add_to_free_list(lists, b, o)[o] # <<>>
         /\ \A k \in Orders \ {o} : add_to_free_list(lists, b, o)[k] = lists[k]
<1> DEFINE new == add_to_free_list(lists, b, o)
<1>1. lists[o] \in Seq(Pages) /\ IsInjective(lists[o]) /\ b \notin Range(lists[o])
  BY Zenon DEF Listed, BlocksOf
<1>2. /\ Cons(b, lists[o]) \in Seq(Pages)
      /\ Range(Cons(b, lists[o])) = Range(lists[o]) \cup {b}
      /\ IsInjective(Cons(b, lists[o]))
      /\ Cons(b, lists[o]) # <<>>
  BY <1>1, ConsRange
<1>3. /\ new \in [Orders -> Seq(Pages)]
      /\ new[o] = Cons(b, lists[o])
      /\ \A k \in Orders \ {o} : new[k] = lists[k]
  BY Zenon, <1>2 DEF add_to_free_list, Listed
<1>4. Listed(new)
  BY Zenon, <1>2, <1>3 DEF Listed
<1>5. BlocksOf(new) = BlocksOf(lists) \cup {<<b, o>>}
  <2>1. ASSUME NEW x \in Pages \X Orders
        PROVE  x \in BlocksOf(new) <=> x \in BlocksOf(lists) \cup {<<b, o>>}
    <3>1. x[1] \in Pages /\ x[2] \in Orders /\ x = <<x[1], x[2]>>
      OBVIOUS
    <3>2. CASE x[2] = o
      BY <1>2, <1>3, <3>1, <3>2 DEF BlocksOf
    <3>3. CASE x[2] # o
      BY <1>3, <3>1, <3>3 DEF BlocksOf
    <3> QED
      BY Zenon, <3>2, <3>3
  <2> QED
    BY Zenon, <2>1 DEF BlocksOf
<1> QED
  BY Zenon, <1>2, <1>3, <1>4, <1>5

(* remove_from_free_list removes one block, if it is there.                *)
LEMMA RemoveList ==
  ASSUME NEW lists, Listed(lists), NEW b \in Pages, NEW o \in Orders
  PROVE  /\ Listed(remove_from_free_list(lists, b, o))
         /\ BlocksOf(remove_from_free_list(lists, b, o)) = BlocksOf(lists) \ {<<b, o>>}
         /\ \A k \in Orders \ {o} : remove_from_free_list(lists, b, o)[k] = lists[k]
<1> DEFINE new == remove_from_free_list(lists, b, o)
<1>1. lists[o] \in Seq(Pages) /\ IsInjective(lists[o])
  BY Zenon DEF Listed
<1>2. /\ Without(lists[o], b) \in Seq(Pages)
      /\ Range(Without(lists[o], b)) = Range(lists[o]) \ {b}
      /\ IsInjective(Without(lists[o], b))
  BY Zenon, <1>1, WithoutRange
<1>3. /\ new \in [Orders -> Seq(Pages)]
      /\ new[o] = Without(lists[o], b)
      /\ \A k \in Orders \ {o} : new[k] = lists[k]
  BY Zenon, <1>2 DEF remove_from_free_list, Listed
<1>4. Listed(new)
  BY Zenon, <1>2, <1>3 DEF Listed
<1>5. BlocksOf(new) = BlocksOf(lists) \ {<<b, o>>}
  <2>1. ASSUME NEW x \in Pages \X Orders
        PROVE  x \in BlocksOf(new) <=> x \in BlocksOf(lists) \ {<<b, o>>}
    <3>1. x[1] \in Pages /\ x[2] \in Orders /\ x = <<x[1], x[2]>>
      OBVIOUS
    <3>2. CASE x[2] = o
      BY <1>2, <1>3, <3>1, <3>2 DEF BlocksOf
    <3>3. CASE x[2] # o
      BY <1>3, <3>1, <3>3 DEF BlocksOf
    <3> QED
      BY Zenon, <3>2, <3>3
  <2> QED
    BY Zenon, <2>1 DEF BlocksOf
<1> QED
  BY Zenon, <1>3, <1>4, <1>5
(* Blocks may be replaced by others that have the same pages.              *)
LEMMA ReplaceTiles ==
  ASSUME NEW B, NEW hi, NEW Old, NEW New, Tiles(B, hi), Old \subseteq B,
         \A p : (\E x \in Old : p \in BlockPages(x[1], x[2]))
                  <=> (\E x \in New : p \in BlockPages(x[1], x[2])),
         \A x, y \in New : \A p \in BlockPages(x[1], x[2]) :
           p \in BlockPages(y[1], y[2]) => x = y,
         \A x \in New : x[1] \in BlockPages(x[1], x[2])
  PROVE  /\ Tiles((B \ Old) \cup New, hi)
         /\ New \cap (B \ Old) = {}
<1>1. \A x \in New, y \in B \ Old : \A p \in BlockPages(x[1], x[2]) :
        p \notin BlockPages(y[1], y[2])
  BY DEF Tiles
<1>2. New \cap (B \ Old) = {}
  BY <1>1
<1>3. \A x \in (B \ Old) \cup New : BlockPages(x[1], x[2]) \subseteq BitmapPages .. hi - 1
  BY Zenon DEF Tiles
<1>4. \A p \in BitmapPages .. hi - 1 : \E x \in (B \ Old) \cup New : p \in BlockPages(x[1], x[2])
  <2> TAKE p \in BitmapPages .. hi - 1
  <2>1. PICK x \in B : p \in BlockPages(x[1], x[2])
    BY Zenon DEF Tiles
  <2>2. CASE x \in Old
    BY Zenon, <2>1, <2>2
  <2> QED
    BY Zenon, <2>1, <2>2
<1>5. \A x, y \in (B \ Old) \cup New : \A p \in BlockPages(x[1], x[2]) :
        p \in BlockPages(y[1], y[2]) => x = y
  BY Zenon, <1>1 DEF Tiles
<1> QED
  BY Zenon, <1>2, <1>3, <1>4, <1>5 DEF Tiles

(* The two halves of a block have its pages: split_block and try_merge.    *)
LEMMA Halves ==
  ASSUME NEW b \in Int, NEW o \in Orders, o < BUDDY_MAX_ORDER,
         NEW c, c = b + PagesPerOrder[o]
  PROVE  /\ c \in Int /\ b # c
         /\ \A p : p \in BlockPages(b, o + 1) <=> p \in BlockPages(b, o) \/ p \in BlockPages(c, o)
         /\ \A p : ~(p \in BlockPages(b, o) /\ p \in BlockPages(c, o))
         /\ b \in BlockPages(b, o) /\ c \in BlockPages(c, o) /\ b \in BlockPages(b, o + 1)
<1>1. o + 1 \in Orders /\ PagesPerOrder[o + 1] = 2 * PagesPerOrder[o]
  BY Zenon, DoubleSize
<1>2. PagesPerOrder[o] \in Nat \ {0} /\ c \in Int
  BY BlockFacts
<1> QED
  BY <1>1, <1>2, BlockFacts

LEMMA SplitTiles ==
  ASSUME NEW B, NEW hi, Tiles(B, hi), NEW b \in Int, NEW o \in Orders, o < BUDDY_MAX_ORDER,
         NEW c, c = b + PagesPerOrder[o], <<b, o + 1>> \in B
  PROVE  /\ Tiles((B \ {<<b, o + 1>>}) \cup {<<b, o>>, <<c, o>>}, hi)
         /\ {<<b, o>>, <<c, o>>} \cap (B \ {<<b, o + 1>>}) = {}
<1> DEFINE Old == {<<b, o + 1>>}
           New == {<<b, o>>, <<c, o>>}
<1> HIDE DEF Old, New
<1>1. Old \subseteq B
  BY Zenon DEF Old
<1>2. \A p : (\E x \in Old : p \in BlockPages(x[1], x[2]))
               <=> (\E x \in New : p \in BlockPages(x[1], x[2]))
  BY Halves DEF Old, New
<1>3. \A x, y \in New : \A p \in BlockPages(x[1], x[2]) :
        p \in BlockPages(y[1], y[2]) => x = y
  BY Halves DEF New
<1>4. \A x \in New : x[1] \in BlockPages(x[1], x[2])
  BY Halves DEF New
<1>5. Tiles((B \ Old) \cup New, hi) /\ New \cap (B \ Old) = {}
  BY Zenon, <1>1, <1>2, <1>3, <1>4, ReplaceTiles
<1> QED
  BY Zenon, <1>5 DEF Old, New

LEMMA MergeTiles ==
  ASSUME NEW B, NEW hi, Tiles(B, hi), NEW b \in Int, NEW o \in Orders, o < BUDDY_MAX_ORDER,
         NEW c, c = b + PagesPerOrder[o], <<b, o>> \in B, <<c, o>> \in B
  PROVE  /\ Tiles((B \ {<<b, o>>, <<c, o>>}) \cup {<<b, o + 1>>}, hi)
         /\ <<b, o + 1>> \notin B \ {<<b, o>>, <<c, o>>}
<1> DEFINE Old == {<<b, o>>, <<c, o>>}
           New == {<<b, o + 1>>}
<1> HIDE DEF Old, New
<1>1. Old \subseteq B
  BY Zenon DEF Old
<1>2. \A p : (\E x \in Old : p \in BlockPages(x[1], x[2]))
               <=> (\E x \in New : p \in BlockPages(x[1], x[2]))
  BY Halves DEF Old, New
<1>3. \A x, y \in New : \A p \in BlockPages(x[1], x[2]) :
        p \in BlockPages(y[1], y[2]) => x = y
  BY Zenon DEF New
<1>4. \A x \in New : x[1] \in BlockPages(x[1], x[2])
  BY Halves DEF New
<1>5. Tiles((B \ Old) \cup New, hi) /\ New \cap (B \ Old) = {}
  BY Zenon, <1>1, <1>2, <1>3, <1>4, ReplaceTiles
<1> QED
  BY Zenon, <1>5 DEF Old, New

(* The next block of buddy_init starts where the last one ended.           *)
LEMMA GrowTiles ==
  ASSUME NEW B, NEW hi \in Int, BitmapPages <= hi, Tiles(B, hi), NEW o \in Orders,
         NEW top, top = hi + PagesPerOrder[o]
  PROVE  /\ Tiles(B \cup {<<hi, o>>}, top)
         /\ <<hi, o>> \notin B
<1>1. BitmapPages \in Nat /\ PagesPerOrder[o] \in Nat \ {0}
  BY Zenon, BuddyAssumption
<1>2. \A p : p \in BlockPages(hi, o) <=> p \in hi .. hi + PagesPerOrder[o] - 1
  BY Zenon DEF BlockPages
<1>3. \A x \in B : \A p \in BlockPages(x[1], x[2]) : p \in BitmapPages .. hi - 1
  BY Zenon DEF Tiles
<1>4. \A x \in B : \A p \in BlockPages(x[1], x[2]) : p \notin BlockPages(hi, o)
  BY <1>1, <1>2, <1>3
<1>5. \A p \in BitmapPages .. top - 1 :
        p \in BitmapPages .. hi - 1 \/ p \in BlockPages(hi, o)
  BY <1>1, <1>2
<1>6. /\ BlockPages(hi, o) \subseteq BitmapPages .. top - 1
      /\ \A p \in BitmapPages .. hi - 1 : p \in BitmapPages .. top - 1
  BY <1>1, <1>2
<1>7. <<hi, o>> \notin B
  <2>1. hi \in BlockPages(hi, o)
    BY Zenon, BlockFacts
  <2> SUFFICES ASSUME <<hi, o>> \in B PROVE FALSE
    BY Zenon
  <2>2. <<hi, o>>[1] = hi /\ <<hi, o>>[2] = o
    BY Zenon
  <2> QED
    BY Zenon, <1>4, <2>1, <2>2
<1> DEFINE New == B \cup {<<hi, o>>}
<1>8. \A x \in New : x \in B \/ (x[1] = hi /\ x[2] = o)
  OBVIOUS
<1>9. \A x \in New : BlockPages(x[1], x[2]) \subseteq BitmapPages .. top - 1
  BY Zenon, <1>3, <1>6, <1>8
<1>10. \A p \in BitmapPages .. top - 1 :
         \E x \in New : p \in BlockPages(x[1], x[2])
  <2> TAKE p \in BitmapPages .. top - 1
  <2>1. CASE p \in BitmapPages .. hi - 1
    BY Zenon, <2>1 DEF Tiles
  <2>2. CASE p \in BlockPages(hi, o)
    <3>1. <<hi, o>> \in New /\ p \in BlockPages(<<hi, o>>[1], <<hi, o>>[2])
      BY Zenon, <2>2
    <3> QED
      BY Zenon, <3>1
  <2> QED
    BY Zenon, <1>5, <2>1, <2>2
<1>11. \A x, y \in New : \A p \in BlockPages(x[1], x[2]) :
         p \in BlockPages(y[1], y[2]) => x = y
  BY <1>4 DEF Tiles
<1> HIDE DEF New
<1>12. Tiles(New, top)
  BY Zenon, <1>9, <1>10, <1>11 DEF Tiles
<1> QED
  BY Zenon, <1>7, <1>12 DEF New

-----------------------------------------------------------------------------
LEMMA InitIInv == Init => IInv
<1> SUFFICES ASSUME Init PROVE IInv
  BY Zenon
<1>1. Types /\ BitmapPages \in Nat
  BY BuddyAssumption DEF Init, Types, Orders, Pages
<1>2. Range(<<>>) = {} /\ IsInjective(<<>>)
  BY DEF Range, IsInjective
<1>3. FreeBlocks = {} /\ Listed(free_lists)
  BY Zenon, <1>1, <1>2 DEF Init, FreeBlocks, Listed, Types
<1>4. Tiles(FreeBlocks \cup held, Limit)
  BY <1>1, <1>3 DEF Init, Tiles, Limit
<1> QED
  BY <1>1, <1>3, <1>4 DEF Init, IInv, Places, Bitmaps

(* A step that leaves the lists, the bitmaps and the clients alone.        *)
LEMMA Kept ==
  ASSUME IInv, UNCHANGED <<free_lists, allocation_bitmap, order_bitmap, held>>,
         Types', Places', Limit' = Limit
  PROVE  IInv'
<1>1. FreeBlocks' = FreeBlocks
  BY Zenon DEF FreeBlocks
<1> QED
  BY Zenon, <1>1 DEF IInv, Listed, Tiles, BlockPages, Bitmaps

LEMMA InitStep == IInv /\ buddy_init => IInv'
<1> SUFFICES ASSUME IInv, buddy_init PROVE IInv'
  BY Zenon
<1>0. /\ Types /\ Places /\ Listed(free_lists) /\ pc = "init" /\ held = {}
      /\ BitmapPages <= block /\ BitmapPages \in Nat /\ TotalPages \in Nat
      /\ block \in Nat /\ block <= TotalPages /\ level \in Orders
      /\ PagesPerOrder[level] \in Nat \ {0}
      /\ PagesPerOrder[0] = 1
      /\ UNCHANGED <<allocation_bitmap, order_bitmap, held>>
  BY SMTT(30), BuddyAssumption DEF IInv, Types, Places, buddy_init
<1>1. CASE /\ BlockFits
           /\ free_lists' = add_to_free_list(free_lists, block, level)
           /\ block' = block + PagesPerOrder[level]
           /\ UNCHANGED <<pc, order, level>>
  <2>1. Tiles(FreeBlocks, block) /\ FreeBlocks = BlocksOf(free_lists)
    BY Zenon, <1>0 DEF IInv, Limit, FreeBlocks, BlocksOf
  <2>2. /\ Tiles(FreeBlocks \cup {<<block, level>>}, block + PagesPerOrder[level])
        /\ <<block, level>> \notin FreeBlocks
    BY <1>0, <2>1, GrowTiles
  <2>3. block \in Pages /\ block' \in 0 .. TotalPages /\ BitmapPages <= block'
    BY <1>0, <1>1 DEF BlockFits, Pages
  <2>4. /\ Listed(free_lists')
        /\ BlocksOf(free_lists') = FreeBlocks \cup {<<block, level>>}
    BY <1>0, <1>1, <2>1, <2>2, <2>3, AddList
  <2>5. FreeBlocks' = FreeBlocks \cup {<<block, level>>}
    BY Zenon, <2>4 DEF FreeBlocks, BlocksOf
  <2>6. Tiles(FreeBlocks \cup held, Limit)'
    BY <1>0, <1>1, <2>2, <2>5 DEF Tiles, Limit, BlockPages
  <2>7. Types' /\ Places' /\ Bitmaps'
    BY Zenon, <1>0, <1>1, <2>3, <2>4 DEF IInv, Types, Places, Listed, Bitmaps
  <2> QED
    BY Zenon, <1>0, <2>4, <2>6, <2>7 DEF IInv, Listed
<1>2. CASE level > 0 /\ level' = level - 1 /\ UNCHANGED <<free_lists, pc, order, block>>
  <2>1. level' \in Orders
    BY <1>0, <1>2, BuddyAssumption DEF Orders
  <2>2. Types' /\ Places' /\ Limit' = Limit
    BY Zenon, <1>0, <1>2, <2>1 DEF Types, Places, Limit
  <2> QED
    BY Zenon, <1>0, <1>2, <2>2, Kept
<1>3. CASE ~BlockFits /\ level = 0 /\ Return /\ UNCHANGED free_lists
  <2>1. block = TotalPages
    BY <1>0, <1>3 DEF BlockFits
  <2>2. Types' /\ Places' /\ Limit' = Limit
    BY <1>0, <1>3, <2>1, BuddyAssumption DEF Types, Places, Limit, Return, Orders
  <2> QED
    BY Zenon, <1>0, <1>3, <2>2, Kept
<1> QED
  BY Zenon, <1>1, <1>2, <1>3 DEF buddy_init

(* buddy_alloc and SearchLarger only look for a list with a block.         *)
LEMMA AllocStep ==
  ASSUME IInv, NEW n \in Requests, buddy_alloc(n)
  PROVE  IInv'
<1>1. PICK o \in Orders : /\ order' = o /\ level' = o
                          /\ pc' = IF free_lists[o] = <<>> THEN "search" ELSE "take"
  BY Zenon DEF buddy_alloc
<1>2. /\ UNCHANGED <<free_lists, allocation_bitmap, order_bitmap, held, block>>
      /\ pc = "ready"
  BY Zenon DEF buddy_alloc
<1>3. o \in Int
  BY BuddyAssumption DEF Orders
<1>4. Types' /\ Places' /\ Limit' = Limit
  BY <1>1, <1>2, <1>3 DEF IInv, Types, Places, Limit
<1> QED
  BY Zenon, <1>2, <1>4, Kept

LEMMA SearchStep == IInv /\ SearchLarger => IInv'
<1> SUFFICES ASSUME IInv, SearchLarger PROVE IInv'
  OBVIOUS
<1>1. /\ UNCHANGED <<free_lists, allocation_bitmap, order_bitmap, held>>
      /\ pc = "search" /\ order \in Orders /\ level \in Orders /\ order <= level
  BY Zenon DEF IInv, Types, Places, SearchLarger
<1>2. /\ order \in Int /\ level \in Int /\ BUDDY_MAX_ORDER \in Nat /\ 0 \in Orders
      /\ TotalPages \in Nat
      /\ level < BUDDY_MAX_ORDER => level + 1 \in Orders
  BY <1>1, BuddyAssumption DEF Orders
<1>3. CASE Return
  <2>1. Types' /\ Places' /\ Limit' = Limit
    BY <1>1, <1>2, <1>3 DEF IInv, Types, Places, Limit, Return
  <2> QED
    BY Zenon, <1>1, <2>1, Kept
<1>4. CASE level < BUDDY_MAX_ORDER /\ level' = level + 1 /\ UNCHANGED <<pc, order, block>>
  <2>1. Types' /\ Places' /\ Limit' = Limit
    BY <1>1, <1>2, <1>4 DEF IInv, Types, Places, Limit
  <2> QED
    BY <1>1, <2>1, Kept
<1>5. CASE /\ level < BUDDY_MAX_ORDER /\ free_lists[level + 1] # <<>>
           /\ pc' = "split" /\ UNCHANGED <<order, level, block>>
  <2>1. Types' /\ Places' /\ Limit' = Limit
    BY Zenon, <1>1, <1>2, <1>5 DEF IInv, Types, Places, Limit
  <2> QED
    BY <1>1, <2>1, Kept
<1> QED
  BY Zenon, <1>3, <1>4, <1>5 DEF SearchLarger

(* The head of a free list is a free block.                                *)
LEMMA HeadBlock ==
  ASSUME IInv, NEW o \in Orders, free_lists[o] # <<>>
  PROVE  /\ Head(free_lists[o]) \in Pages
         /\ <<Head(free_lists[o]), o>> \in FreeBlocks
<1>1. free_lists[o] \in Seq(Pages)
  BY Zenon DEF IInv, Types
<1>2. Head(free_lists[o]) \in Pages /\ Head(free_lists[o]) \in Range(free_lists[o])
  BY Zenon, <1>1, TailRange
<1> QED
  BY Zenon, <1>2 DEF FreeBlocks

(* A block of a tiling starts at a page.                                   *)
LEMMA TiledPage ==
  ASSUME NEW B, Tiles(B, TotalPages), NEW b \in Int, NEW o \in Orders, <<b, o>> \in B
  PROVE  b \in Pages
<1>1. b \in BlockPages(b, o)
  BY Zenon, BlockFacts
<1>2. BlockPages(b, o) \subseteq BitmapPages .. TotalPages - 1
  BY Zenon DEF Tiles
<1>3. BitmapPages \in Nat /\ TotalPages \in Nat
  BY Zenon, BuddyAssumption
<1> QED
  BY <1>1, <1>2, <1>3 DEF Pages

(* The order below and the order above.                                    *)
LEMMA Neighbours ==
  ASSUME NEW l \in Orders, NEW o \in Orders, l < BUDDY_MAX_ORDER, o <= l
  PROVE  /\ l + 1 \in Orders /\ l \in Int /\ o \in Int
         /\ l # o => l - 1 \in Orders /\ o <= l - 1
         /\ l - 1 < BUDDY_MAX_ORDER /\ (l - 1) + 1 = l
         /\ l # l + 1
  BY BuddyAssumption DEF Orders

(* split_block.                                                            *)
LEMMA SplitStep == IInv /\ split_block => IInv'
<1> SUFFICES ASSUME IInv, split_block PROVE IInv'
  OBVIOUS
<1> DEFINE b == Head(free_lists[level + 1])
           c == b + PagesPerOrder[level]
           taken == remove_from_free_list(free_lists, b, level + 1)
           one == add_to_free_list(taken, b, level)
<1>0. /\ pc = "split" /\ level \in Orders /\ order \in Orders /\ level < BUDDY_MAX_ORDER
      /\ free_lists[level + 1] # <<>> /\ order <= level /\ Listed(free_lists)
      /\ FreeBlocks = BlocksOf(free_lists)
      /\ Tiles(FreeBlocks \cup held, TotalPages) /\ FreeBlocks \cap held = {}
      /\ UNCHANGED <<allocation_bitmap, order_bitmap, held, order, block>>
  BY Zenon DEF IInv, Types, Places, Limit, FreeBlocks, BlocksOf, split_block
<1>1. /\ level + 1 \in Orders /\ level \in Int /\ order \in Int
      /\ level # order => level - 1 \in Orders /\ order <= level - 1
      /\ level - 1 < BUDDY_MAX_ORDER /\ (level - 1) + 1 = level
      /\ level # level + 1
  BY Zenon, <1>0, Neighbours
<1>2. b \in Pages /\ b \in Int /\ <<b, level + 1>> \in FreeBlocks
  BY <1>0, <1>1, HeadBlock DEF Pages
<1> HIDE DEF b
<1>3. c \in Int /\ b # c /\ c = b + PagesPerOrder[level]
  BY Zenon, <1>0, <1>2, Halves
<1> HIDE DEF c
<1> DEFINE B == FreeBlocks \cup held
           Rest == B \ {<<b, level + 1>>}
<1>4. /\ Tiles(Rest \cup {<<b, level>>, <<c, level>>}, TotalPages)
      /\ {<<b, level>>, <<c, level>>} \cap Rest = {}
  BY ZenonT(30), <1>0, <1>2, <1>3, SplitTiles
<1>5. c \in Pages
  <2> DEFINE N == Rest \cup {<<b, level>>, <<c, level>>}
  <2>1. Tiles(N, TotalPages) /\ <<c, level>> \in N
    BY Zenon, <1>4
  <2> HIDE DEF N
  <2> QED
    BY Zenon, <1>0, <1>3, <2>1, TiledPage
<1>6. /\ Listed(taken) /\ BlocksOf(taken) = FreeBlocks \ {<<b, level + 1>>}
  BY <1>0, <1>1, <1>2, RemoveList
<1> HIDE DEF taken
<1>7. <<b, level>> \notin BlocksOf(taken) /\ <<c, level>> \notin BlocksOf(taken)
  BY Zenon, <1>4, <1>6
<1>8. /\ Listed(one) /\ BlocksOf(one) = BlocksOf(taken) \cup {<<b, level>>}
  BY <1>0, <1>2, <1>6, <1>7, AddList
<1> HIDE DEF one
<1>9. free_lists' = add_to_free_list(one, c, level)
  BY Zenon DEF split_block, b, c, taken, one
<1>10. <<c, level>> \notin BlocksOf(one)
  BY Zenon, <1>3, <1>7, <1>8
<1>11. /\ Listed(free_lists')
       /\ BlocksOf(free_lists') = BlocksOf(one) \cup {<<c, level>>}
       /\ free_lists'[level] # <<>>
  BY <1>0, <1>5, <1>8, <1>9, <1>10, AddList
<1>12. FreeBlocks' = (FreeBlocks \ {<<b, level + 1>>}) \cup {<<b, level>>, <<c, level>>}
  BY Zenon, <1>6, <1>8, <1>11 DEF FreeBlocks, BlocksOf
<1>13. FreeBlocks' \cap held' = {}
  <2>1. held \subseteq Rest
    BY Zenon, <1>0, <1>2
  <2>2. <<b, level>> \notin held /\ <<c, level>> \notin held
    BY Zenon, <1>4, <2>1
  <2> QED
    BY Zenon, <1>0, <1>12, <2>2
<1>14. FreeBlocks' \cup held' = Rest \cup {<<b, level>>, <<c, level>>}
  BY Zenon, <1>0, <1>2, <1>12
<1>15. /\ pc' \in {"split", "take"}
       /\ pc' = "take" => level = order /\ level' = level
       /\ pc' = "split" => level # order /\ level' = level - 1
  BY Zenon, <1>0 DEF split_block
<1>16. Types' /\ Places'
  BY Zenon, <1>0, <1>1, <1>11, <1>15 DEF IInv, Types, Places, Listed
<1>17. Tiles(FreeBlocks \cup held, Limit)'
  BY Zenon, <1>4, <1>14, <1>15 DEF Tiles, Limit, BlockPages
<1>18. Bitmaps'
  BY Zenon, <1>0 DEF IInv, Bitmaps, BlockPages
<1> QED
  BY Zenon, <1>11, <1>13, <1>16, <1>17, <1>18 DEF IInv, Listed

LEMMA Constants == 0 \in Orders /\ TotalPages \in Nat /\ BitmapPages \in Nat
BY BuddyAssumption DEF Orders

LEMMA TakeStep == IInv /\ buddy_alloc_order => IInv'
<1> SUFFICES ASSUME IInv, buddy_alloc_order PROVE IInv'
  OBVIOUS
<1> DEFINE b == Head(free_lists[order])
<1>0. /\ pc = "take" /\ order \in Orders /\ free_lists[order] # <<>> /\ Listed(free_lists)
      /\ FreeBlocks = BlocksOf(free_lists) /\ held \subseteq Pages \X Orders
      /\ Tiles(FreeBlocks \cup held, TotalPages) /\ FreeBlocks \cap held = {}
      /\ Types /\ Bitmaps /\ 0 \in Orders /\ TotalPages \in Nat
  BY Zenon, Constants DEF IInv, Types, Places, Limit, FreeBlocks, BlocksOf, buddy_alloc_order
<1>1. b \in Pages /\ b \in Int /\ <<b, order>> \in FreeBlocks
  BY <1>0, HeadBlock DEF Pages
<1>2. /\ free_lists' = remove_from_free_list(free_lists, b, order)
      /\ allocation_bitmap' = [p \in Pages |-> p \in BlockPages(b, order) \/ allocation_bitmap[p]]
      /\ order_bitmap' = [p \in Pages |->
                            IF p \in BlockPages(b, order) THEN order ELSE order_bitmap[p]]
      /\ held' = held \cup {<<b, order>>}
      /\ pc' = "ready" /\ order' = 0 /\ level' = 0 /\ block' = 0
  BY Zenon DEF buddy_alloc_order, bitmap_set, Return
<1> HIDE DEF b
<1>3. Listed(free_lists') /\ BlocksOf(free_lists') = FreeBlocks \ {<<b, order>>}
  BY <1>0, <1>1, <1>2, RemoveList
<1>4. FreeBlocks' = FreeBlocks \ {<<b, order>>}
  BY Zenon, <1>3 DEF FreeBlocks, BlocksOf
<1>5. /\ FreeBlocks' \cap held' = {}
      /\ FreeBlocks' \cup held' = FreeBlocks \cup held
  BY Zenon, <1>0, <1>1, <1>2, <1>4
<1>6. Types' /\ Places'
  BY SMTT(30), <1>0, <1>1, <1>2, <1>3 DEF Types, Places, Listed
<1>7. Tiles(FreeBlocks \cup held, Limit)'
  BY <1>0, <1>2, <1>5 DEF Tiles, Limit, BlockPages
<1>8. \A p \in Pages :
        allocation_bitmap'[p] <=> \E x \in held' : p \in BlockPages(x[1], x[2])
  <2> TAKE p \in Pages
  <2>1. (\E x \in held' : p \in BlockPages(x[1], x[2]))
          <=> p \in BlockPages(b, order) \/ \E x \in held : p \in BlockPages(x[1], x[2])
    <3>1. <<b, order>>[1] = b /\ <<b, order>>[2] = order
      BY Zenon
    <3> QED
      BY Zenon, <1>2, <3>1
  <2>2. allocation_bitmap'[p] <=> p \in BlockPages(b, order) \/ allocation_bitmap[p]
    BY Zenon, <1>2
  <2> QED
    BY Zenon, <1>0, <2>1, <2>2 DEF Bitmaps
<1>9. \A x \in held' : order_bitmap'[x[1]] = x[2]
  <2> TAKE x \in held'
  <2>1. CASE x = <<b, order>>
    <3>1. b \in BlockPages(b, order)
      BY Zenon, <1>0, <1>1, BlockFacts
    <3> QED
      BY Zenon, <1>1, <1>2, <2>1, <3>1
  <2>2. CASE x \in held /\ x # <<b, order>>
    <3>1. x[1] \in Pages /\ x[1] \in Int /\ x[2] \in Orders
      BY <1>0, <2>2 DEF Pages
    <3>2. x[1] \in BlockPages(x[1], x[2])
      BY Zenon, <3>1, BlockFacts
    <3>3. x[1] \notin BlockPages(b, order)
      <4>1. <<b, order>>[1] = b /\ <<b, order>>[2] = order
        BY Zenon
      <4> QED
        BY Zenon, <1>0, <1>1, <2>2, <3>2, <4>1 DEF Tiles
    <3> QED
      BY Zenon, <1>0, <1>2, <2>2, <3>1, <3>3 DEF Bitmaps
  <2> QED
    BY Zenon, <1>2, <2>1, <2>2
<1>10. Bitmaps'
  BY Zenon, <1>8, <1>9 DEF Bitmaps, BlockPages
<1> QED
  BY Zenon, <1>3, <1>5, <1>6, <1>7, <1>10 DEF IInv, Listed

LEMMA FreeStep ==
  ASSUME IInv, NEW h \in held, buddy_free(h)
  PROVE  IInv'
<1> DEFINE b == h[1]
           o == h[2]
<1>0. /\ pc = "ready" /\ Listed(free_lists)
      /\ FreeBlocks = BlocksOf(free_lists) /\ held \subseteq Pages \X Orders
      /\ Tiles(FreeBlocks \cup held, TotalPages) /\ FreeBlocks \cap held = {}
      /\ Types /\ Bitmaps /\ 0 \in Orders /\ TotalPages \in Nat
  BY Zenon, Constants DEF IInv, Types, Places, Limit, FreeBlocks, BlocksOf, buddy_free
<1>1. b \in Pages /\ b \in 0 .. TotalPages /\ o \in Orders /\ h = <<b, o>>
  BY <1>0 DEF Pages
<1>2. order_bitmap[h[1]] = o
  BY Zenon, <1>0 DEF Bitmaps
<1>3. /\ free_lists' = add_to_free_list(free_lists, b, o)
      /\ allocation_bitmap' = [p \in Pages |-> p \notin BlockPages(b, o) /\ allocation_bitmap[p]]
      /\ order_bitmap' = [p \in Pages |-> IF p \in BlockPages(b, o) THEN 0 ELSE order_bitmap[p]]
      /\ held' = held \ {h}
      /\ pc' = "merge" /\ order' = o /\ level' = o /\ block' = b
  BY Zenon, <1>2 DEF buddy_free, bitmap_clear
<1> HIDE DEF b, o
<1>4. h \notin FreeBlocks
  BY Zenon, <1>0
<1>5. /\ Listed(free_lists')
      /\ BlocksOf(free_lists') = FreeBlocks \cup {h}
  BY <1>0, <1>1, <1>3, <1>4, AddList
<1>6. FreeBlocks' = FreeBlocks \cup {h}
  BY Zenon, <1>5 DEF FreeBlocks, BlocksOf
<1>7. /\ FreeBlocks' \cap held' = {}
      /\ FreeBlocks' \cup held' = FreeBlocks \cup held
  BY Zenon, <1>0, <1>3, <1>6
<1>8. b \in Range(free_lists'[o])
  BY <1>1, <1>5 DEF BlocksOf
<1>9. Types' /\ Places'
  BY Zenon, <1>0, <1>1, <1>3, <1>5, <1>8 DEF Types, Places, Listed
<1>10. Tiles(FreeBlocks \cup held, Limit)'
  BY Zenon, <1>0, <1>3, <1>7 DEF Tiles, Limit, BlockPages
<1>11. \A x \in held' : \A p \in BlockPages(x[1], x[2]) : p \notin BlockPages(b, o)
  BY <1>0, <1>1, <1>3 DEF Tiles
<1>12. \A p \in Pages :
         allocation_bitmap'[p] <=> \E x \in held' : p \in BlockPages(x[1], x[2])
  <2> TAKE p \in Pages
  <2>1. allocation_bitmap'[p] <=> p \notin BlockPages(b, o) /\ allocation_bitmap[p]
    BY Zenon, <1>3
  <2>2. (\E x \in held : p \in BlockPages(x[1], x[2]))
          <=> p \in BlockPages(b, o) \/ \E x \in held' : p \in BlockPages(x[1], x[2])
    BY <1>1, <1>3
  <2> QED
    BY Zenon, <1>0, <1>11, <2>1, <2>2 DEF Bitmaps
<1>13. \A x \in held' : order_bitmap'[x[1]] = x[2]
  <2> TAKE x \in held'
  <2>1. x \in held /\ x[1] \in Pages /\ x[1] \in Int /\ x[2] \in Orders
    BY <1>0, <1>3 DEF Pages
  <2>2. x[1] \in BlockPages(x[1], x[2])
    BY Zenon, <2>1, BlockFacts
  <2>3. x[1] \notin BlockPages(b, o)
    BY Zenon, <1>11, <2>2
  <2> QED
    BY Zenon, <1>0, <1>3, <2>1, <2>3 DEF Bitmaps
<1>14. Bitmaps'
  BY Zenon, <1>12, <1>13 DEF Bitmaps, BlockPages
<1> QED
  BY Zenon, <1>5, <1>7, <1>9, <1>10, <1>14 DEF IInv, Listed

LEMMA MergeStep == IInv /\ try_merge => IInv'
<1> SUFFICES ASSUME IInv, try_merge PROVE IInv'
  OBVIOUS
<1>0. /\ pc = "merge" /\ level \in Orders /\ block \in Range(free_lists[level])
      /\ Listed(free_lists) /\ FreeBlocks = BlocksOf(free_lists)
      /\ Tiles(FreeBlocks \cup held, TotalPages) /\ FreeBlocks \cap held = {}
      /\ UNCHANGED <<allocation_bitmap, order_bitmap, held>>
      /\ Types /\ Bitmaps /\ 0 \in Orders /\ TotalPages \in Nat
  BY Zenon, Constants DEF IInv, Types, Places, Limit, FreeBlocks, BlocksOf, try_merge
<1>1. CASE ~CanMerge(block, level)
  <2>1. Return /\ UNCHANGED free_lists
    BY Zenon, <1>1 DEF try_merge
  <2>2. Types' /\ Places' /\ Limit' = Limit
    BY <1>0, <2>1 DEF Types, Places, Limit, Return
  <2> QED
    BY Zenon, <1>0, <2>1, <2>2, Kept
<1>2. CASE CanMerge(block, level)
  <2> DEFINE buddy == get_buddy_addr(block, level)
             lo == MergedStart(block, buddy)
             c == lo + PagesPerOrder[level]
             half == remove_from_free_list(free_lists, buddy, level)
             taken == remove_from_free_list(half, block, level)
             Pair == {<<lo, level>>, <<c, level>>}
  <2>1. /\ free_lists' = add_to_free_list(taken, lo, level + 1)
        /\ block' = lo /\ level' = level + 1 /\ UNCHANGED <<pc, order>>
    BY Zenon, <1>2 DEF try_merge
  <2>2. /\ level < BUDDY_MAX_ORDER /\ level + 1 \in Orders /\ level # level + 1
        /\ buddy \in Range(free_lists[level])
    BY <1>0, <1>2, DoubleSize, BuddyAssumption DEF CanMerge, Orders
  <2>3. Range(free_lists[level]) \subseteq Pages
    BY Zenon, <1>0, RangeElements DEF Listed
  <2>4. /\ block \in Pages /\ buddy \in Pages /\ block \in Int /\ buddy \in Int
        /\ PagesPerOrder[level] \in Nat \ {0}
    BY <1>0, <2>2, <2>3, BuddyAssumption DEF Pages
  <2>5. buddy = block + PagesPerOrder[level] \/ buddy = block - PagesPerOrder[level]
    BY Zenon DEF get_buddy_addr
  <2>6. /\ lo \in Pages /\ lo \in Int
        /\ (lo = block /\ c = buddy) \/ (lo = buddy /\ c = block)
    BY <2>4, <2>5 DEF MergedStart
  <2>7. <<block, level>> \in FreeBlocks /\ <<buddy, level>> \in FreeBlocks
    BY Zenon, <1>0, <2>2, <2>4 DEF FreeBlocks
  <2>8. /\ Listed(half) /\ BlocksOf(half) = FreeBlocks \ {<<buddy, level>>}
    BY <1>0, <2>4, RemoveList
  <2> HIDE DEF half
  <2>9. /\ Listed(taken) /\ BlocksOf(taken) = BlocksOf(half) \ {<<block, level>>}
    BY <1>0, <2>4, <2>8, RemoveList
  <2> HIDE DEF taken, lo, buddy
  <2>10. BlocksOf(taken) = FreeBlocks \ Pair /\ Pair \subseteq FreeBlocks
    BY Zenon, <2>6, <2>7, <2>8, <2>9
  <2> DEFINE B == FreeBlocks \cup held
  <2>11. /\ Tiles((B \ Pair) \cup {<<lo, level + 1>>}, TotalPages)
         /\ <<lo, level + 1>> \notin B \ Pair
    BY Zenon, <1>0, <2>2, <2>6, <2>10, MergeTiles
  <2> HIDE DEF Pair
  <2>12. <<lo, level + 1>> \notin BlocksOf(taken)
    BY Zenon, <2>10, <2>11
  <2>13. /\ Listed(free_lists')
         /\ BlocksOf(free_lists') = BlocksOf(taken) \cup {<<lo, level + 1>>}
    BY <2>1, <2>2, <2>6, <2>9, <2>12, AddList
  <2>14. FreeBlocks' = (FreeBlocks \ Pair) \cup {<<lo, level + 1>>}
    BY Zenon, <2>10, <2>13 DEF FreeBlocks, BlocksOf
  <2>15. held \subseteq B \ Pair
    BY Zenon, <1>0, <2>10
  <2>16. /\ FreeBlocks' \cap held' = {}
         /\ FreeBlocks' \cup held' = (B \ Pair) \cup {<<lo, level + 1>>}
    BY Zenon, <1>0, <2>11, <2>14, <2>15
  <2>17. lo \in Range(free_lists'[level + 1])
    <3>1. <<lo, level + 1>> \in BlocksOf(free_lists')
      BY Zenon, <2>13
    <3> QED
      BY Zenon, <3>1 DEF BlocksOf
  <2>18. lo \in 0 .. TotalPages
    BY <1>0, <2>6 DEF Pages
  <2>19. Types' /\ Places'
    BY Zenon, <1>0, <2>1, <2>2, <2>13, <2>17, <2>18 DEF Types, Places, Listed
  <2>20. Tiles(FreeBlocks \cup held, Limit)'
    BY <1>0, <2>1, <2>11, <2>16 DEF Tiles, Limit, BlockPages
  <2>21. Bitmaps'
    BY Zenon, <1>0 DEF Bitmaps, BlockPages
  <2> QED
    BY Zenon, <2>13, <2>16, <2>19, <2>20, <2>21 DEF IInv, Listed
<1> QED
  BY Zenon, <1>1, <1>2

LEMMA NextIInv == IInv /\ [Next]_buddyVars => IInv'
<1> SUFFICES ASSUME IInv, [Next]_buddyVars PROVE IInv'
  BY Zenon
<1>1. CASE UNCHANGED buddyVars
  <2>1. Types' /\ Places' /\ Limit' = Limit
    BY Zenon, <1>1 DEF IInv, buddyVars, Types, Places, Limit
  <2> QED
    BY Zenon, <1>1, <2>1, Kept DEF buddyVars
<1>2. CASE \E p \in Pages : DoubleFree(p)
  BY Zenon, <1>1, <1>2 DEF DoubleFree
<1>3. CASE \E n \in Requests : buddy_alloc(n)
  BY Zenon, <1>3, AllocStep
<1>4. CASE \E h \in held : buddy_free(h)
  BY Zenon, <1>4, FreeStep
<1> QED
  BY Zenon, <1>1, <1>2, <1>3, <1>4, InitStep, SearchStep, SplitStep, TakeStep, MergeStep DEF Next

LEMMA Always == Spec => []IInv
BY InitIInv, NextIInv, PTL DEF Spec

-----------------------------------------------------------------------------
(* PagesAccounted, for every region and every place of the bitmaps in it:  *)
(* however buddy_alloc splits and buddy_free merges, no page is in two     *)
(* blocks, none is lost, and the bitmaps say who has it.                   *)
THEOREM PagesAlwaysAccounted == Spec => []PagesAccounted
<1>1. IInv => PagesAccounted
  <2> SUFFICES ASSUME IInv PROVE PagesAccounted
    BY Zenon
  <2>1. \A x, y \in FreeBlocks \cup held :
          x # y => BlockPages(x[1], x[2]) \cap BlockPages(y[1], y[2]) = {}
    BY Zenon DEF IInv, Tiles
  <2>2. pc # "init" =>
          UNION {BlockPages(x[1], x[2]) : x \in FreeBlocks \cup held}
            = BitmapPages .. TotalPages - 1
    BY DEF IInv, Tiles, Limit
  <2> QED
    BY Zenon, <2>1, <2>2 DEF IInv, PagesAccounted, Listed, Bitmaps
<1> QED
  BY <1>1, Always, PTL

(* The blocks that clients hold, as PageAllocator sees them.               *)
View == {<<x[1], PagesPerOrder[x[2]]>> : x \in held}

LEMMA ViewGiven ==
  ASSUME IInv, buddy_alloc_order
  PROVE  Abstract!Next
<1> DEFINE b == Head(free_lists[order])
           v == <<b, PagesPerOrder[order]>>
<1>1. /\ order \in Orders /\ free_lists[order] # <<>>
      /\ Tiles(FreeBlocks \cup held, TotalPages) /\ FreeBlocks \cap held = {}
      /\ held' = held \cup {<<b, order>>}
  BY Zenon DEF IInv, Types, Places, Limit, buddy_alloc_order
<1>2. b \in Int /\ <<b, order>> \in FreeBlocks
  BY <1>1, HeadBlock DEF Pages
<1> HIDE DEF b
<1>3. <<b, order>>[1] = b /\ <<b, order>>[2] = order /\ v[1] = b /\ v[2] = PagesPerOrder[order]
  BY Zenon
<1>4. View' = View \cup {v}
  BY Zenon, <1>1, <1>3 DEF View
<1>5. b .. b + PagesPerOrder[order] - 1 \subseteq BitmapPages .. TotalPages - 1
  BY Zenon, <1>1, <1>2, <1>3 DEF Tiles, BlockPages
<1>6. b \in BitmapPages .. TotalPages - 1
  BY Zenon, <1>1, <1>2, <1>5, BlockFacts DEF BlockPages
<1>7. \A x \in held : (b .. b + PagesPerOrder[order] - 1)
                        \cap (x[1] .. x[1] + PagesPerOrder[x[2]] - 1) = {}
  <2> TAKE x \in held
  <2>1. x # <<b, order>>
    BY Zenon, <1>1, <1>2
  <2> QED
    BY Zenon, <1>1, <1>2, <1>3, <2>1 DEF Tiles, BlockPages
<1>8. \A h \in View : (b .. b + PagesPerOrder[order] - 1) \cap (h[1] .. h[1] + h[2] - 1) = {}
  BY <1>7 DEF View
<1>9. v \in (BitmapPages .. TotalPages - 1) \X {PagesPerOrder[o] : o \in Orders}
  BY Zenon, <1>1, <1>6
<1> HIDE DEF v
<1> QED
  BY Zenon, <1>3, <1>4, <1>5, <1>8, <1>9
  DEF View, Abstract!Next, Abstract!Give, Abstract!PagesOf

LEMMA ViewTaken ==
  ASSUME IInv, NEW h \in held, buddy_free(h)
  PROVE  Abstract!Next
<1> DEFINE v == <<h[1], PagesPerOrder[h[2]]>>
<1>1. /\ held \subseteq Pages \X Orders /\ held' = held \ {h}
      /\ Tiles(FreeBlocks \cup held, Limit)
  BY Zenon DEF IInv, Types, buddy_free
<1>2. v \in View
  BY Zenon DEF View
<1>3. \A x \in held : x # h => x[1] # h[1]
  <2> SUFFICES ASSUME NEW x \in held, x # h PROVE x[1] # h[1]
    BY Zenon
  <2>1. x[1] \in BlockPages(x[1], x[2]) /\ h[1] \in BlockPages(h[1], h[2])
    BY <1>1, BlockFacts DEF Pages
  <2> QED
    BY Zenon, <1>1, <2>1 DEF Tiles
<1>4. View' = View \ {v}
  <2>1. \A x \in held : x # h => <<x[1], PagesPerOrder[x[2]]>> # v
    BY Zenon, <1>3
  <2> QED
    BY Zenon, <1>1, <2>1 DEF View
<1> HIDE DEF v
<1> QED
  BY Zenon, <1>2, <1>4 DEF View, Abstract!Next, Abstract!TakeBack

(* IsPageAllocator, for every region: what buddy_alloc returns overlaps    *)
(* nothing that a client holds, and buddy_free gives back one block.       *)
THEOREM BuddyIsPageAllocator == Spec => IsPageAllocator
<1>1. Init => Abstract!Init
  BY Zenon DEF Init, Abstract!Init
<1>2. IInv /\ [Next]_buddyVars => [Abstract!Next]_View
  <2> SUFFICES ASSUME IInv, [Next]_buddyVars PROVE Abstract!Next \/ View' = View
    BY Zenon
  <2>1. CASE UNCHANGED held
    BY Zenon, <2>1 DEF View
  <2>2. CASE buddy_alloc_order
    BY Zenon, <2>2, ViewGiven
  <2>3. CASE \E h \in held : buddy_free(h)
    BY Zenon, <2>3, ViewTaken
  <2> QED
    BY Zenon, <2>1, <2>2, <2>3
    DEF Next, buddyVars, buddy_init, buddy_alloc, SearchLarger, split_block, DoubleFree, try_merge
<1>3. View = {<<x[1], PagesPerOrder[x[2]]>> : x \in held}
  BY Zenon DEF View
<1> QED
  BY <1>1, <1>2, Always, PTL DEF Spec, IsPageAllocator, Abstract!Spec, View

-----------------------------------------------------------------------------
(* No two free buddies. *)

Inner == Orders \ {BUDDY_MAX_ORDER}

NoPairs(S, o) == \A b \in S : get_buddy_addr(b, o) \notin S

(* The block of order o that the function which is executing is about to   *)
(* split, to hand out or to merge.                                         *)
Pending(o) ==
  IF pc = "merge" /\ o = level THEN {block}
  ELSE IF (pc = "split" /\ o = level + 1) \/ (pc = "take" /\ o = order)
  THEN {Head(free_lists[o])} ELSE {}

PairsOK == pc # "init" => \A o \in Inner : NoPairs(Range(free_lists[o]) \ Pending(o), o)

(* split_block is called only for an order that has no free block, so its  *)
(* halves meet no buddy.                                                   *)
Emptied == pc \in {"search", "split"} => \A k \in order .. level : free_lists[k] = <<>>

(* buddy_init lays at most one block of each order below the largest.      *)
Laid ==
  pc = "init" =>
    /\ \A o \in Orders : o < level => free_lists[o] = <<>>
    /\ \A o \in Inner : \A x, y \in Range(free_lists[o]) : x = y
    /\ level < BUDDY_MAX_ORDER =>
         /\ TotalPages - block < 2 * PagesPerOrder[level]
         /\ free_lists[level] # <<>> => TotalPages - block < PagesPerOrder[level]

MInv == PairsOK /\ Emptied /\ Laid

(* The quotient of a division.                                             *)
LEMMA Quotient ==
  ASSUME NEW P \in Nat \ {0}, NEW d \in Int, NEW r \in 0 .. P - 1
  PROVE  (P * d + r) \div P = d
<1> DEFINE x == P * d + r
           e == x \div P
           s == x % P
<1>1. x \in Int /\ e \in Int /\ s \in 0 .. P - 1 /\ x = P * e + s
  OBVIOUS
<1> HIDE DEF e, s
<1>2. P * (d - e) = s - r
  BY <1>1
<1>3. d - e \in Int /\ s - r < P /\ s - r > 0 - P
  BY <1>1
<1>4. \A a \in Int : a >= 1 => P * a >= P
  OBVIOUS
<1>5. \A a \in Int : a <= -1 => P * a <= 0 - P
  OBVIOUS
<1>6. d - e = 0
  BY <1>2, <1>3, <1>4, <1>5
<1> QED
  BY <1>1, <1>6 DEF e

(* A block is the buddy of its buddy, and never its own.                   *)
LEMMA BuddyOfBuddy ==
  ASSUME NEW b \in Nat, NEW o \in Orders
  PROVE  /\ get_buddy_addr(b, o) \in Int /\ get_buddy_addr(b, o) # b
         /\ get_buddy_addr(get_buddy_addr(b, o), o) = b
<1> DEFINE P == PagesPerOrder[o]
           d == b \div P
           r == b % P
<1>1. P \in Nat \ {0}
  BY Zenon, BuddyAssumption
<1> HIDE DEF P
<1>2. d \in Nat /\ r \in 0 .. P - 1 /\ b = P * d + r
  BY <1>1
<1> HIDE DEF d, r
<1>3. b + P = P * (d + 1) + r /\ b - P = P * (d - 1) + r
  BY <1>1, <1>2
<1>4. (b + P) \div P = d + 1 /\ (b - P) \div P = d - 1
  BY <1>1, <1>2, <1>3, Quotient
<1>5. get_buddy_addr(b, o) = IF d % 2 = 0 THEN b + P ELSE b - P
  BY Zenon DEF get_buddy_addr, d, P
<1>6. CASE d % 2 = 0
  <2>1. (d + 1) % 2 # 0 /\ b + P \in Int /\ b + P # b /\ (b + P) - P = b
    BY <1>1, <1>2, <1>6
  <2>2. get_buddy_addr(b + P, o) = (b + P) - P
    BY Zenon, <1>4, <2>1 DEF get_buddy_addr, P
  <2> QED
    BY Zenon, <1>5, <1>6, <2>1, <2>2
<1>7. CASE d % 2 # 0
  <2>1. (d - 1) % 2 = 0 /\ b - P \in Int /\ b - P # b /\ (b - P) + P = b
    BY <1>1, <1>2, <1>7
  <2>2. get_buddy_addr(b - P, o) = (b - P) + P
    BY Zenon, <1>4, <2>1 DEF get_buddy_addr, P
  <2> QED
    BY Zenon, <1>5, <1>7, <2>1, <2>2
<1> QED
  BY Zenon, <1>6, <1>7

(* Fewer blocks make no pair, and neither does one alone.                  *)
LEMMA FewPairs ==
  ASSUME NEW S \in SUBSET Pages, NEW o \in Orders
  PROVE  /\ \A T \in SUBSET S : NoPairs(S, o) => NoPairs(T, o)
         /\ (\A x, y \in S : x = y) => NoPairs(S, o)
<1>1. \A b \in S : b \in Nat
  BY DEF Pages
<1>2. \A b \in S : get_buddy_addr(b, o) # b
  BY Zenon, <1>1, BuddyOfBuddy
<1> QED
  BY Zenon, <1>2 DEF NoPairs

(* add_to_free_list puts the block at the head of its list.                *)
LEMMA AddedTo ==
  ASSUME NEW lists, Listed(lists), NEW b \in Pages, NEW o \in Orders
  PROVE  /\ Range(add_to_free_list(lists, b, o)[o]) = Range(lists[o]) \cup {b}
         /\ Head(add_to_free_list(lists, b, o)[o]) = b
         /\ \A k \in Orders \ {o} : add_to_free_list(lists, b, o)[k] = lists[k]
<1>1. lists \in [Orders -> Seq(Pages)] /\ lists[o] \in Seq(Pages)
  BY Zenon DEF Listed
<1>2. /\ Range(Cons(b, lists[o])) = Range(lists[o]) \cup {b}
      /\ Head(Cons(b, lists[o])) = b
  BY <1>1, ConsRange
<1> QED
  BY Zenon, <1>1, <1>2 DEF add_to_free_list

(* remove_from_free_list takes the block out of its list.                  *)
LEMMA RemovedFrom ==
  ASSUME NEW lists, Listed(lists), NEW b \in Pages, NEW o \in Orders
  PROVE  /\ Range(remove_from_free_list(lists, b, o)[o]) = Range(lists[o]) \ {b}
         /\ \A k \in Orders \ {o} : remove_from_free_list(lists, b, o)[k] = lists[k]
<1>1. lists \in [Orders -> Seq(Pages)] /\ lists[o] \in Seq(Pages) /\ IsInjective(lists[o])
  BY Zenon DEF Listed
<1>2. Range(Without(lists[o], b)) = Range(lists[o]) \ {b}
  BY Zenon, <1>1, WithoutRange
<1> QED
  BY Zenon, <1>1, <1>2 DEF remove_from_free_list

(* What the lists hold are pages.                                          *)
LEMMA ListedPages ==
  ASSUME IInv, NEW o \in Orders
  PROVE  /\ Range(free_lists[o]) \subseteq Pages
         /\ free_lists[o] = <<>> <=> Range(free_lists[o]) = {}
         /\ free_lists[o] # <<>> => Head(free_lists[o]) \in Range(free_lists[o])
<1>1. free_lists[o] \in Seq(Pages)
  BY Zenon DEF IInv, Types
<1> QED
  BY Zenon, <1>1, RangeElements, TailRange

(* buddy_init, whose lists below the largest order stay short.             *)
LEMMA LayStep == IInv /\ MInv /\ buddy_init => MInv'
<1> SUFFICES ASSUME IInv, MInv, buddy_init PROVE MInv'
  BY Zenon
<1>1. /\ pc = "init" /\ Laid /\ level \in Orders /\ level \in Nat /\ BUDDY_MAX_ORDER \in Nat
      /\ block \in Nat /\ TotalPages \in Nat /\ block <= TotalPages /\ Listed(free_lists)
      /\ PagesPerOrder[level] \in Nat \ {0}
  <2>1. pc = "init" /\ Laid /\ level \in Orders /\ block \in 0 .. TotalPages /\ Listed(free_lists)
    BY Zenon DEF MInv, IInv, Types, buddy_init
  <2> QED
    BY <2>1, BuddyAssumption DEF Orders
<1>2. CASE BlockFits
  <2>1. /\ free_lists' = add_to_free_list(free_lists, block, level)
        /\ block' = block + PagesPerOrder[level] /\ pc' = pc /\ level' = level
    BY Zenon, <1>1, <1>2 DEF buddy_init
  <2>2. TotalPages - block >= PagesPerOrder[level] /\ block \in Pages
    BY <1>1, <1>2 DEF BlockFits, Pages
  <2>3. /\ Range(free_lists'[level]) = Range(free_lists[level]) \cup {block}
        /\ \A k \in Orders \ {level} : free_lists'[k] = free_lists[k]
    BY <1>1, <2>1, <2>2, AddedTo
  <2>4. level < BUDDY_MAX_ORDER =>
          /\ Range(free_lists[level]) = {}
          /\ TotalPages - block' < PagesPerOrder[level]
          /\ TotalPages - block' < 2 * PagesPerOrder[level]
    <3>1. level < BUDDY_MAX_ORDER => free_lists[level] = <<>>
      BY <1>1, <2>2 DEF Laid
    <3>2. level < BUDDY_MAX_ORDER => TotalPages - block' < PagesPerOrder[level]
      BY SMTT(30), <1>1, <2>1 DEF Laid
    <3>3. \A x \in Int, y \in Nat : x < y => x < 2 * y
      OBVIOUS
    <3>4. TotalPages - block' \in Int /\ PagesPerOrder[level] \in Nat
      BY <1>1, <2>1
    <3> QED
      BY Zenon, <1>1, <3>1, <3>2, <3>3, <3>4, ListedPages
  <2>5. \A o \in Orders : o < level => free_lists'[o] = <<>>
    BY <1>1, <2>3 DEF Laid, Orders
  <2>6. \A o \in Inner : \A x, y \in Range(free_lists'[o]) : x = y
    <3> TAKE o \in Inner
    <3>1. CASE o = level
      <4>1. level < BUDDY_MAX_ORDER
        BY <1>1, <3>1 DEF Inner, Orders
      <4> QED
        BY Zenon, <2>3, <2>4, <3>1, <4>1
    <3>2. CASE o # level
      BY Zenon, <1>1, <2>3, <3>2 DEF Laid, Inner
    <3> QED
      BY Zenon, <3>1, <3>2
  <2>7. Laid'
    BY Zenon, <1>1, <2>1, <2>4, <2>5, <2>6 DEF Laid
  <2> QED
    BY Zenon, <1>1, <2>1, <2>7 DEF MInv, PairsOK, Emptied
<1>3. CASE ~BlockFits /\ level > 0
  <2>1. pc' = pc /\ level' = level - 1 /\ block' = block /\ free_lists' = free_lists
    BY <1>1, <1>3 DEF buddy_init
  <2>2. /\ TotalPages - block < PagesPerOrder[level]
        /\ level - 1 \in Orders /\ level - 1 < BUDDY_MAX_ORDER /\ (level - 1) + 1 = level
    BY <1>1, <1>3 DEF BlockFits, Orders
  <2>3. PagesPerOrder[level] = 2 * PagesPerOrder[level - 1]
    BY Zenon, <2>2, DoubleSize
  <2>4. free_lists[level - 1] = <<>>
    BY <1>1, <2>2 DEF Laid
  <2>5. \A o \in Orders : o < level - 1 => o < level
    BY <1>1 DEF Orders
  <2>6. Laid'
    BY Zenon, <1>1, <2>1, <2>2, <2>3, <2>4, <2>5 DEF Laid
  <2> QED
    BY Zenon, <1>1, <2>1, <2>6 DEF MInv, PairsOK, Emptied
<1>4. CASE ~BlockFits /\ level = 0
  <2>1. pc' = "ready" /\ free_lists' = free_lists
    BY <1>1, <1>4 DEF buddy_init, Return
  <2>2. \A o \in Inner : NoPairs(Range(free_lists[o]), o)
    <3> TAKE o \in Inner
    <3>1. o \in Orders /\ Range(free_lists[o]) \in SUBSET Pages
      BY Zenon, ListedPages DEF Inner
    <3>2. \A x, y \in Range(free_lists[o]) : x = y
      BY Zenon, <1>1 DEF Laid
    <3> QED
      BY Zenon, <3>1, <3>2, FewPairs
  <2>3. \A o \in Inner : Range(free_lists'[o]) \ Pending(o)' = Range(free_lists[o])
    BY Zenon, <2>1 DEF Pending
  <2>4. PairsOK'
    BY Zenon, <2>2, <2>3 DEF PairsOK, NoPairs, get_buddy_addr
  <2> QED
    BY Zenon, <2>1, <2>4 DEF MInv, Emptied, Laid
<1> QED
  BY <1>1, <1>2, <1>3, <1>4

(* A call begins: nothing is listed or unlisted.                           *)
LEMMA BeginStep ==
  ASSUME IInv, MInv, (\E n \in Requests : buddy_alloc(n)) \/ SearchLarger
  PROVE  MInv'
<1>1. /\ pc \in {"ready", "search"} /\ free_lists' = free_lists
      /\ pc' \in {"ready", "search", "take", "split"}
  BY Zenon DEF buddy_alloc, SearchLarger, Return
<1>2. PairsOK'
  <2>1. ASSUME NEW o \in Inner PROVE NoPairs(Range(free_lists[o]) \ Pending(o)', o)
    <3>1. o \in Orders /\ Range(free_lists[o]) \in SUBSET Pages
      BY Zenon, ListedPages DEF Inner
    <3>2. NoPairs(Range(free_lists[o]), o)
      BY Zenon, <1>1 DEF MInv, PairsOK, Pending
    <3> QED
      BY Zenon, <3>1, <3>2, FewPairs
  <2> QED
    BY Zenon, <1>1, <2>1 DEF PairsOK, NoPairs, get_buddy_addr
<1>3. Emptied'
  <2>1. CASE \E n \in Requests : buddy_alloc(n)
    <3>1. PICK o \in Orders : /\ order' = o /\ level' = o
                              /\ pc' = IF free_lists[o] = <<>> THEN "search" ELSE "take"
      BY Zenon, <2>1 DEF buddy_alloc
    <3>2. \A k \in o .. o : k = o
      BY BuddyAssumption DEF Orders
    <3> QED
      BY Zenon, <1>1, <3>1, <3>2 DEF Emptied
  <2>2. CASE SearchLarger
    <3>1. pc = "search" /\ Emptied /\ level \in Int /\ order \in Int
      BY <2>2, BuddyAssumption DEF SearchLarger, MInv, IInv, Types, Orders
    <3>2. CASE pc' = "ready"
      BY Zenon, <3>2 DEF Emptied
    <3>3. CASE pc' = "search" /\ order' = order /\ level' = level + 1 /\ free_lists[level + 1] = <<>>
      <4>1. \A k \in order .. level + 1 : k = level + 1 \/ k \in order .. level
        BY <3>1
      <4> QED
        BY Zenon, <1>1, <3>1, <3>3, <4>1 DEF Emptied
    <3>4. CASE pc' = "split" /\ UNCHANGED <<order, level>>
      BY Zenon, <1>1, <3>1, <3>4 DEF Emptied
    <3> QED
      BY Zenon, <2>2, <3>2, <3>3, <3>4 DEF SearchLarger, Return
  <2> QED
    BY Zenon, <2>1, <2>2
<1> QED
  BY Zenon, <1>1, <1>2, <1>3 DEF MInv, Laid

(* split_block leaves the half that it does not use alone in its list.     *)
LEMMA HalvesStep == IInv /\ MInv /\ split_block => MInv'
<1> SUFFICES ASSUME IInv, MInv, split_block PROVE MInv'
  OBVIOUS
<1> DEFINE b == Head(free_lists[level + 1])
           c == b + PagesPerOrder[level]
           taken == remove_from_free_list(free_lists, b, level + 1)
           one == add_to_free_list(taken, b, level)
<1>1. /\ pc = "split" /\ level \in Orders /\ order \in Orders /\ level < BUDDY_MAX_ORDER
      /\ free_lists[level + 1] # <<>> /\ order <= level /\ Listed(free_lists)
      /\ Tiles(FreeBlocks \cup held, TotalPages) /\ PairsOK /\ Emptied
  BY Zenon DEF IInv, MInv, Types, Places, Limit, split_block
<1>2. /\ level + 1 \in Orders /\ level \in Int /\ order \in Int /\ level # level + 1
      /\ level - 1 < level /\ (level - 1) + 1 = level
      /\ PagesPerOrder[level + 1] = 2 * PagesPerOrder[level]
      /\ PagesPerOrder[level] \in Nat \ {0}
  BY <1>1, DoubleSize, BuddyAssumption DEF Orders
<1>3. b \in Pages /\ b \in Int /\ <<b, level + 1>> \in FreeBlocks
  BY <1>1, <1>2, HeadBlock DEF Pages
<1> HIDE DEF b
<1>4. c \in Pages
  <2>1. c \in BlockPages(b, level + 1)
    BY <1>2, <1>3, BlockFacts
  <2>2. BlockPages(b, level + 1) \subseteq BitmapPages .. TotalPages - 1
    BY <1>1, <1>3 DEF Tiles
  <2> QED
    BY <2>1, <2>2, Constants DEF Pages
<1>5. /\ Listed(taken) /\ Range(taken[level + 1]) = Range(free_lists[level + 1]) \ {b}
      /\ \A k \in Orders \ {level + 1} : taken[k] = free_lists[k]
  <2>1. Listed(taken)
    BY Zenon, <1>1, <1>2, <1>3, RemoveList
  <2> QED
    BY <1>1, <1>2, <1>3, <2>1, RemovedFrom
<1> HIDE DEF taken
<1>6. free_lists[level] = <<>> /\ Range(free_lists[level]) = {}
  <2>1. level \in order .. level
    BY <1>1, <1>2
  <2>2. free_lists[level] = <<>>
    BY Zenon, <1>1, <2>1 DEF Emptied
  <2> QED
    BY Zenon, <1>1, <2>2, ListedPages
<1>7. <<b, level>> \notin BlocksOf(taken)
  BY Zenon, <1>2, <1>5, <1>6 DEF BlocksOf
<1>8. /\ Listed(one) /\ Range(one[level]) = {b}
      /\ \A k \in Orders \ {level} : one[k] = taken[k]
  <2>1. Listed(one)
    BY Zenon, <1>1, <1>3, <1>5, <1>7, AddList
  <2>2. taken[level] = free_lists[level]
    BY Zenon, <1>1, <1>2, <1>5
  <2>3. /\ Range(one[level]) = Range(taken[level]) \cup {b}
        /\ \A k \in Orders \ {level} : one[k] = taken[k]
    BY <1>1, <1>3, <1>5, AddedTo
  <2> QED
    BY Zenon, <1>6, <2>1, <2>2, <2>3
<1> HIDE DEF one
<1>9. free_lists' = add_to_free_list(one, c, level)
  BY Zenon DEF split_block, b, c, taken, one
<1> HIDE DEF c
<1>10. /\ Range(free_lists'[level]) = {b} \cup {c} /\ Head(free_lists'[level]) = c
       /\ \A k \in Orders \ {level} : free_lists'[k] = one[k]
  BY SMTT(30), <1>1, <1>4, <1>8, <1>9, AddedTo
<1>11. /\ pc' \in {"split", "take"} /\ order' = order
       /\ pc' = "take" => level = order
       /\ pc' = "split" => level # order /\ level' = level - 1
  BY Zenon, <1>1 DEF split_block
<1>12. ASSUME NEW o \in Inner PROVE NoPairs(Range(free_lists'[o]) \ Pending(o)', o)
  <2>0. o \in Orders
    BY Zenon DEF Inner
  <2>1. CASE o = level
    <3>1. Pending(o)' = {c}
      BY Zenon, <1>2, <1>10, <1>11, <2>1 DEF Pending
    <3>2. \A x, y \in Range(free_lists'[o]) \ Pending(o)' : x = y
      BY Zenon, <1>10, <2>1, <3>1
    <3>3. Range(free_lists'[o]) \ Pending(o)' \in SUBSET Pages
      BY Zenon, <1>3, <1>4, <1>10, <2>1
    <3> QED
      BY Zenon, <2>0, <3>2, <3>3, FewPairs
  <2>2. CASE o = level + 1
    <3>1. Range(free_lists'[o]) = Range(free_lists[o]) \ {b}
      BY Zenon, <1>2, <1>5, <1>8, <1>10, <2>2
    <3>2. NoPairs(Range(free_lists[o]) \ {b}, o)
      BY Zenon, <1>1, <2>2 DEF PairsOK, Pending, b
    <3>3. Range(free_lists[o]) \ {b} \in SUBSET Pages
      BY Zenon, <2>0, ListedPages
    <3> QED
      BY Zenon, <2>0, <3>1, <3>2, <3>3, FewPairs
  <2>3. CASE o # level /\ o # level + 1
    <3>1. free_lists'[o] = free_lists[o]
      BY Zenon, <1>5, <1>8, <1>10, <2>0, <2>3
    <3>2. NoPairs(Range(free_lists[o]), o)
      BY Zenon, <1>1, <2>3 DEF PairsOK, Pending
    <3>3. Range(free_lists[o]) \in SUBSET Pages
      BY Zenon, <2>0, ListedPages
    <3> QED
      BY Zenon, <2>0, <3>1, <3>2, <3>3, FewPairs
  <2> QED
    BY Zenon, <2>1, <2>2, <2>3
<1>13. PairsOK'
  BY Zenon, <1>12 DEF PairsOK, NoPairs, get_buddy_addr
<1>14. ASSUME pc' = "split", NEW k \in order .. level - 1 PROVE free_lists'[k] = <<>>
  <2>1. k \in Orders /\ k # level /\ k # level + 1 /\ k \in order .. level
    BY <1>1, <1>2, BuddyAssumption DEF Orders
  <2> QED
    BY Zenon, <1>1, <1>5, <1>8, <1>10, <2>1 DEF Emptied
<1>15. Emptied'
  BY Zenon, <1>11, <1>14 DEF Emptied
<1> QED
  BY Zenon, <1>11, <1>13, <1>15 DEF MInv, Laid

(* buddy_alloc_order hands out the block at the head.                      *)
LEMMA HandOutStep == IInv /\ MInv /\ buddy_alloc_order => MInv'
<1> SUFFICES ASSUME IInv, MInv, buddy_alloc_order PROVE MInv'
  OBVIOUS
<1> DEFINE b == Head(free_lists[order])
<1>1. /\ pc = "take" /\ order \in Orders /\ Listed(free_lists) /\ free_lists[order] # <<>>
      /\ free_lists' = remove_from_free_list(free_lists, b, order) /\ pc' = "ready"
      /\ PairsOK
  BY Zenon DEF IInv, MInv, Types, Places, buddy_alloc_order, Return
<1>2. b \in Pages
  BY Zenon, <1>1, HeadBlock
<1> HIDE DEF b
<1>3. /\ Range(free_lists'[order]) = Range(free_lists[order]) \ {b}
      /\ \A k \in Orders \ {order} : free_lists'[k] = free_lists[k]
  BY <1>1, <1>2, RemovedFrom
<1>4. ASSUME NEW o \in Inner PROVE NoPairs(Range(free_lists'[o]), o)
  <2>1. o \in Orders
    BY DEF Inner
  <2>2. CASE o = order
    BY Zenon, <1>1, <1>3, <2>2 DEF PairsOK, Pending, b
  <2>3. CASE o # order
    <3>1. Pending(o) = {} /\ free_lists'[o] = free_lists[o]
      BY Zenon, <1>1, <1>3, <2>1, <2>3 DEF Pending
    <3>2. NoPairs(Range(free_lists[o]) \ {}, o)
      BY Zenon, <1>1, <3>1 DEF PairsOK
    <3> QED
      BY Zenon, <3>1, <3>2
  <2> QED
    BY Zenon, <2>2, <2>3
<1>5. \A o \in Inner : Pending(o)' = {}
  BY Zenon, <1>1 DEF Pending
<1>6. PairsOK'
  BY Zenon, <1>4, <1>5 DEF PairsOK, NoPairs, get_buddy_addr
<1> QED
  BY Zenon, <1>1, <1>6 DEF MInv, Emptied, Laid

(* buddy_free adds one block, the one that try_merge starts from.          *)
LEMMA GiveBackStep ==
  ASSUME IInv, MInv, NEW h \in held, buddy_free(h)
  PROVE  MInv'
<1> DEFINE b == h[1]
           o == h[2]
<1>1. /\ pc = "ready" /\ Listed(free_lists) /\ b \in Pages /\ o \in Orders /\ PairsOK
      /\ order_bitmap[h[1]] = o
  BY Zenon DEF IInv, MInv, Types, Bitmaps, buddy_free
<1>2. /\ free_lists' = add_to_free_list(free_lists, b, o)
      /\ pc' = "merge" /\ level' = o /\ block' = b
  BY Zenon, <1>1 DEF buddy_free
<1> HIDE DEF b, o
<1>3. /\ Range(free_lists'[o]) = Range(free_lists[o]) \cup {b}
      /\ \A k \in Orders \ {o} : free_lists'[k] = free_lists[k]
  BY <1>1, <1>2, AddedTo
<1>4. ASSUME NEW k \in Inner PROVE NoPairs(Range(free_lists'[k]) \ Pending(k)', k)
  <2>1. k \in Orders /\ Range(free_lists[k]) \in SUBSET Pages
    BY Zenon, ListedPages DEF Inner
  <2>2. NoPairs(Range(free_lists[k]), k)
    BY Zenon, <1>1 DEF PairsOK, Pending
  <2>3. Range(free_lists'[k]) \ Pending(k)' \in SUBSET Range(free_lists[k])
    BY Zenon, <1>2, <1>3, <2>1 DEF Pending
  <2> QED
    BY Zenon, <2>1, <2>2, <2>3, FewPairs
<1>5. PairsOK'
  BY Zenon, <1>4 DEF PairsOK, NoPairs, get_buddy_addr
<1> QED
  BY Zenon, <1>2, <1>5 DEF MInv, Emptied, Laid

(* A level of try_merge: the pair becomes one block, whose buddy is looked *)
(* for next, or there is no pair.                                          *)
LEMMA JoinStep == IInv /\ MInv /\ try_merge => MInv'
<1> SUFFICES ASSUME IInv, MInv, try_merge PROVE MInv'
  OBVIOUS
<1>1. /\ pc = "merge" /\ level \in Orders /\ block \in Range(free_lists[level])
      /\ Listed(free_lists) /\ PairsOK
  BY Zenon DEF IInv, MInv, Types, Places, try_merge
<1> DEFINE buddy == get_buddy_addr(block, level)
<1>2. block \in Pages /\ block \in Nat /\ Range(free_lists[level]) \subseteq Pages
  BY <1>1, ListedPages DEF Pages
<1>3. ASSUME NEW o \in Inner
      PROVE  /\ o \in Orders /\ Range(free_lists[o]) \in SUBSET Pages
             /\ o # level => NoPairs(Range(free_lists[o]), o)
             /\ o = level => NoPairs(Range(free_lists[o]) \ {block}, o)
  <2>1. o \in Orders /\ Range(free_lists[o]) \in SUBSET Pages
    BY ListedPages DEF Inner
  <2>2. NoPairs(Range(free_lists[o]) \ Pending(o), o)
    BY Zenon, <1>1 DEF PairsOK
  <2>3. o = level => Pending(o) = {block}
    BY Zenon, <1>1 DEF Pending
  <2>4. o # level => Range(free_lists[o]) \ Pending(o) = Range(free_lists[o])
    BY Zenon, <1>1 DEF Pending
  <2> QED
    BY Zenon, <2>1, <2>2, <2>3, <2>4
<1>4. CASE ~CanMerge(block, level)
  <2>1. pc' = "ready" /\ free_lists' = free_lists
    BY Zenon, <1>1, <1>4 DEF try_merge, Return
  <2>2. ASSUME level \in Inner PROVE buddy \notin Range(free_lists[level])
    <3>1. SUFFICES ASSUME buddy \in Range(free_lists[level]) PROVE FALSE
      BY Zenon
    <3>2. buddy \in Pages /\ <<buddy, level>> \in FreeBlocks /\ buddy \in Int
      BY <1>1, <1>2, <3>1 DEF FreeBlocks, Pages
    <3>3. buddy \in BlockPages(buddy, level)
      BY Zenon, <1>1, <3>2, BlockFacts
    <3>4. ~allocation_bitmap[buddy]
      <4>1. /\ Tiles(FreeBlocks \cup held, TotalPages) /\ FreeBlocks \cap held = {}
            /\ Bitmaps
        BY Zenon, <1>1 DEF IInv, Limit
      <4>2. ASSUME NEW x \in held, buddy \in BlockPages(x[1], x[2]) PROVE FALSE
        <5>1. x = <<buddy, level>>
          BY <3>2, <3>3, <4>1, <4>2 DEF Tiles
        <5> QED
          BY Zenon, <3>2, <4>1, <5>1
      <4> QED
        BY Zenon, <3>2, <4>1, <4>2 DEF Bitmaps
    <3>5. level < BUDDY_MAX_ORDER
      BY <1>1, <2>2, BuddyAssumption DEF Inner, Orders
    <3> QED
      BY Zenon, <1>4, <3>1, <3>2, <3>4, <3>5 DEF CanMerge
  <2>3. ASSUME NEW o \in Inner PROVE NoPairs(Range(free_lists[o]), o)
    <3>1. CASE o # level
      BY Zenon, <1>3, <3>1
    <3>2. CASE o = level
      <4> SUFFICES ASSUME NEW x \in Range(free_lists[o]),
                          get_buddy_addr(x, o) \in Range(free_lists[o])
                   PROVE  FALSE
        BY Zenon DEF NoPairs
      <4>1. x # block
        BY Zenon, <2>2, <3>2
      <4>2. get_buddy_addr(x, o) # block
        <5>1. x \in Nat /\ o \in Orders
          <6>1. o \in Orders /\ x \in Pages
            BY Zenon, <1>3
          <6> QED
            BY <6>1 DEF Pages
        <5>2. get_buddy_addr(get_buddy_addr(x, o), o) = x
          BY Zenon, <5>1, BuddyOfBuddy
        <5> QED
          BY Zenon, <2>2, <3>2, <5>2
      <4> QED
        BY Zenon, <1>3, <3>2, <4>1, <4>2 DEF NoPairs
    <3> QED
      BY Zenon, <3>1, <3>2
  <2>4. \A o \in Inner : Range(free_lists'[o]) \ Pending(o)' = Range(free_lists[o])
    BY <2>1 DEF Pending
  <2>5. PairsOK'
    BY Zenon, <2>3, <2>4 DEF PairsOK, NoPairs, get_buddy_addr
  <2> QED
    BY <2>1, <2>5 DEF MInv, Emptied, Laid
<1>5. CASE CanMerge(block, level)
  <2> DEFINE lo == MergedStart(block, buddy)
             half == remove_from_free_list(free_lists, buddy, level)
             taken == remove_from_free_list(half, block, level)
  <2>1. /\ free_lists' = add_to_free_list(taken, lo, level + 1)
        /\ block' = lo /\ level' = level + 1 /\ pc' = "merge"
    BY Zenon, <1>1, <1>5 DEF try_merge
  <2>2. /\ level < BUDDY_MAX_ORDER /\ level + 1 \in Orders /\ level # level + 1
        /\ buddy \in Pages
    BY <1>1, <1>5, DoubleSize, BuddyAssumption DEF CanMerge, Orders
  <2>3. lo \in Pages
    BY Zenon, <1>2, <2>2 DEF MergedStart
  <2> HIDE DEF buddy, lo
  <2>4. Listed(half)
    BY Zenon, <1>1, <2>2, RemoveList
  <2>5. /\ Range(half[level]) = Range(free_lists[level]) \ {buddy}
        /\ \A k \in Orders \ {level} : half[k] = free_lists[k]
    BY <1>1, <2>2, RemovedFrom
  <2> HIDE DEF half
  <2>6. Listed(taken)
    BY Zenon, <1>1, <1>2, <2>4, RemoveList
  <2>7. /\ Range(taken[level]) = Range(half[level]) \ {block}
        /\ \A k \in Orders \ {level} : taken[k] = half[k]
    BY <1>1, <1>2, <2>4, RemovedFrom
  <2> HIDE DEF taken
  <2>8. /\ Range(free_lists'[level + 1]) = Range(taken[level + 1]) \cup {lo}
        /\ \A k \in Orders \ {level + 1} : free_lists'[k] = taken[k]
    BY <2>1, <2>2, <2>3, <2>6, AddedTo
  <2>9. ASSUME NEW o \in Inner PROVE NoPairs(Range(free_lists'[o]) \ Pending(o)', o)
    <3>0. o \in Orders
      BY DEF Inner
    <3>1. CASE o = level
      <4>1. Range(free_lists'[o]) \ Pending(o)' \in SUBSET (Range(free_lists[o]) \ {block})
        BY Zenon, <1>1, <2>2, <2>5, <2>7, <2>8, <3>1
      <4>2. Range(free_lists[o]) \ {block} \in SUBSET Pages
        BY Zenon, <1>3
      <4>3. NoPairs(Range(free_lists[o]) \ {block}, o)
        BY Zenon, <1>3, <3>1
      <4> QED
        BY SMTT(30), <3>0, <4>1, <4>2, <4>3, FewPairs
    <3>2. CASE o # level
      <4>1. Range(free_lists'[o]) \ Pending(o)' \in SUBSET Range(free_lists[o])
        <5>1. CASE o = level + 1
          BY Zenon, <2>1, <2>2, <2>5, <2>7, <2>8, <5>1 DEF Pending
        <5>2. CASE o # level + 1
          BY Zenon, <2>5, <2>7, <2>8, <3>0, <3>2, <5>2
        <5> QED
          BY Zenon, <5>1, <5>2
      <4> QED
        BY Zenon, <1>3, <3>0, <3>2, <4>1, FewPairs
    <3> QED
      BY Zenon, <3>1, <3>2
  <2>10. PairsOK'
    BY Zenon, <2>9 DEF PairsOK, NoPairs, get_buddy_addr
  <2> QED
    BY Zenon, <2>1, <2>10 DEF MInv, Emptied, Laid
<1> QED
  BY Zenon, <1>4, <1>5

(* BuddiesMerged, for every region and every place of the bitmaps: a free  *)
(* block never waits beside its buddy after a call has returned, however   *)
(* the halves that split_block makes are aligned.                          *)
THEOREM BuddiesAlwaysMerged == Spec => []BuddiesMerged
<1>1. Init => MInv
  <2> SUFFICES ASSUME Init PROVE MInv
    OBVIOUS
  <2>1. Range(<<>>) = {}
    BY DEF Range
  <2>2. Laid
    BY <2>1, BuddyAssumption DEF Init, Laid, Inner, Orders
  <2> QED
    BY Zenon, <2>2 DEF Init, MInv, PairsOK, Emptied
<1>2. IInv /\ MInv /\ [Next]_buddyVars => MInv'
  <2> SUFFICES ASSUME IInv, MInv, [Next]_buddyVars PROVE MInv'
    BY Zenon
  <2>1. CASE UNCHANGED buddyVars
    BY ZenonT(30), <2>1 DEF buddyVars, MInv, PairsOK, Emptied, Laid, Pending, NoPairs, get_buddy_addr
  <2>2. CASE \E p \in Pages : DoubleFree(p)
    BY Zenon, <2>1, <2>2 DEF DoubleFree
  <2> QED
    BY Zenon, <2>1, <2>2, LayStep, BeginStep, HalvesStep, HandOutStep, GiveBackStep, JoinStep DEF Next
<1>3. MInv => BuddiesMerged
  <2> SUFFICES ASSUME MInv, pc = "ready", NEW o \in Inner
               PROVE  NoPairs(Range(free_lists[o]), o)
    BY Zenon DEF BuddiesMerged, NoPairs, Inner
  <2>1. NoPairs(Range(free_lists[o]) \ {}, o)
    BY Zenon DEF MInv, PairsOK, Pending
  <2> QED
    BY Zenon, <2>1
<1> QED
  BY <1>1, <1>2, <1>3, Always, PTL DEF Spec
=============================================================================
