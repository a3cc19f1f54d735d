------------------------------ MODULE Kmalloc ------------------------------
(***************************************************************************)
(* The kernel's allocation interface, mm/allocators/kmalloc.c, over the    *)
(* slab caches and the buddy allocator.  A pointer is <<block, place>>:    *)
(* AfterHeader is the first byte after the header that kmalloc puts before *)
(* a large allocation, and place i is the slab's object i.                 *)
(* Of the bytes of an object only one fact matters: whether its last 16    *)
(* bytes begin with BUDDY_MAGIC, which kfree of the next object reads.     *)
(*                                                                         *)
(* External: the buddy allocator, which gives blocks that are free and     *)
(* ignores buddy_free of an address that is not page aligned.              *)
(***************************************************************************)
EXTENDS Slab

CONSTANTS
  CacheSize,         \* cache -> object_size
  SlabMax,           \* 4096, the largest request that goes to a cache
  MaxRequest,        \* the largest request; every large block has room for it
  SizeMod            \* 2^64, the values of size_t

Requests == 1 .. MaxRequest

(* The objects of cache c are the smallest that are large enough.          *)
Fits(c, n) ==
  /\ n <= CacheSize[c]
  /\ \A d \in Caches : n <= CacheSize[d] => CacheSize[c] <= CacheSize[d]

ASSUME KmallocAssumption ==
  /\ CacheSize \in [Caches -> 1 .. SlabMax]
  /\ \A n \in 1 .. SlabMax : \E c \in Caches : Fits(c, n)
  /\ {SlabMax, MaxRequest, SizeMod} \subseteq Nat
  /\ SlabMax < MaxRequest /\ MaxRequest < SizeMod

VARIABLES
  large,             \* block -> header->size of the large allocation, or 0
  pages,             \* blocks from kmalloc_pages
  tails,             \* objects whose last 16 bytes begin with BUDDY_MAGIC
  lost,              \* objects whose kfree was ignored
  short,             \* pointers to less memory than the caller asked for
  moving             \* the pointer that krealloc copies from, or Null

kmallocVars == <<head, next, prev, cache, state, free_list, held, free_blocks,
                 large, pages, tails, lost, short, moving>>

KmallocInit ==
  /\ Init
  /\ large = [b \in Slabs |-> 0]
  /\ pages = {}
  /\ tails = {} /\ lost = {} /\ short = {}
  /\ moving = Null

AfterHeader == 0
Large == {b \in Slabs : large[b] # 0}

-----------------------------------------------------------------------------
(* slab_kmalloc: the cache with the smallest objects that are large enough.*)
CacheFor(n) == CHOOSE c \in Caches : Fits(c, n)

(* kmalloc of at most SlabMax bytes, for a caller that wants asked.  Old   *)
(* bytes stay in the object unless the caller clears it.                   *)
kmalloc_small(n, asked, cleared) ==
  /\ n <= SlabMax
  /\ slab_alloc(CacheFor(n))
  /\ tails' = tails \ (IF cleared THEN held' \ held ELSE {})
  /\ short' = short \cup {o \in held' \ held : asked > CacheSize[cache'[o[1]]]}
  /\ UNCHANGED <<large, pages, lost>>

(* kmalloc of more: a block, whose header has the magic number and n.      *)
kmalloc_large(n, asked) ==
  /\ n > SlabMax
  /\ \E b \in free_blocks :
       /\ free_blocks' = free_blocks \ {b}
       /\ large' = [large EXCEPT ![b] = n]
       /\ short' = IF asked > MaxRequest THEN short \cup {<<b, AfterHeader>>} ELSE short
  /\ UNCHANGED <<head, next, prev, cache, state, free_list, held, pages, tails, lost>>

kmalloc(n) ==
  /\ moving = Null
  /\ kmalloc_small(n, n, FALSE) \/ kmalloc_large(n, n)
  /\ UNCHANGED moving

(* Variant: the product is not checked for overflow.                       *)
CallocTotal_Unchecked(num, size) == (num * size) % SizeMod

(* The product as kcalloc computes it, or 0 (kmalloc(0) is NULL) when      *)
(* dividing it again shows that it wrapped.                                *)
CallocTotal(num, size) ==
  LET total == (num * size) % SizeMod IN
  IF num # 0 /\ total \div num # size THEN 0 ELSE total

kcalloc(num, size) ==
  \E total \in {CallocTotal(num, size)} \cap Requests :
    /\ moving = Null
    /\ kmalloc_small(total, num * size, TRUE) \/ kmalloc_large(total, num * size)
    /\ UNCHANGED moving

(* kmalloc_pages: a block of the order for the number of pages.            *)
kmalloc_pages ==
  /\ moving = Null
  /\ \E b \in free_blocks : free_blocks' = free_blocks \ {b} /\ pages' = pages \cup {b}
  /\ UNCHANGED <<head, next, prev, cache, state, free_list, held, large, tails, lost,
                 short, moving>>

(* The client writes to an object it holds.  No object follows the last.   *)
Write(o) ==
  /\ moving = Null
  /\ o \in held /\ o[2] < ObjectsPerSlab
  /\ tails' \in {tails \cup {o}, tails \ {o}}
  /\ UNCHANGED <<head, next, prev, cache, state, free_list, held, free_blocks, large,
                 pages, lost, short, moving>>

-----------------------------------------------------------------------------
(* Variant: the end of the object itself is read.                          *)
is_buddy_allocation_Own(p) ==
  \/ p[2] = AfterHeader
  \/ p[2] \in 1 .. ObjectsPerSlab /\ p \in tails

(* is_buddy_allocation reads what is before the pointer: the header of a   *)
(* large allocation, the end of the object before, or, for the first       *)
(* object, num_objects in the slab's own header.                           *)
is_buddy_allocation(p) ==
  \/ p[2] = AfterHeader
  \/ p[2] \in 2 .. ObjectsPerSlab /\ <<p[1], p[2] - 1>> \in tails

(* Variant: the address is rounded down to a page.                         *)
Aligned_RoundsDown(p) == TRUE

(* kfree gives the address before the header to buddy_free, which accepts  *)
(* it only if it is page aligned: so is the header of a large allocation,  *)
(* and no address 16 bytes before an object.                               *)
Aligned(p) == p[2] = AfterHeader

buddy_free(b) ==
  /\ free_blocks' = free_blocks \cup {b}
  /\ large' = [large EXCEPT ![b] = 0]
  /\ pages' = pages \ {b}

(* kfree of a pointer that the client holds.                               *)
kfree_buddy(p) ==
  /\ is_buddy_allocation(p)
  /\ IF Aligned(p)
     THEN /\ buddy_free(p[1])
          /\ UNCHANGED lost
     ELSE /\ lost' = lost \cup {p}
          /\ UNCHANGED <<free_blocks, large, pages>>
  /\ held' = held \ {p}
  /\ short' = short \ {p}
  /\ UNCHANGED <<head, next, prev, cache, state, free_list, tails>>

(* slab_kfree: the first cache whose lists have the object's slab; if none *)
(* has it, buddy_free is called, and the address is not aligned.           *)
kfree_slab(p) ==
  /\ ~is_buddy_allocation(p)
  /\ \/ \E c \in Caches : /\ Found(c, p[1])
                          /\ slab_free(c, p)
                          /\ UNCHANGED lost
     \/ /\ \A c \in Caches : ~Found(c, p[1])
        /\ lost' = lost \cup {p}
        /\ held' = held \ {p}
        /\ UNCHANGED <<head, next, prev, cache, state, free_list, free_blocks>>
  /\ short' = short \ {p}
  /\ UNCHANGED <<large, pages, tails>>

Pointers == held \cup {<<b, AfterHeader>> : b \in Large}

kfree(p) ==
  /\ moving = Null
  /\ p \in Pointers
  /\ kfree_buddy(p) \/ kfree_slab(p)
  /\ UNCHANGED moving

kfree_pages(b) ==
  /\ moving = Null
  /\ b \in pages
  /\ buddy_free(b)
  /\ UNCHANGED <<head, next, prev, cache, state, free_list, held, tails, lost, short,
                 moving>>

-----------------------------------------------------------------------------
Capacity(p) == IF p[2] = AfterHeader THEN MaxRequest ELSE CacheSize[cache[p[1]]]

(* krealloc returns the same pointer when old_size suffices: the header's  *)
(* size for a large allocation, new_size itself for an object, and any     *)
(* number for an object before which there is the magic number.            *)
krealloc_stays(p, n) ==
  /\ moving = Null
  /\ p \in Pointers
  /\ p[2] = AfterHeader => n <= large[p[1]]
  /\ short' = IF n > Capacity(p) THEN short \cup {p} ELSE short \ {p}
  /\ UNCHANGED <<head, next, prev, cache, state, free_list, held, free_blocks, large,
                 pages, tails, lost, moving>>

(* Otherwise it takes new memory, and when there is none the result is     *)
(* NULL and the old memory is kept.                                        *)
krealloc_moves(p, n) ==
  /\ moving = Null
  /\ p \in Pointers
  /\ is_buddy_allocation(p)
  /\ p[2] = AfterHeader => n > large[p[1]]
  /\ \/ kmalloc_small(n, n, FALSE) /\ held' # held
     \/ kmalloc_large(n, n)
  /\ moving' = p

(* Then it copies, which for the model is a write of the client, and frees *)
(* the old memory.                                                         *)
krealloc_copied ==
  /\ moving # Null
  /\ kfree_buddy(moving)
  /\ moving' = Null

KmallocNext ==
  \/ \E n \in Requests : kmalloc(n)
  \/ \E num, size \in 0 .. MaxRequest : kcalloc(num, size)
  \/ kmalloc_pages
  \/ \E o \in Objects : Write(o)
  \/ \E p \in Pointers : kfree(p)
  \/ \E b \in pages : kfree_pages(b)
  \/ \E p \in Pointers, n \in Requests : krealloc_stays(p, n) \/ krealloc_moves(p, n)
  \/ krealloc_copied

KmallocSpec == KmallocInit /\ [][KmallocNext]_kmallocVars

-----------------------------------------------------------------------------
(* An object is lost only when the object before it ends with the magic    *)
(* number at the moment of its kfree: no other kfree is ignored.           *)
LostOnlyByMagic ==
  [][\A o \in lost' \ lost : <<o[1], o[2] - 1>> \in tails]_kmallocVars

(* A caller of kmalloc and kcalloc gets at least the memory it asked for,  *)
(* and so does a caller of krealloc with a large allocation.  Only         *)
(* krealloc of an object leaves the caller with less.                      *)
ShortOnlyByRealloc ==
  [][short' \ short # {} =>
       \E p \in held, n \in Requests : short' = short \cup {p} /\ krealloc_stays(p, n)
    ]_kmallocVars

(* Slabs, large allocations and pages together are one allocator: a        *)
(* pointer handed out overlaps nothing that is still held, and each kfree  *)
(* gives back exactly one.  A lost object stays held.                      *)
Cell(p) == IF p[2] = AfterHeader THEN <<p[1] * (ObjectsPerSlab + 1), ObjectsPerSlab + 1>>
           ELSE <<p[1] * (ObjectsPerSlab + 1) + p[2], 1>>
Abstract == INSTANCE PageAllocator WITH
  Lowest <- 0, Highest <- Cardinality(Slabs) * (ObjectsPerSlab + 1) - 1,
  Sizes <- {1, ObjectsPerSlab + 1},
  held <- {Cell(p) : p \in Pointers \cup lost} \cup {Cell(<<b, AfterHeader>>) : b \in pages}
IsAllocator == Abstract!Spec
=============================================================================
