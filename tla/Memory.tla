------------------------------- MODULE Memory -------------------------------
(***************************************************************************)
(* The physical page allocator of mm/pmm.c and the page tables of          *)
(* mm/vmm.c, from the state that boot.asm and pmm_init leave.  Addresses   *)
(* are page numbers.  A virtual page is the sequence of its four indices,  *)
(* a table is the content of a frame, and every frame has a content, so    *)
(* that a frame in two uses shows.                                         *)
(*                                                                         *)
(* Callers: kernel_main (the buddy allocator's structure), nvme_init (the  *)
(* controller's registers), cmd_pagetest, and clients of vmm_alloc_page,   *)
(* vmm_unmap_page and vmm_free_page, which the kernel itself never calls.  *)
(***************************************************************************)
EXTENDS Integers, Sequences, FiniteSets

CONSTANTS
  PHYS_LOW_MEM_END, PHYS_KERNEL_END, PHYS_HEAP_END,
  PHYS_FREE_START,   \* the bitmap's region ends here
  PHYS_MEMORY_END,
  PHYS_BUDDY_START,  \* base_addr of the buddy allocator
  PageIndexes,       \* 2^32, the values of the type of a page index
  TableSize,         \* entries of a table, pages of a huge page
  Bars,              \* frames where the controller's registers may be
  BarPages,          \* pages that nvme_init maps
  HeapPages          \* virtual pages that clients of vmm_alloc_page use

Frames == 0 .. PHYS_MEMORY_END - 1
Index == 0 .. TableSize - 1
DeviceFrames == {b + i : b \in Bars, i \in 0 .. BarPages - 1}

ASSUME MemoryConstants ==
  /\ 0 < PHYS_LOW_MEM_END /\ PHYS_LOW_MEM_END + 5 <= PHYS_KERNEL_END
  /\ PHYS_KERNEL_END < PHYS_HEAP_END /\ PHYS_HEAP_END < PHYS_FREE_START
  /\ PHYS_FREE_START < PHYS_BUDDY_START /\ PHYS_BUDDY_START < PHYS_MEMORY_END
  /\ PHYS_MEMORY_END % TableSize = 0
  /\ PHYS_MEMORY_END <= TableSize * TableSize
  /\ PHYS_MEMORY_END + PHYS_FREE_START < PageIndexes
  /\ HeapPages \subseteq [1 .. 4 -> Index]

(* The tables that boot.asm fills, in the kernel's image: p4, and a p3 and *)
(* a p2 for the identity map and for the direct map of all memory.         *)
boot_p4 == PHYS_LOW_MEM_END
boot_p3 == boot_p4 + 1
boot_p2 == boot_p4 + 2
boot_p3_direct == boot_p4 + 3
boot_p2_direct == boot_p4 + 4
DirectIndex == 1     \* PML4_INDEX of VIRT_PHYS_MAP_BASE

PHYS_TO_VIRT(f) ==
  <<DirectIndex, f \div (TableSize * TableSize), (f \div TableSize) % TableSize,
    f % TableSize>>

VARIABLES
  page_bitmap,       \* the page indices whose bit is set
  used_pages,
  memory,            \* frame -> index -> entry
  data,              \* frames that callers hold
  returned,          \* frames that callers gave to pmm_free_page or kfree_pages
  bar,               \* where the registers are
  mapped,            \* pages of the loop of nvme_init that are done
  nvme               \* "map", "ok" or "E_HARDWARE"

memoryVars == <<page_bitmap, used_pages, memory, data, returned, bar, mapped, nvme>>

-----------------------------------------------------------------------------
total_pages == PHYS_MEMORY_END - PHYS_FREE_START

(* The subtraction wraps, and the result is cut to 32 bits.                *)
addr_to_page(f) == (f - PHYS_FREE_START) % PageIndexes

page_to_addr(i) == PHYS_FREE_START + i

(* The set bits and the counter together.                                  *)
Pmm == [bits |-> page_bitmap, used |-> used_pages]

(* A region that starts below PHYS_FREE_START is moved up: its start goes  *)
(* to PHYS_FREE_START, and PHYS_FREE_START is added to its end.            *)
pmm_mark_region_used(pmm, start, end) ==
  LET from == IF start < PHYS_FREE_START THEN PHYS_FREE_START ELSE start
      shifted == IF start < PHYS_FREE_START THEN end + PHYS_FREE_START ELSE end
      to == IF shifted > PHYS_MEMORY_END THEN PHYS_MEMORY_END ELSE shifted
      pages == {i \in 0 .. total_pages - 1 :
                  addr_to_page(from) <= i /\ i < addr_to_page(to)}
  IN IF from >= to THEN pmm
     ELSE [bits |-> pmm.bits \cup pages,
           used |-> pmm.used + Cardinality(pages \ pmm.bits)]

pmm_init ==
  LET none == [bits |-> {}, used |-> 0]
      low == pmm_mark_region_used(none, 0, PHYS_LOW_MEM_END)
      kernel == pmm_mark_region_used(low, PHYS_LOW_MEM_END, PHYS_KERNEL_END)
      heap == pmm_mark_region_used(kernel, PHYS_KERNEL_END, PHYS_HEAP_END)
  IN pmm_mark_region_used(heap, PHYS_HEAP_END, PHYS_FREE_START)

FreeBits == (0 .. total_pages - 1) \ page_bitmap

(* Variant: the search starts at the last page.                            *)
FirstFree_Last(n) == {i \in FreeBits : Cardinality({j \in FreeBits : j > i}) < n}

(* The first n pages that calls of pmm_alloc_page return one after the     *)
(* other, lowest first, or as many as there are.                           *)
FirstFree(n) == {i \in FreeBits : Cardinality({j \in FreeBits : j < i}) < n}

(* Variant: the bit is not set.                                            *)
Taken_Unset(bits) == [bits |-> page_bitmap, used |-> used_pages + Cardinality(bits)]

Taken(bits) == [bits |-> page_bitmap \cup bits, used |-> used_pages + Cardinality(bits)]

SetPmm(pmm) == page_bitmap' = pmm.bits /\ used_pages' = pmm.used

(* pmm_alloc_pages: the lowest run of count free pages, as the set of its  *)
(* bits, or the empty set.                                                 *)
pmm_alloc_pages(count) ==
  LET runs == {s \in FreeBits : s .. s + count - 1 \subseteq FreeBits} IN
  {i \in FreeBits : \E s \in runs : /\ \A r \in runs : s <= r
                                    /\ i \in s .. s + count - 1}

(* pmm_free_page refuses frames from PHYS_HEAP_END on, and below that the  *)
(* page index has wrapped.                                                 *)
pmm_free_page(pmm, f) ==
  IF f >= PHYS_HEAP_END \/ addr_to_page(f) >= total_pages \/ addr_to_page(f) \notin pmm.bits
  THEN pmm
  ELSE [bits |-> pmm.bits \ {addr_to_page(f)}, used |-> pmm.used - 1]

-----------------------------------------------------------------------------
Absent == [addr |-> 0, flags |-> {}]
Present(f) == [addr |-> f, flags |-> {"PRESENT"}]
Huge(f) == [addr |-> f, flags |-> {"PRESENT", "HUGE"}]
Junk == [addr |-> 0, flags |-> {"PRESENT", "HUGE"}]  \* a word that is no entry

HugeMap == [i \in Index |-> IF i * TableSize < PHYS_MEMORY_END
                            THEN Huge(i * TableSize) ELSE Absent]
Only(i, e) == [j \in Index |-> IF j = i THEN e ELSE Absent]

(* Memory after boot.asm: what it does not fill holds anything.            *)
BootMemory ==
  [f \in Frames |->
    CASE f = boot_p4 -> [i \in Index |-> IF i = 0 THEN Present(boot_p3)
                                         ELSE IF i = DirectIndex THEN Present(boot_p3_direct)
                                         ELSE Absent]
      [] f = boot_p3 -> Only(0, Present(boot_p2))
      [] f = boot_p3_direct -> Only(0, Present(boot_p2_direct))
      [] f \in {boot_p2, boot_p2_direct} -> HugeMap
      [] OTHER -> [i \in Index |-> Junk]]

(* kernel_main takes a page for the buddy allocator's structure before     *)
(* anything else is allocated.                                             *)
Init ==
  LET first == CHOOSE i \in (0 .. total_pages - 1) \ pmm_init.bits :
                 \A j \in (0 .. total_pages - 1) \ pmm_init.bits : i <= j IN
  /\ page_bitmap = pmm_init.bits \cup {first}
  /\ used_pages = pmm_init.used + 1
  /\ data = {page_to_addr(first)}
  /\ returned = {}
  /\ memory = BootMemory
  /\ bar \in Bars
  /\ mapped = 0
  /\ nvme = "map"

-----------------------------------------------------------------------------
(* The walk of the four levels: the table of level k for page v, as a set  *)
(* that is empty when an entry on the way is not present.                  *)
Below(tables, i) ==
  {memory[f][i].addr : f \in {t \in tables : "PRESENT" \in memory[t][i].flags}}
TableOf(v, k) ==
  LET at[n \in 1 .. 4] == IF n = 1 THEN {boot_p4} ELSE Below(at[n - 1], v[n - 1]) IN at[k]

(* The frame that a present entry of a page directory maps page v to.      *)
Translated(e, v) ==
  IF "HUGE" \in e.flags THEN {e.addr + v[4]} ELSE Below({e.addr}, v[4])

(* 0 means not mapped.                                                     *)
vmm_get_physical(v) ==
  LET present == {memory[t][v[3]] : t \in {t \in TableOf(v, 3) :
                                            "PRESENT" \in memory[t][v[3]].flags}}
      frames == UNION {Translated(e, v) : e \in present}
  IN IF frames = {} THEN 0 ELSE CHOOSE f \in frames : TRUE

vmm_is_mapped(v) == vmm_get_physical(v) # 0

(* How many of the tables for v exist.                                     *)
Depth(v) == Cardinality({k \in 1 .. 4 : TableOf(v, k) # {}})

(* Some frames, lowest first.                                              *)
InOrder(frames) ==
  [n \in 1 .. Cardinality(frames) |->
     CHOOSE f \in frames : Cardinality({g \in frames : g < f}) = n - 1]

(* Variant: new tables are not cleared.                                    *)
Cleared_Not(fresh, f, i) == memory[f][i]

Cleared(fresh, f, i) == IF f \in fresh THEN Absent ELSE memory[f][i]

(* Variant: a new table is entered in its parent by the next turn only.    *)
Links_Late(v, depth, chain, f, i) ==
  {k \in 1 .. Len(chain) - 1 : chain[k] = f /\ v[depth + k - 1] = i
                               /\ depth + Len(chain) = 5}

(* The place in a chain of tables, from level depth on, of the table whose *)
(* entry i leads to the next one and that is in frame f.                   *)
Links(v, depth, chain, f, i) ==
  {k \in 1 .. Len(chain) - 1 : chain[k] = f /\ v[depth + k - 1] = i}

(* vmm_map_page of v to frame p, with fresh the frames that its calls of   *)
(* pmm_alloc_page return.  When they are too few it fails, and the tables  *)
(* made so far stay.                                                       *)
vmm_map_page(v, p, fresh) ==
  \E depth \in {Depth(v)}, last \in TableOf(v, Depth(v)) :
    \E chain \in {<<last>> \o InOrder(fresh)} :
      memory' = [f \in Frames |-> [i \in Index |->
        IF depth + Cardinality(fresh) = 4 /\ f = chain[Len(chain)] /\ i = v[4]
        THEN Present(p)
        ELSE IF Links(v, depth, chain, f, i) # {}
        THEN Present(chain[1 + CHOOSE k \in Links(v, depth, chain, f, i) : TRUE])
        ELSE Cleared(fresh, f, i)]]

Missing(v) == 4 - Depth(v)
MapSucceeds(v, fresh) == Cardinality(fresh) = Missing(v)

-----------------------------------------------------------------------------
phys_page == bar + mapped

(* A turn of the loop of nvme_init that maps the registers.                *)
map_bar ==
  LET v == PHYS_TO_VIRT(bar + mapped) IN
  /\ nvme = "map" /\ mapped < BarPages
  /\ \/ /\ vmm_is_mapped(v)
        /\ mapped' = mapped + 1
        /\ nvme' = IF mapped' = BarPages THEN "ok" ELSE "map"
        /\ UNCHANGED <<page_bitmap, used_pages, memory>>
     \/ \E bits \in {FirstFree(Missing(v))} :
          /\ ~vmm_is_mapped(v)
          /\ SetPmm(Taken(bits))
          /\ vmm_map_page(v, phys_page, {page_to_addr(i) : i \in bits})
          /\ IF MapSucceeds(v, bits)
             THEN /\ mapped' = mapped + 1
                  /\ nvme' = IF mapped' = BarPages THEN "ok" ELSE "map"
             ELSE nvme' = "E_HARDWARE" /\ UNCHANGED mapped
  /\ UNCHANGED <<data, returned, bar>>

(* kalloc_pages, and the caller writes to the pages.                       *)
kalloc_pages(count) ==
  \E bits \in {pmm_alloc_pages(count)} :
    /\ bits # {}
    /\ SetPmm(Taken(bits))
    /\ data' = data \cup {page_to_addr(i) : i \in bits}
    /\ memory' = [f \in Frames |->
                    IF f \in data' THEN [i \in Index |-> Junk] ELSE memory[f]]
    /\ UNCHANGED <<returned, bar, mapped, nvme>>

(* cmd_pagetest takes three pages, writes to them and gives them back with *)
(* kfree_pages, which hands them to the buddy allocator and not to the     *)
(* page allocator; if one is missing it keeps the others.                  *)
cmd_pagetest ==
  \E bits \in {FirstFree(3)} : \E pages \in {{page_to_addr(i) : i \in bits}} :
    /\ SetPmm(Taken(bits))
    /\ IF Cardinality(pages) = 3
       THEN /\ returned' = returned \cup pages
            /\ memory' = [f \in Frames |-> IF f \in pages THEN [i \in Index |-> Junk]
                                           ELSE memory[f]]
            /\ UNCHANGED data
       ELSE data' = data \cup pages /\ UNCHANGED <<returned, memory>>
    /\ UNCHANGED <<bar, mapped, nvme>>

(* vmm_alloc_page: a page and then its mapping; if that fails the page is  *)
(* given to pmm_free_page.                                                 *)
vmm_alloc_page(v) ==
  \E page \in FirstFree(1) :
    \E bits \in {FirstFree(1 + Missing(v)) \ {page}} :
      /\ ~vmm_is_mapped(v)
      /\ vmm_map_page(v, page_to_addr(page), {page_to_addr(i) : i \in bits})
      /\ IF MapSucceeds(v, bits)
         THEN /\ SetPmm(Taken(bits \cup {page}))
              /\ data' = data \cup {page_to_addr(page)}
              /\ UNCHANGED returned
         ELSE /\ SetPmm(pmm_free_page(Taken(bits \cup {page}), page_to_addr(page)))
              /\ returned' = returned \cup {page_to_addr(page)}
              /\ UNCHANGED data
      /\ UNCHANGED <<bar, mapped, nvme>>

Erased(v) == [f \in Frames |-> IF f \in TableOf(v, 4) THEN [memory[f] EXCEPT ![v[4]] = Absent]
                                                    ELSE memory[f]]

(* vmm_unmap_page; the client keeps the frame.                             *)
vmm_unmap_page(v) ==
  /\ vmm_is_mapped(v)
  /\ memory' = Erased(v)
  /\ UNCHANGED <<page_bitmap, used_pages, data, returned, bar, mapped, nvme>>

vmm_free_page(v) ==
  LET f == vmm_get_physical(v) IN
  /\ vmm_is_mapped(v)
  /\ memory' = Erased(v)
  /\ SetPmm(pmm_free_page(Pmm, f))
  /\ data' = data \ {f}
  /\ returned' = returned \cup {f}
  /\ UNCHANGED <<bar, mapped, nvme>>

Next ==
  \/ map_bar
  \/ \E n \in 1 .. 2 : kalloc_pages(n)
  \/ cmd_pagetest
  \/ \E v \in HeapPages : vmm_alloc_page(v) \/ vmm_unmap_page(v) \/ vmm_free_page(v)

Spec == Init /\ [][Next]_memoryVars

-----------------------------------------------------------------------------
(* The entries of the tables that lead to a table, level by level from p4. *)
Entries(tables) == {<<t, i>> \in tables \X Index :
                      memory[t][i].flags = {"PRESENT"}}
Tables(k) ==
  LET level[n \in 1 .. 4] == IF n = 1 THEN {boot_p4}
                             ELSE {memory[e[1]][e[2]].addr : e \in Entries(level[n - 1])}
  IN level[k]
AllTables == UNION {Tables(k) : k \in 1 .. 4}

(* A frame that holds a table holds that table only: one entry leads to    *)
(* it, it has one level, no caller holds it, and it is the kernel's or one *)
(* that the page allocator counts as used.                                 *)
TablesExclusive ==
  /\ \A k \in 1 .. 3 : \A e, f \in Entries(Tables(k)) :
       e # f => memory[e[1]][e[2]].addr # memory[f[1]][f[2]].addr
  /\ \A j, k \in 1 .. 4 : j # k => Tables(j) \cap Tables(k) = {}
  /\ AllTables \cap (data \cup returned) = {}
  /\ \A t \in AllTables : t < PHYS_KERNEL_END \/ addr_to_page(t) \in page_bitmap

(* Every page that is used is one that pmm_init set aside, a table that    *)
(* the walk reaches, or one that a caller holds or gave back: a walk that  *)
(* fails half way loses no page.  And used_pages is the number of them,    *)
(* although the regions that pmm_init marks were moved onto one another.   *)
Accounted ==
  /\ \A i \in page_bitmap :
       \/ i \in pmm_init.bits
       \/ page_to_addr(i) \in AllTables \cup data \cup returned
  /\ used_pages = Cardinality(page_bitmap)

(* The page tables implement an address space: no operation changes the    *)
(* mapping of a page it was not given, and a failed one changes none.  The *)
(* direct map, through which get_table and every allocator reach memory,   *)
(* so stays whole while pages are mapped under the same entry of p4.       *)
Observed == HeapPages \cup {PHYS_TO_VIRT(f) : f \in (Frames \cup DeviceFrames) \ {0}}
Abstract == INSTANCE AddressSpace WITH
  VirtPages <- Observed, Frames <- (Frames \cup DeviceFrames) \ {0}, Unmapped <- 0,
  physical <- [v \in Observed |-> vmm_get_physical(v)]
IsAddressSpace == Abstract!Spec

(* The regions of the page allocator and of the buddy allocator overlap,   *)
(* and what keeps them apart is that pages are handed out lowest first:    *)
(* as many as lie below PHYS_BUDDY_START, less those that the moved        *)
(* regions of pmm_init take, are handed out before one is shared.          *)
SharedOnlyWhenFull ==
  LET out == (AllTables \cup data \cup returned) \cap (PHYS_FREE_START .. PHYS_MEMORY_END - 1)
  IN Cardinality(out) <= PHYS_BUDDY_START - 2 * PHYS_FREE_START
       => \A f \in out : f < PHYS_BUDDY_START
=============================================================================
