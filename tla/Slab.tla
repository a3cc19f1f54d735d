-------------------------------- MODULE Slab --------------------------------
(***************************************************************************)
(* The slab caches of mm/allocators/slab.c: slabs of equal objects, kept   *)
(* by each cache in three doubly linked lists, by how many of their        *)
(* objects are free.  The lists are modelled pointer by pointer, in the    *)
(* order the code writes them, because a slab's state changes while it is  *)
(* still linked.                                                           *)
(*                                                                         *)
(* External: buddy_alloc_order, which returns a block that is not in use,  *)
(* or 0.                                                                   *)
(***************************************************************************)
EXTENDS Integers, Sequences, FiniteSets, Lists

CONSTANTS
  Slabs,             \* the blocks the buddy allocator can return, numbered from 0
  Null,
  Caches,            \* the caches that slab_init creates
  ObjectsPerSlab     \* objects_per_slab

ASSUME SlabAssumption ==
  /\ Cardinality(Slabs) \in Nat /\ Slabs = 0 .. Cardinality(Slabs) - 1
  /\ Null \notin Slabs \cup Caches
  /\ ObjectsPerSlab \in Nat \ {0}

VARIABLES
  head,              \* cache -> slabs_empty, slabs_partial, slabs_full
  next, prev,        \* slab->next, slab->prev
  cache,             \* slab->cache, Null for a block that is no slab
  state,             \* slab->state
  free_list,         \* slab -> its free objects, head first
  held,              \* objects clients hold
  free_blocks        \* blocks of the buddy allocator that are free

slabVars == <<head, next, prev, cache, state, free_list, held, free_blocks>>

SlabState == {"EMPTY", "PARTIAL", "FULL"}
Objects == Slabs \X (1 .. ObjectsPerSlab)

(* slab_init: the caches have no slab.                                     *)
Init ==
  /\ head = [c \in Caches |-> [st \in SlabState |-> Null]]
  /\ next = [s \in Slabs |-> Null] /\ prev = [s \in Slabs |-> Null]
  /\ cache = [s \in Slabs |-> Null]
  /\ state = [s \in Slabs |-> "EMPTY"]
  /\ free_list = [s \in Slabs |-> <<>>]
  /\ held = {}
  /\ free_blocks = Slabs

-----------------------------------------------------------------------------
(* The heads of a cache and the link fields as one record, so that the     *)
(* writes of a function follow one another.                                *)
Links(c) == [head |-> head[c], next |-> next, prev |-> prev]
SetLinks(c, m) ==
  /\ head' = [head EXCEPT ![c] = m.head]
  /\ next' = m.next /\ prev' = m.prev

(* remove_slab_from_list, called with the state the slab has by then: the  *)
(* head it updates is the head of the list for that state.                 *)
remove_slab_from_list(m, s, st) ==
  LET after == m.next[s]
      before == m.prev[s]
  IN [head |-> IF before = Null THEN [m.head EXCEPT ![st] = after] ELSE m.head,
      next |-> [x \in Slabs |-> IF x = s THEN Null
                                ELSE IF x = before THEN after ELSE m.next[x]],
      prev |-> [x \in Slabs |-> IF x = s THEN Null
                                ELSE IF x = after THEN before ELSE m.prev[x]]]

add_slab_to_list(m, s, st) ==
  LET old == m.head[st] IN
  [head |-> [m.head EXCEPT ![st] = s],
   next |-> [m.next EXCEPT ![s] = old],
   prev |-> [x \in Slabs |-> IF x = old THEN s ELSE IF x = s THEN Null ELSE m.prev[x]]]

(* Variant: the slab is not taken out of its list first.                   *)
Moved_Stays(m, s, old, new) == IF old = new THEN m ELSE add_slab_to_list(m, s, new)

(* Moving a slab whose state has changed from old to new.                  *)
Moved(m, s, old, new) ==
  IF old = new THEN m
  ELSE add_slab_to_list(remove_slab_from_list(m, s, new), s, new)

(* The slabs that a walk from h along next meets: those in every set that *)
(* has h and, with a slab, also the next.                                  *)
Walk(h) ==
  {s \in Slabs : \A R \in SUBSET Slabs :
     h \in R \cup {Null} /\ (\A x \in R : next[x] \in R \cup {Null}) => s \in R}

-----------------------------------------------------------------------------
Candidate(c) ==
  IF head[c]["PARTIAL"] # Null THEN head[c]["PARTIAL"] ELSE head[c]["EMPTY"]

RestOf(objects) == Tail(objects)

(* slab_alloc from slab s of cache c, whose links, free objects and state  *)
(* are m, objects and st.  Without a free object the result is NULL.       *)
TakeFrom(c, s, m, objects, st) ==
  IF objects = <<>>
  THEN UNCHANGED <<head, next, prev, state, free_list, held>>
  ELSE LET new == IF Len(objects) = 1 THEN "FULL" ELSE "PARTIAL" IN
       /\ free_list' = [free_list EXCEPT ![s] = RestOf(objects)]
       /\ state' = [state EXCEPT ![s] = new]
       /\ SetLinks(c, Moved(m, s, st, new))
       /\ held' = held \cup {<<s, Head(objects)>>}

(* The free list of a new slab runs from its last object to its first.     *)
FreshList == [i \in 1 .. ObjectsPerSlab |-> ObjectsPerSlab + 1 - i]

(* allocate_slab makes block s a slab of cache c, slab_alloc links it and  *)
(* takes an object.                                                        *)
allocate_slab(c, s) ==
  LET fresh == [head |-> head[c], next |-> [next EXCEPT ![s] = Null],
                prev |-> [prev EXCEPT ![s] = Null]] IN
  /\ cache' = [cache EXCEPT ![s] = c]
  /\ free_blocks' = free_blocks \ {s}
  /\ TakeFrom(c, s, add_slab_to_list(fresh, s, "EMPTY"), FreshList, "EMPTY")

(* When no block is free slab_alloc returns NULL.                          *)
slab_alloc(c) ==
  \/ /\ Candidate(c) # Null
     /\ TakeFrom(c, Candidate(c), Links(c), free_list[Candidate(c)], state[Candidate(c)])
     /\ UNCHANGED <<cache, free_blocks>>
  \/ /\ Candidate(c) = Null
     /\ \E s \in free_blocks : allocate_slab(c, s)

-----------------------------------------------------------------------------
(* slab_kfree and slab_free find the slab of an object by walking the      *)
(* three lists of each cache.                                              *)
Found(c, s) == \E st \in SlabState : s \in Walk(head[c][st])

StateAfterFree(n) == IF n = ObjectsPerSlab THEN "EMPTY" ELSE "PARTIAL"

slab_free(c, o) ==
  LET s == o[1]
      new == StateAfterFree(Len(free_list[s]) + 1)
  IN
  /\ free_list' = [free_list EXCEPT ![s] = Cons(o[2], @)]
  /\ state' = [state EXCEPT ![s] = new]
  /\ SetLinks(c, Moved(Links(c), s, state[s], new))
  /\ held' = held \ {o}
  /\ UNCHANGED <<cache, free_blocks>>

-----------------------------------------------------------------------------
(* The walks of slab_free and slab_kfree end, and stay within a cache:     *)
(* although a move leaves the head of the old list pointing at the slab,   *)
(* no walk comes back to a slab and none reaches another cache's slabs.    *)
ListsEnd ==
  \A c \in Caches, st \in SlabState : \A s \in Walk(head[c][st]) :
    cache[s] = c /\ s \notin Walk(next[s])

(* What docs/ARCHITECTURE.md says of slab_alloc: without a slab that has a *)
(* free object a new slab comes from the buddy allocator.  So while it has *)
(* pages the slab that slab_alloc takes has a free object.                 *)
FailsOnlyWithoutPages ==
  \A c \in Caches : free_blocks # {} /\ Candidate(c) # Null => free_list[Candidate(c)] # <<>>
=============================================================================
