--------------------------- MODULE KmallocProofs ---------------------------
(***************************************************************************)
(* kmalloc over the slab caches and the buddy allocator, for any number of *)
(* blocks, caches and objects in a slab.  The proofs rest on what the      *)
(* lists come to: a head that once points at a slab keeps pointing at it,  *)
(* full or not, so that no cache gets a second slab and every list has at  *)
(* most one.                                                               *)
(***************************************************************************)
EXTENDS Kmalloc, ListTheorems

Types ==
  /\ head \in [Caches -> [SlabState -> Slabs \cup {Null}]]
  /\ next \in [Slabs -> Slabs \cup {Null}] /\ prev \in [Slabs -> Slabs \cup {Null}]
  /\ cache \in [Slabs -> Caches \cup {Null}]
  /\ state \in [Slabs -> SlabState]
  /\ free_list \in [Slabs -> Seq(1 .. ObjectsPerSlab)]
  /\ held \subseteq Objects /\ lost \subseteq Objects
  /\ free_blocks \subseteq Slabs /\ pages \subseteq Slabs
  /\ large \in [Slabs -> 0 .. MaxRequest]

(* No slab is linked to another, and the head for empty slabs is the one   *)
(* slab of its cache.                                                      *)
OneSlab ==
  /\ \A s \in Slabs : next[s] = Null /\ prev[s] = Null
  /\ \A c \in Caches, st \in SlabState : head[c][st] # Null => cache[head[c][st]] = c
  /\ \A s \in Slabs : cache[s] # Null => head[cache[s]]["EMPTY"] = s

(* A block has one use.                                                    *)
OneUse ==
  \A b \in Slabs :
    /\ b \in free_blocks => cache[b] = Null /\ large[b] = 0 /\ b \notin pages
    /\ b \in pages => cache[b] = Null /\ large[b] = 0
    /\ large[b] # 0 => cache[b] = Null

(* An object is free, held or lost, and only once.                         *)
OneOwner ==
  /\ held \cap lost = {}
  /\ \A s \in Slabs : IsInjective(free_list[s])
  /\ \A o \in held \cup lost : cache[o[1]] # Null /\ o[2] \notin Range(free_list[o[1]])

(* While krealloc copies, the client still holds what it copies from.      *)
Copying == moving # Null => moving \in Pointers

KInv == Types /\ OneSlab /\ OneUse /\ OneOwner /\ Copying

-----------------------------------------------------------------------------
(* slab_kmalloc finds a cache for every request of at most SlabMax bytes.  *)
LEMMA CacheForFits ==
  ASSUME NEW n \in Requests, n <= SlabMax
  PROVE  CacheFor(n) \in Caches /\ n <= CacheSize[CacheFor(n)]
<1>1. n \in 1 .. SlabMax
  BY KmallocAssumption DEF Requests
<1> QED
  BY Zenon, <1>1, KmallocAssumption DEF CacheFor, Fits

(* What kcalloc passes on is the product, when it passes anything on.      *)
LEMMA CallocExact ==
  ASSUME NEW num \in 0 .. MaxRequest, NEW size \in 0 .. MaxRequest,
         CallocTotal(num, size) \in Requests
  PROVE  CallocTotal(num, size) = num * size
<1> DEFINE P == num * size
           t == P % SizeMod
<1>1. MaxRequest \in Nat /\ SizeMod \in Nat \ {0}
  BY KmallocAssumption
<1>2. num \in Nat /\ size \in Nat /\ P \in Nat
  BY <1>1
<1>3. t \in Nat /\ t <= P
  BY <1>1, <1>2
<1>4. CallocTotal(num, size) = t /\ (num # 0 => t \div num = size)
  BY <1>1 DEF CallocTotal, Requests
<1>5. CASE num = 0
  BY <1>1, <1>3, <1>4, <1>5 DEF Requests
<1>6. CASE num # 0
  <2>1. num * (t \div num) <= t
    BY <1>2, <1>3, <1>6
  <2>2. P <= t
    BY Zenon, <1>4, <1>6, <2>1
  <2> QED
    BY <1>2, <1>3, <1>4, <2>2
<1> QED
  BY Zenon, <1>5, <1>6

-----------------------------------------------------------------------------
(* A walk along next, when no slab is linked to another.                   *)
LEMMA WalkIs ==
  ASSUME OneSlab, NEW h \in Slabs \cup {Null}
  PROVE  Walk(h) = {h} \ {Null}
<1> DEFINE R == {h} \ {Null}
<1>1. /\ R \in SUBSET Slabs /\ h \in R \cup {Null}
      /\ \A x \in R : next[x] \in R \cup {Null}
  BY Zenon DEF OneSlab
<1>2. Walk(h) \subseteq R
  BY Zenon, <1>1 DEF Walk
<1>3. R \subseteq Walk(h)
  BY Zenon DEF Walk
<1> QED
  BY Zenon, <1>2, <1>3

-----------------------------------------------------------------------------
NoLinks == [s \in Slabs |-> Null]

LEMMA NotLinked ==
  ASSUME Types, OneSlab
  PROVE  next = NoLinks /\ prev = NoLinks
BY Zenon DEF Types, OneSlab, NoLinks

(* remove_slab_from_list and add_slab_to_list, of a slab that is linked to *)
(* no other: all that changes is the head of the list it is moved to.      *)
LEMMA MovedOne ==
  ASSUME NEW H \in [SlabState -> Slabs \cup {Null}], NEW s \in Slabs,
         NEW old \in SlabState, NEW new \in SlabState, NEW m,
         m = [head |-> H, next |-> NoLinks, prev |-> NoLinks]
  PROVE  Moved(m, s, old, new)
           = [head |-> IF old = new THEN H ELSE [H EXCEPT ![new] = s],
              next |-> NoLinks, prev |-> NoLinks]
<1> DEFINE r == [head |-> [H EXCEPT ![new] = Null], next |-> NoLinks, prev |-> NoLinks]
<1>1. m.next[s] = Null /\ m.prev[s] = Null /\ Null \notin Slabs
  BY Zenon, SlabAssumption DEF NoLinks
<1>2. remove_slab_from_list(m, s, new) = r
  BY Zenon, <1>1 DEF remove_slab_from_list, NoLinks
<1>3. r.head[new] = Null
  BY Zenon
<1>4. /\ [r.head EXCEPT ![new] = s] = [H EXCEPT ![new] = s]
      /\ [r.next EXCEPT ![s] = Null] = NoLinks
      /\ [x \in Slabs |-> IF x = Null THEN s ELSE IF x = s THEN Null ELSE r.prev[x]] = NoLinks
  BY Zenon, <1>1 DEF NoLinks
<1>5. add_slab_to_list(r, s, new)
        = [head |-> [H EXCEPT ![new] = s], next |-> NoLinks, prev |-> NoLinks]
  BY Zenon, <1>3, <1>4 DEF add_slab_to_list
<1> QED
  BY Zenon, <1>2, <1>5 DEF Moved

(* Heads of a cache that stay within one slab s of cache c.                *)
LEMMA HeadsKept ==
  ASSUME Types, OneSlab, NEW c \in Caches, NEW s \in Slabs, cache[s] \in {c, Null},
         cache' = [cache EXCEPT ![s] = c],
         \A t \in Slabs : cache[t] = c => t = s,
         NEW H \in [SlabState -> {s, Null}], H["EMPTY"] = s,
         head' = [head EXCEPT ![c] = H], next' = NoLinks, prev' = NoLinks
  PROVE  OneSlab'
<1>1. c # Null /\ Null \notin Slabs /\ "EMPTY" \in SlabState
  BY Zenon, SlabAssumption DEF SlabState
<1>2. \A t \in Slabs : cache'[t] = IF t = s THEN c ELSE cache[t]
  BY Zenon DEF Types
<1>3. \A d \in Caches : head'[d] = IF d = c THEN H ELSE head[d]
  BY Zenon DEF Types
<1>4. \A t \in Slabs : next'[t] = Null /\ prev'[t] = Null
  BY Zenon DEF NoLinks
<1>5. ASSUME NEW d \in Caches, NEW st \in SlabState, head'[d][st] # Null
      PROVE  cache'[head'[d][st]] = d
  <2>1. CASE d = c
    BY <1>2, <1>3, <1>5, <2>1
  <2>2. CASE d # c
    <3>1. head[d][st] # Null /\ head[d][st] \in Slabs /\ cache[head[d][st]] = d
      BY <1>3, <1>5, <2>2 DEF Types, OneSlab
    <3>2. head[d][st] # s
      BY Zenon, <1>1, <2>2, <3>1, SlabAssumption
    <3> QED
      BY Zenon, <1>2, <1>3, <2>2, <3>1, <3>2
  <2> QED
    BY Zenon, <2>1, <2>2
<1>6. ASSUME NEW t \in Slabs, cache'[t] # Null
      PROVE  head'[cache'[t]]["EMPTY"] = t
  <2>1. CASE t = s
    BY Zenon, <1>2, <1>3, <2>1
  <2>2. CASE t # s
    <3>1. cache'[t] = cache[t] /\ cache[t] # c /\ cache[t] \in Caches
      BY Zenon, <1>2, <1>6, <2>2 DEF Types
    <3>2. head[cache[t]]["EMPTY"] = t
      BY Zenon, <1>6, <3>1 DEF OneSlab
    <3> QED
      BY Zenon, <1>3, <3>1, <3>2
  <2> QED
    BY Zenon, <2>1, <2>2
<1> QED
  BY Zenon, <1>4, <1>5, <1>6 DEF OneSlab

(* The heads of a cache with one slab point at it or nowhere.              *)
LEMMA HeadsOf ==
  ASSUME Types, OneSlab, NEW s \in Slabs, cache[s] # Null
  PROVE  /\ cache[s] \in Caches
         /\ head[cache[s]] \in [SlabState -> {s, Null}] /\ head[cache[s]]["EMPTY"] = s
         /\ \A t \in Slabs : cache[t] = cache[s] => t = s
<1>1. cache[s] \in Caches /\ head[cache[s]]["EMPTY"] = s
  BY Zenon DEF Types, OneSlab
<1>2. \A t \in Slabs : cache[t] = cache[s] => t = s
  BY Zenon, <1>1 DEF OneSlab
<1>3. \A st \in SlabState : head[cache[s]][st] \in {s, Null}
  BY <1>1, <1>2 DEF Types, OneSlab
<1>4. head[cache[s]] \in [SlabState -> Slabs \cup {Null}]
  BY Zenon, <1>1 DEF Types
<1> QED
  BY Zenon, <1>1, <1>2, <1>3, <1>4

-----------------------------------------------------------------------------
(* slab_alloc has taken the first of the free objects of slab s, which is  *)
(* the slab of cache c or has just become it.                              *)
Taken(c, s, objects) ==
  /\ s \in Slabs
  /\ \/ s \in free_blocks /\ cache[s] = Null
     \/ s \notin free_blocks /\ cache[s] = c
  /\ objects \in Seq(1 .. ObjectsPerSlab) /\ objects # <<>> /\ IsInjective(objects)
  /\ \A o \in held \cup lost : o[1] = s => o[2] \notin Range(objects)
  /\ free_list' = [free_list EXCEPT ![s] = Tail(objects)]
  /\ held' = held \cup {<<s, Head(objects)>>}
  /\ cache' = [cache EXCEPT ![s] = c]
  /\ free_blocks' = free_blocks \ {s}

(* What the moves of a slab between lists keep.                            *)
ListTypes ==
  /\ head \in [Caches -> [SlabState -> Slabs \cup {Null}]]
  /\ next \in [Slabs -> Slabs \cup {Null}] /\ prev \in [Slabs -> Slabs \cup {Null}]
  /\ state \in [Slabs -> SlabState]

LEMMA SlabMoved ==
  ASSUME Types, OneSlab, NEW c \in Caches, NEW s \in Slabs, cache[s] \in {c, Null},
         cache' = [cache EXCEPT ![s] = c],
         \A t \in Slabs : cache[t] = c => t = s,
         NEW H \in [SlabState -> {s, Null}], H["EMPTY"] = s,
         NEW m, m = [head |-> H, next |-> NoLinks, prev |-> NoLinks],
         NEW old \in SlabState, NEW new \in SlabState,
         SetLinks(c, Moved(m, s, old, new)), state' = [state EXCEPT ![s] = new]
  PROVE  OneSlab' /\ ListTypes'
<1> DEFINE G == IF old = new THEN H ELSE [H EXCEPT ![new] = s]
<1>1. H \in [SlabState -> Slabs \cup {Null}]
  BY Zenon
<1>2. Moved(m, s, old, new) = [head |-> G, next |-> NoLinks, prev |-> NoLinks]
  BY <1>1, MovedOne
<1>3. G \in [SlabState -> {s, Null}] /\ G["EMPTY"] = s
  BY Zenon DEF SlabState
<1> HIDE DEF G
<1>4. head' = [head EXCEPT ![c] = G] /\ next' = NoLinks /\ prev' = NoLinks
  <2>1. SetLinks(c, [head |-> G, next |-> NoLinks, prev |-> NoLinks])
    BY Zenon, <1>2
  <2> QED
    BY Zenon, <2>1 DEF SetLinks
<1>5. OneSlab'
  BY Zenon, <1>3, <1>4, HeadsKept
<1>6. G \in [SlabState -> Slabs \cup {Null}]
  BY Zenon, <1>3
<1>7. ListTypes'
  BY Zenon, <1>4, <1>6 DEF ListTypes, Types, NoLinks
<1> QED
  BY Zenon, <1>5, <1>7

(* A new slab's free list has each object once.                            *)
LEMMA Fresh ==
  /\ FreshList \in Seq(1 .. ObjectsPerSlab) /\ FreshList # <<>>
  /\ IsInjective(FreshList)
<1>1. ObjectsPerSlab \in Nat \ {0}
  BY Zenon, SlabAssumption
<1>2. \A i \in 1 .. ObjectsPerSlab : ObjectsPerSlab + 1 - i \in 1 .. ObjectsPerSlab
  BY <1>1
<1>3. FreshList \in Seq(1 .. ObjectsPerSlab)
  BY <1>1, <1>2 DEF FreshList
<1>4. 1 \in DOMAIN FreshList
  BY <1>1 DEF FreshList
<1>5. IsInjective(FreshList)
  BY <1>1 DEF FreshList, IsInjective
<1> QED
  BY <1>3, <1>4, <1>5

LEMMA NewSlab ==
  ASSUME KInv, NEW c \in Caches, Candidate(c) = Null, NEW s \in free_blocks,
         allocate_slab(c, s)
  PROVE  Taken(c, s, FreshList) /\ OneSlab' /\ ListTypes'
<1> DEFINE H == [head[c] EXCEPT !["EMPTY"] = s]
           fresh == [head |-> head[c], next |-> [next EXCEPT ![s] = Null],
                     prev |-> [prev EXCEPT ![s] = Null]]
           m == add_slab_to_list(fresh, s, "EMPTY")
           new == IF Len(FreshList) = 1 THEN "FULL" ELSE "PARTIAL"
<1>1. /\ Types /\ OneSlab /\ s \in Slabs /\ cache[s] = Null /\ "EMPTY" \in SlabState
      /\ Null \notin Slabs /\ Null # c /\ "PARTIAL" \in SlabState /\ new \in SlabState
  BY Zenon, SlabAssumption DEF KInv, Types, OneUse, SlabState
<1>2. head[c]["EMPTY"] = Null /\ head[c] \in [SlabState -> Slabs \cup {Null}]
  BY Zenon, <1>1 DEF Candidate, Types
<1>3. \A t \in Slabs : cache[t] # c
  BY Zenon, <1>1, <1>2 DEF OneSlab
<1>4. \A st \in SlabState : head[c][st] = Null
  BY Zenon, <1>1, <1>2, <1>3 DEF OneSlab
<1>5. fresh = [head |-> head[c], next |-> NoLinks, prev |-> NoLinks]
  BY Zenon, <1>1, NotLinked DEF NoLinks
<1>6. m = [head |-> H, next |-> NoLinks, prev |-> NoLinks]
  <2>1. /\ fresh.head = head[c] /\ fresh.next = NoLinks /\ fresh.prev = NoLinks
    BY Zenon, <1>5
  <2> HIDE DEF fresh
  <2>2. /\ [NoLinks EXCEPT ![s] = Null] = NoLinks
        /\ [x \in Slabs |-> IF x = Null THEN s ELSE IF x = s THEN Null ELSE NoLinks[x]] = NoLinks
    BY Zenon, <1>1 DEF NoLinks
  <2> QED
    BY <1>2, <2>1, <2>2 DEF add_slab_to_list
<1>7. H \in [SlabState -> {s, Null}] /\ H["EMPTY"] = s
  BY Zenon, <1>1, <1>2, <1>4
<1>8. /\ cache' = [cache EXCEPT ![s] = c] /\ free_blocks' = free_blocks \ {s}
      /\ free_list' = [free_list EXCEPT ![s] = Tail(FreshList)]
      /\ state' = [state EXCEPT ![s] = new]
      /\ SetLinks(c, Moved(m, s, "EMPTY", new))
      /\ held' = held \cup {<<s, Head(FreshList)>>}
  BY Zenon, Fresh DEF allocate_slab, TakeFrom, RestOf
<1>9. \A o \in held \cup lost : o[1] # s
  BY Zenon, <1>1 DEF KInv, OneOwner
<1> HIDE DEF H, m, new, fresh
<1>10. OneSlab' /\ ListTypes'
  BY Zenon, <1>1, <1>3, <1>6, <1>7, <1>8, SlabMoved
<1> QED
  BY Zenon, <1>1, <1>8, <1>9, <1>10, Fresh DEF Taken

LEMMA OldSlab ==
  ASSUME KInv, NEW c \in Caches, Candidate(c) # Null, slab_alloc(c),
         free_list[Candidate(c)] # <<>>
  PROVE  Taken(c, Candidate(c), free_list[Candidate(c)]) /\ OneSlab' /\ ListTypes'
<1> DEFINE s == Candidate(c)
           objects == free_list[s]
           new == IF Len(objects) = 1 THEN "FULL" ELSE "PARTIAL"
<1>1. s \in Slabs /\ cache[s] = c /\ Null # c
  BY SlabAssumption DEF Candidate, KInv, OneSlab, Types, SlabState
<1>2. /\ Types /\ OneSlab /\ s \notin free_blocks /\ new \in SlabState /\ state[s] \in SlabState
      /\ objects \in Seq(1 .. ObjectsPerSlab) /\ IsInjective(objects)
  BY Zenon, <1>1 DEF KInv, Types, OneUse, OneOwner, SlabState
<1>3. /\ head[c] \in [SlabState -> {s, Null}] /\ head[c]["EMPTY"] = s
      /\ \A t \in Slabs : cache[t] = c => t = s
  BY Zenon, <1>1, <1>2, HeadsOf
<1>4. Links(c) = [head |-> head[c], next |-> NoLinks, prev |-> NoLinks]
  BY Zenon, <1>2, NotLinked DEF Links
<1>5. /\ UNCHANGED <<cache, free_blocks>>
      /\ free_list' = [free_list EXCEPT ![s] = Tail(objects)]
      /\ state' = [state EXCEPT ![s] = new]
      /\ SetLinks(c, Moved(Links(c), s, state[s], new))
      /\ held' = held \cup {<<s, Head(objects)>>}
  BY Zenon DEF slab_alloc, TakeFrom, RestOf
<1>6. cache' = [cache EXCEPT ![s] = c] /\ free_blocks' = free_blocks \ {s}
  BY Zenon, <1>1, <1>2, <1>5 DEF Types
<1>7. \A o \in held \cup lost : o[1] = s => o[2] \notin Range(objects)
  BY Zenon DEF KInv, OneOwner
<1> HIDE DEF s, objects, new
<1>8. OneSlab' /\ ListTypes'
  BY Zenon, <1>1, <1>2, <1>3, <1>4, <1>5, <1>6, SlabMoved
<1>9. Taken(c, s, objects)
  BY Zenon, <1>1, <1>2, <1>5, <1>6, <1>7 DEF Taken, objects, s
<1> QED
  BY Zenon, <1>8, <1>9 DEF s, objects

(* What slab_alloc does: nothing, or it takes an object.                   *)
LEMMA AllocStep ==
  ASSUME KInv, NEW c \in Caches, slab_alloc(c)
  PROVE  \/ UNCHANGED slabVars
         \/ /\ \E s, objects : Taken(c, s, objects)
            /\ OneSlab' /\ ListTypes'
<1>1. CASE Candidate(c) = Null
  BY Zenon, <1>1, NewSlab DEF slab_alloc
<1>2. CASE Candidate(c) # Null /\ free_list[Candidate(c)] # <<>>
  BY Zenon, <1>2, OldSlab
<1>3. CASE Candidate(c) # Null /\ free_list[Candidate(c)] = <<>>
  BY Zenon, <1>3 DEF slab_alloc, TakeFrom, slabVars
<1> QED
  BY Zenon, <1>1, <1>2, <1>3

-----------------------------------------------------------------------------
(* The parts of the invariant that are not about krealloc.                 *)
Blocks == Types /\ OneSlab /\ OneUse /\ OneOwner

LEMMA TakenKeeps ==
  ASSUME Blocks, NEW c \in Caches, NEW s, NEW objects, Taken(c, s, objects),
         OneSlab', ListTypes', UNCHANGED <<large, pages, lost>>
  PROVE  Blocks'
<1> DEFINE x == Head(objects)
           o == <<s, x>>
<1>1. /\ s \in Slabs /\ x \in 1 .. ObjectsPerSlab /\ Tail(objects) \in Seq(1 .. ObjectsPerSlab)
      /\ x \in Range(objects) /\ IsInjective(Tail(objects)) /\ x \notin Range(Tail(objects))
      /\ Range(Tail(objects)) \subseteq Range(objects)
  BY ZenonT(30), TailRange DEF Taken
<1>2. o \in Objects /\ o[1] = s /\ o[2] = x /\ c # Null
  BY Zenon, <1>1, SlabAssumption DEF Objects
<1>3. /\ held' = held \cup {o} /\ free_blocks' = free_blocks \ {s}
      /\ free_list' \in [Slabs -> Seq(1 .. ObjectsPerSlab)]
      /\ cache' \in [Slabs -> Caches \cup {Null}]
      /\ \A t \in Slabs : /\ free_list'[t] = IF t = s THEN Tail(objects) ELSE free_list[t]
                          /\ cache'[t] = IF t = s THEN c ELSE cache[t]
  BY Zenon, <1>1 DEF Taken, Blocks, Types
<1> HIDE DEF x, o
<1>4. Types'
  BY Zenon, <1>2, <1>3 DEF Blocks, Types, ListTypes
<1>5. OneUse'
  <2>1. large[s] = 0 /\ s \notin pages
    BY Zenon, <1>1, <1>2 DEF Taken, Blocks, OneUse
  <2> QED
    BY Zenon, <1>1, <1>3, <2>1 DEF Blocks, OneUse
<1>6. o \notin lost
  BY Zenon, <1>1, <1>2 DEF Taken
<1>7. \A t \in Slabs : IsInjective(free_list'[t])
  BY Zenon, <1>1, <1>3 DEF Blocks, OneOwner
<1>8. ASSUME NEW h \in held' \cup lost'
      PROVE  cache'[h[1]] # Null /\ h[2] \notin Range(free_list'[h[1]])
  <2>1. CASE h = o
    BY Zenon, <1>1, <1>2, <1>3, <2>1
  <2>2. CASE h # o
    <3>1. h \in held \cup lost /\ h[1] \in Slabs
      BY Zenon, <1>3, <2>2 DEF Blocks, Types, Objects
    <3>2. cache[h[1]] # Null /\ h[2] \notin Range(free_list[h[1]])
      BY Zenon, <3>1 DEF Blocks, OneOwner
    <3>3. h[1] = s => h[2] \notin Range(objects)
      BY Zenon, <3>1 DEF Taken
    <3> QED
      BY Zenon, <1>1, <1>2, <1>3, <3>1, <3>2, <3>3
  <2> QED
    BY Zenon, <2>1, <2>2
<1>9. OneOwner'
  BY Zenon, <1>3, <1>6, <1>7, <1>8 DEF Blocks, OneOwner
<1> QED
  BY Zenon, <1>4, <1>5, <1>9 DEF Blocks

(* slab_kfree finds the slab of every object that is held, and no cache    *)
(* but its own has it.                                                     *)
LEMMA SlabFound ==
  ASSUME Types, OneSlab, NEW s \in Slabs
  PROVE  \A c \in Caches : Found(c, s) <=> cache[s] = c
<1> SUFFICES ASSUME NEW c \in Caches PROVE Found(c, s) <=> cache[s] = c
  BY Zenon
<1>1. "EMPTY" \in SlabState /\ \A st \in SlabState : head[c][st] \in Slabs \cup {Null}
  BY DEF Types, SlabState
<1>2. \A st \in SlabState : Walk(head[c][st]) = {head[c][st]} \ {Null}
  BY Zenon, <1>1, WalkIs
<1>3. Found(c, s) <=> \E st \in SlabState : head[c][st] = s
  BY Zenon, <1>2, SlabAssumption DEF Found
<1>4. (\E st \in SlabState : head[c][st] = s) => cache[s] = c
  BY Zenon, SlabAssumption DEF OneSlab
<1>5. cache[s] = c => head[c]["EMPTY"] = s
  BY Zenon, SlabAssumption DEF OneSlab
<1> QED
  BY Zenon, <1>1, <1>3, <1>4, <1>5

LEMMA FreeKeeps ==
  ASSUME Blocks, NEW c \in Caches, NEW o \in held, Found(c, o[1]), slab_free(c, o),
         UNCHANGED <<large, pages, lost>>
  PROVE  Blocks'
<1> DEFINE s == o[1]
           x == o[2]
           new == StateAfterFree(Len(free_list[s]) + 1)
<1>1. s \in Slabs /\ x \in 1 .. ObjectsPerSlab /\ o = <<s, x>> /\ Types /\ OneSlab
  BY DEF Blocks, Types, Objects
<1>2. /\ cache[s] = c /\ c # Null /\ x \notin Range(free_list[s])
      /\ free_list[s] \in Seq(1 .. ObjectsPerSlab) /\ IsInjective(free_list[s])
  BY Zenon, <1>1, SlabFound, SlabAssumption DEF Blocks, Types, OneOwner
<1>3. /\ free_list' = [free_list EXCEPT ![s] = Cons(x, @)]
      /\ state' = [state EXCEPT ![s] = new]
      /\ SetLinks(c, Moved(Links(c), s, state[s], new))
      /\ held' = held \ {o} /\ cache' = cache /\ free_blocks' = free_blocks
  BY Zenon DEF slab_free
<1> HIDE DEF s, x
<1>4. /\ Cons(x, free_list[s]) \in Seq(1 .. ObjectsPerSlab)
      /\ Range(Cons(x, free_list[s])) = Range(free_list[s]) \cup {x}
      /\ IsInjective(Cons(x, free_list[s]))
  <2> DEFINE q == free_list[s]
             S == 1 .. ObjectsPerSlab
  <2>1. q \in Seq(S) /\ x \in S /\ IsInjective(q) /\ x \notin Range(q)
    BY Zenon, <1>1, <1>2
  <2> HIDE DEF q, S
  <2>2. /\ Cons(x, q) \in Seq(S) /\ Range(Cons(x, q)) = Range(q) \cup {x}
        /\ IsInjective(Cons(x, q))
    BY <2>1, ConsRange
  <2> QED
    BY Zenon, <2>2 DEF q, S
<1>5. new \in SlabState /\ state[s] \in SlabState
  BY Zenon, <1>1 DEF StateAfterFree, SlabState, Types
<1>6. /\ head[c] \in [SlabState -> {s, Null}] /\ head[c]["EMPTY"] = s
      /\ \A t \in Slabs : cache[t] = c => t = s
  BY Zenon, <1>1, <1>2, HeadsOf
<1>7. Links(c) = [head |-> head[c], next |-> NoLinks, prev |-> NoLinks]
  BY Zenon, <1>1, NotLinked DEF Links
<1>8. cache' = [cache EXCEPT ![s] = c]
  BY Zenon, <1>1, <1>2, <1>3 DEF Types
<1> HIDE DEF new
<1>9. OneSlab' /\ ListTypes'
  BY Zenon, <1>1, <1>2, <1>3, <1>5, <1>6, <1>7, <1>8, SlabMoved
<1>10. /\ free_list' \in [Slabs -> Seq(1 .. ObjectsPerSlab)]
       /\ \A t \in Slabs : free_list'[t] = IF t = s THEN Cons(x, free_list[s]) ELSE free_list[t]
  BY Zenon, <1>1, <1>3, <1>4 DEF Types
<1>11. Types'
  BY Zenon, <1>1, <1>3, <1>9, <1>10 DEF Types, ListTypes
<1>12. OneUse'
  BY Zenon, <1>3 DEF Blocks, OneUse
<1>13. \A t \in Slabs : IsInjective(free_list'[t])
  BY Zenon, <1>4, <1>10 DEF Blocks, OneOwner
<1>14. ASSUME NEW h \in held' \cup lost'
       PROVE  cache'[h[1]] # Null /\ h[2] \notin Range(free_list'[h[1]])
  <2>1. h \in held \cup lost /\ h \in Objects /\ h # o
    BY Zenon, <1>3 DEF Blocks, Types, OneOwner
  <2>2. h[1] \in Slabs /\ h = <<h[1], h[2]>>
    BY SMTT(30), <2>1 DEF Objects
  <2>3. cache[h[1]] # Null /\ h[2] \notin Range(free_list[h[1]])
    BY Zenon, <2>1 DEF Blocks, OneOwner
  <2>4. h[1] = s => h[2] # x
    BY Zenon, <1>1, <2>1, <2>2
  <2> QED
    BY Zenon, <1>3, <1>4, <1>10, <2>2, <2>3, <2>4
<1>15. OneOwner'
  BY Zenon, <1>3, <1>13, <1>14 DEF Blocks, OneOwner
<1> QED
  BY Zenon, <1>9, <1>11, <1>12, <1>15 DEF Blocks

-----------------------------------------------------------------------------
LEMMA PointerKinds ==
  ASSUME Blocks, NEW p \in Pointers
  PROVE  \/ /\ p \in held /\ p \in Objects /\ ~Aligned(p)
            /\ p[1] \in Slabs /\ p[2] \in 1 .. ObjectsPerSlab
         \/ /\ p \notin held /\ p \notin Objects /\ Aligned(p)
            /\ p[1] \in Slabs /\ large[p[1]] # 0 /\ p = <<p[1], AfterHeader>>
<1>1. CASE p \in held
  BY <1>1, SlabAssumption DEF Blocks, Types, Objects, Aligned, AfterHeader
<1>2. CASE \E b \in Large : p = <<b, AfterHeader>>
  BY <1>2, SlabAssumption DEF Blocks, Types, Objects, Aligned, AfterHeader, Large
<1> QED
  BY Zenon, <1>1, <1>2 DEF Pointers

LEMMA PointersGrow ==
  ASSUME held \subseteq held', \A b \in Slabs : large[b] # 0 => large'[b] # 0
  PROVE  Pointers \subseteq Pointers'
BY Zenon DEF Pointers, Large

LEMMA SmallKeeps ==
  ASSUME KInv, NEW n \in Requests, NEW asked, NEW cleared, kmalloc_small(n, asked, cleared)
  PROVE  Blocks' /\ Pointers \subseteq Pointers'
<1>1. CacheFor(n) \in Caches /\ slab_alloc(CacheFor(n)) /\ UNCHANGED <<large, pages, lost>>
  BY Zenon, CacheForFits, KmallocAssumption DEF kmalloc_small, Requests
<1>2. Blocks
  BY Zenon DEF KInv, Blocks
<1>3. CASE UNCHANGED slabVars
  <2>1. Blocks'
    BY <1>1, <1>2, <1>3 DEF slabVars, Blocks, Types, OneSlab, OneUse, OneOwner
  <2>2. held \subseteq held' /\ large' = large
    BY Zenon, <1>1, <1>3 DEF slabVars
  <2> QED
    BY Zenon, <2>1, <2>2, PointersGrow
<1>4. CASE /\ \E s, objects : Taken(CacheFor(n), s, objects)
           /\ OneSlab' /\ ListTypes'
  <2>1. PICK s, objects : Taken(CacheFor(n), s, objects)
    BY Zenon, <1>4
  <2>2. Blocks'
    BY Zenon, <1>1, <1>2, <1>4, <2>1, TakenKeeps
  <2>3. held \subseteq held' /\ large' = large
    BY Zenon, <1>1, <2>1 DEF Taken
  <2> QED
    BY <2>2, <2>3, PointersGrow
<1> QED
  BY Zenon, <1>1, <1>3, <1>4, AllocStep

LEMMA LargeKeeps ==
  ASSUME Blocks, NEW n \in Requests, NEW asked, kmalloc_large(n, asked)
  PROVE  Blocks' /\ Pointers \subseteq Pointers'
<1>1. PICK b \in free_blocks : /\ free_blocks' = free_blocks \ {b}
                               /\ large' = [large EXCEPT ![b] = n]
  BY Zenon DEF kmalloc_large
<1>2. UNCHANGED <<head, next, prev, cache, state, free_list, held, pages, lost>>
  BY Zenon DEF kmalloc_large
<1>3. /\ b \in Slabs /\ n \in 0 .. MaxRequest /\ n # 0
      /\ cache[b] = Null /\ large[b] = 0 /\ b \notin pages
  BY <1>1, KmallocAssumption DEF Blocks, Types, OneUse, Requests
<1>4. /\ large' \in [Slabs -> 0 .. MaxRequest]
      /\ \A t \in Slabs : large'[t] = IF t = b THEN n ELSE large[t]
  BY Zenon, <1>1, <1>3 DEF Blocks, Types
<1>5. Types' /\ OneSlab' /\ OneOwner'
  BY Zenon, <1>1, <1>2, <1>4 DEF Blocks, Types, OneSlab, OneOwner
<1>6. OneUse'
  BY Zenon, <1>1, <1>2, <1>3, <1>4 DEF Blocks, OneUse
<1> QED
  BY Zenon, <1>2, <1>3, <1>4, <1>5, <1>6, PointersGrow DEF Blocks

LEMMA PagesKeeps ==
  ASSUME Blocks, kmalloc_pages
  PROVE  Blocks'
<1>1. PICK b \in free_blocks : free_blocks' = free_blocks \ {b} /\ pages' = pages \cup {b}
  BY Zenon DEF kmalloc_pages
<1>2. UNCHANGED <<head, next, prev, cache, state, free_list, held, large, lost>>
  BY Zenon DEF kmalloc_pages
<1>3. Types' /\ OneSlab' /\ OneOwner'
  BY SMTT(30), <1>1, <1>2 DEF Blocks, Types, OneSlab, OneOwner
<1>4. OneUse'
  BY Zenon, <1>1, <1>2 DEF Blocks, Types, OneUse
<1> QED
  BY Zenon, <1>3, <1>4 DEF Blocks

(* buddy_free of a block that is pages or a large allocation.              *)
LEMMA BlockFreed ==
  ASSUME Blocks, NEW b \in Slabs, b \in pages \/ large[b] # 0, buddy_free(b),
         UNCHANGED <<head, next, prev, cache, state, free_list, held, lost>>
  PROVE  Blocks'
<1>1. cache[b] = Null
  BY Zenon DEF Blocks, OneUse
<1>2. /\ large' \in [Slabs -> 0 .. MaxRequest]
      /\ \A t \in Slabs : large'[t] = IF t = b THEN 0 ELSE large[t]
  BY SMTT(30), KmallocAssumption DEF Blocks, Types, buddy_free
<1>3. Types' /\ OneSlab' /\ OneOwner'
  BY SMTT(30), <1>2 DEF Blocks, Types, OneSlab, OneOwner, buddy_free
<1>4. OneUse'
  BY Zenon, <1>1, <1>2 DEF Blocks, OneUse, buddy_free
<1> QED
  BY Zenon, <1>3, <1>4 DEF Blocks

LEMMA BuddyKeeps ==
  ASSUME Blocks, NEW p \in Pointers, kfree_buddy(p)
  PROVE  Blocks'
<1>1. CASE p \in held /\ ~Aligned(p)
  <2>1. /\ UNCHANGED <<head, next, prev, cache, state, free_list, free_blocks, large, pages>>
        /\ lost' = lost \cup {p} /\ held' = held \ {p}
    BY Zenon, <1>1 DEF kfree_buddy
  <2>2. Types' /\ OneSlab' /\ OneUse'
    BY Zenon, <1>1, <2>1 DEF Blocks, Types, OneSlab, OneUse
  <2>3. OneOwner'
    BY Zenon, <1>1, <2>1 DEF Blocks, OneOwner
  <2> QED
    BY Zenon, <2>2, <2>3 DEF Blocks
<1>2. CASE p \notin held /\ Aligned(p) /\ p[1] \in Slabs /\ large[p[1]] # 0
  <2>1. /\ UNCHANGED <<head, next, prev, cache, state, free_list, lost, held>>
        /\ buddy_free(p[1])
    BY Zenon, <1>2 DEF kfree_buddy
  <2> QED
    BY Zenon, <1>2, <2>1, BlockFreed
<1> QED
  BY Zenon, <1>1, <1>2, PointerKinds

(* kfree of a pointer without the magic number before it: it is an object, *)
(* and its slab is found.                                                  *)
LEMMA SlabFreed ==
  ASSUME Blocks, NEW p \in Pointers, kfree_slab(p)
  PROVE  /\ p \in held /\ UNCHANGED <<large, pages, lost>>
         /\ \E c \in Caches : Found(c, p[1]) /\ slab_free(c, p)
<1>1. ~Aligned(p)
  BY Zenon DEF kfree_slab, is_buddy_allocation, Aligned
<1>2. p \in held /\ p[1] \in Slabs
  BY Zenon, <1>1, PointerKinds
<1>3. cache[p[1]] \in Caches
  BY <1>2 DEF Blocks, Types, OneOwner
<1>4. Found(cache[p[1]], p[1])
  BY Zenon, <1>2, <1>3, SlabFound DEF Blocks
<1> QED
  BY Zenon, <1>2, <1>3, <1>4 DEF kfree_slab

-----------------------------------------------------------------------------
LEMMA InitKInv == KmallocInit => KInv
<1> SUFFICES ASSUME KmallocInit PROVE KInv
  BY Zenon
<1>1. Types
  BY KmallocAssumption DEF KmallocInit, Init, Types, SlabState, Objects
<1>2. OneSlab /\ Copying
  BY Zenon DEF KmallocInit, Init, OneSlab, Copying
<1>3. OneUse
  BY Zenon DEF KmallocInit, Init, OneUse
<1>4. OneOwner
  <2>1. \A s \in Slabs : free_list[s] = <<>>
    BY Zenon DEF KmallocInit, Init
  <2>2. IsInjective(<<>>)
    BY DEF IsInjective
  <2> QED
    BY Zenon, <2>1, <2>2 DEF KmallocInit, Init, OneOwner
<1> QED
  BY Zenon, <1>1, <1>2, <1>3, <1>4 DEF KInv

LEMMA NextKInv == KInv /\ [KmallocNext]_kmallocVars => KInv'
<1> SUFFICES ASSUME KInv, [KmallocNext]_kmallocVars PROVE KInv'
  BY Zenon
<1> USE DEF KInv, Copying
<1>b. Blocks
  BY Zenon DEF Blocks
<1>k. ASSUME Blocks', moving' = Null \/ moving' \in Pointers' PROVE KInv'
  BY Zenon, <1>k DEF Blocks
<1> HIDE DEF KInv, Copying
<1>1. CASE \E n \in Requests : kmalloc(n)
  <2>1. moving' = Null
    BY Zenon, <1>1 DEF kmalloc
  <2> QED
    BY Zenon, <1>1, <1>b, <1>k, <2>1, SmallKeeps, LargeKeeps DEF kmalloc
<1>2. CASE \E num, size \in 0 .. MaxRequest : kcalloc(num, size)
  <2>1. PICK num \in 0 .. MaxRequest, size \in 0 .. MaxRequest, total \in Requests :
          /\ moving = Null /\ moving' = moving
          /\ kmalloc_small(total, num * size, TRUE) \/ kmalloc_large(total, num * size)
    BY Zenon, <1>2 DEF kcalloc
  <2> QED
    BY Zenon, <1>b, <1>k, <2>1, SmallKeeps, LargeKeeps
<1>3. CASE kmalloc_pages
  <2>1. moving' = Null
    BY Zenon, <1>3 DEF kmalloc_pages
  <2> QED
    BY Zenon, <1>3, <1>b, <1>k, <2>1, PagesKeeps
<1>4. CASE \E o \in Objects : Write(o)
  <2>1. /\ moving' = Null
        /\ UNCHANGED <<head, next, prev, cache, state, free_list, held, free_blocks, large,
                       pages, lost>>
    BY Zenon, <1>4 DEF Write
  <2>2. Blocks'
    BY Zenon, <1>b, <2>1 DEF Blocks, Types, OneSlab, OneUse, OneOwner
  <2> QED
    BY Zenon, <1>k, <2>1, <2>2
<1>5. CASE \E p \in Pointers : kfree(p)
  <2>1. PICK p \in Pointers : moving = Null /\ moving' = moving /\ (kfree_buddy(p) \/ kfree_slab(p))
    BY Zenon, <1>5 DEF kfree
  <2>2. CASE kfree_buddy(p)
    BY Zenon, <1>b, <1>k, <2>1, <2>2, BuddyKeeps
  <2>3. CASE kfree_slab(p)
    BY Zenon, <1>b, <1>k, <2>1, <2>3, SlabFreed, FreeKeeps
  <2> QED
    BY Zenon, <2>1, <2>2, <2>3
<1>6. CASE \E b \in pages : kfree_pages(b)
  <2>1. PICK b \in pages : kfree_pages(b)
    BY Zenon, <1>6
  <2>2. /\ moving' = Null /\ buddy_free(b) /\ b \in Slabs
        /\ UNCHANGED <<head, next, prev, cache, state, free_list, held, lost>>
    BY Zenon, <1>b, <2>1 DEF kfree_pages, Blocks, Types
  <2> QED
    BY Zenon, <1>b, <1>k, <2>2, BlockFreed
<1>7. CASE \E p \in Pointers, n \in Requests : krealloc_stays(p, n)
  <2>1. /\ moving' = Null
        /\ UNCHANGED <<head, next, prev, cache, state, free_list, held, free_blocks, large,
                       pages, lost>>
    BY Zenon, <1>7 DEF krealloc_stays
  <2>2. Blocks'
    BY <1>b, <2>1 DEF Blocks, Types, OneSlab, OneUse, OneOwner
  <2> QED
    BY <1>k, <2>1, <2>2
<1>8. CASE \E p \in Pointers, n \in Requests : krealloc_moves(p, n)
  <2>1. PICK p \in Pointers, n \in Requests :
          /\ moving' = p
          /\ kmalloc_small(n, n, FALSE) \/ kmalloc_large(n, n)
    BY Zenon, <1>8 DEF krealloc_moves
  <2>2. Blocks' /\ Pointers \subseteq Pointers'
    BY Zenon, <1>b, <2>1, SmallKeeps, LargeKeeps
  <2> QED
    BY Zenon, <1>k, <2>1, <2>2
<1>9. CASE krealloc_copied
  <2>1. moving \in Pointers /\ kfree_buddy(moving) /\ moving' = Null
    BY Zenon, <1>9 DEF krealloc_copied, KInv, Copying
  <2> QED
    BY Zenon, <1>b, <1>k, <2>1, BuddyKeeps
<1>10. CASE UNCHANGED kmallocVars
  <2>1. Blocks'
    BY Zenon, <1>b, <1>10 DEF kmallocVars, Blocks, Types, OneSlab, OneUse, OneOwner
  <2>2. moving' = Null \/ moving' \in Pointers'
    BY Zenon, <1>10 DEF kmallocVars, KInv, Copying, Pointers, Large
  <2> QED
    BY Zenon, <1>k, <2>1, <2>2
<1> QED
  BY Zenon, <1>1, <1>2, <1>3, <1>4, <1>5, <1>6, <1>7, <1>8, <1>9, <1>10 DEF KmallocNext

(* Every block has one use and every object one owner, and each cache has  *)
(* at most one slab.                                                       *)
THEOREM KmallocAlways == KmallocSpec => []KInv
<1> QED
  BY InitKInv, NextKInv, PTL DEF KmallocSpec

(* ListsEnd, for any number of slabs and caches: slab_free and slab_kfree  *)
(* come to the end of every list, within one cache.                        *)
THEOREM ListsAlwaysEnd == KmallocSpec => []ListsEnd
<1>1. KInv => ListsEnd
  <2> SUFFICES ASSUME KInv, NEW c \in Caches, NEW st \in SlabState,
                      NEW s \in Walk(head[c][st])
               PROVE  cache[s] = c /\ s \notin Walk(next[s])
    BY Zenon DEF ListsEnd
  <2>1. OneSlab /\ head[c][st] \in Slabs \cup {Null}
    BY DEF KInv, Types
  <2>2. s = head[c][st] /\ s # Null
    BY Zenon, <2>1, WalkIs
  <2>3. cache[s] = c /\ next[s] = Null
    BY Zenon, <2>1, <2>2 DEF OneSlab
  <2>4. Walk(next[s]) = {}
    BY Zenon, <2>1, <2>3, WalkIs
  <2> QED
    BY Zenon, <2>3, <2>4
<1> QED
  BY <1>1, KmallocAlways, PTL

(* LostOnlyByMagic, for any number of slabs and caches: kfree of an object *)
(* is ignored only when BUDDY_MAGIC is before it, for slab_kfree finds     *)
(* every slab.                                                             *)
THEOREM LostAlwaysByMagic == KmallocSpec => LostOnlyByMagic
<1> DEFINE Ok == \A o \in lost' \ lost : <<o[1], o[2] - 1>> \in tails
<1>1. KInv /\ [KmallocNext]_kmallocVars => [Ok]_kmallocVars
  <2> SUFFICES ASSUME KInv, KmallocNext PROVE Ok
    BY Zenon
  <2>1. Blocks
    BY Zenon DEF KInv, Blocks
  <2>2. CASE UNCHANGED lost
    BY Zenon, <2>2
  <2>3. ASSUME NEW p \in Pointers, kfree_buddy(p) PROVE Ok
    BY Zenon, <2>3 DEF kfree_buddy, is_buddy_allocation, Aligned
  <2>4. CASE \E p \in Pointers : kfree(p)
    BY Zenon, <2>1, <2>2, <2>3, <2>4, SlabFreed DEF kfree
  <2>5. CASE krealloc_copied
    BY Zenon, <2>3, <2>5 DEF krealloc_copied, KInv, Copying
  <2> QED
    BY <2>2, <2>4, <2>5
    DEF KmallocNext, kmalloc, kcalloc, kmalloc_small, kmalloc_large, kmalloc_pages, Write,
        kfree_pages, krealloc_stays, krealloc_moves
<1> QED
  BY <1>1, KmallocAlways, PTL DEF KmallocSpec, LostOnlyByMagic

-----------------------------------------------------------------------------
(* kmalloc of enough for what the caller asked gives the caller enough.    *)
LEMMA SmallSuffices ==
  ASSUME KInv, NEW n \in Requests, NEW cleared, kmalloc_small(n, n, cleared)
  PROVE  short' \subseteq short
<1> DEFINE c == CacheFor(n)
<1>1. /\ c \in Caches /\ n <= CacheSize[c] /\ slab_alloc(c) /\ n \in Nat /\ CacheSize[c] \in Nat
      /\ short' = short \cup {o \in held' \ held : n > CacheSize[cache'[o[1]]]}
  BY SMTT(30), CacheForFits, KmallocAssumption DEF kmalloc_small, Requests
<1> HIDE DEF c
<1>2. ASSUME NEW o \in held' \ held PROVE cache'[o[1]] = c
  <2>1. PICK s, objects : Taken(c, s, objects)
    BY Zenon, <1>1, <1>2, AllocStep DEF slabVars
  <2>2. o = <<s, Head(objects)>> /\ s \in Slabs /\ cache' = [cache EXCEPT ![s] = c]
    BY Zenon, <1>2, <2>1 DEF Taken
  <2> QED
    BY Zenon, <2>2 DEF KInv, Types
<1>3. \A o \in held' \ held : ~(n > CacheSize[cache'[o[1]]])
  BY <1>1, <1>2
<1> QED
  BY Zenon, <1>1, <1>3

LEMMA LargeSuffices ==
  ASSUME NEW n \in Requests, kmalloc_large(n, n)
  PROVE  short' \subseteq short
BY KmallocAssumption DEF kmalloc_large, Requests

(* ShortOnlyByRealloc, for any sizes: kmalloc, kcalloc, whose product may  *)
(* wrap, and krealloc of a large allocation give what the caller asked.    *)
THEOREM ShortAlwaysByRealloc == KmallocSpec => ShortOnlyByRealloc
<1> DEFINE Ok == short' \ short # {} =>
                   \E p \in held, n \in Requests : short' = short \cup {p} /\ krealloc_stays(p, n)
<1>1. KInv /\ [KmallocNext]_kmallocVars => [Ok]_kmallocVars
  <2> SUFFICES ASSUME KInv, KmallocNext PROVE Ok
    BY Zenon
  <2>1. Blocks
    BY DEF KInv, Blocks
  <2>2. CASE short' \subseteq short
    BY Zenon, <2>2
  <2>3. CASE \E n \in Requests : kmalloc(n)
    BY Zenon, <2>2, <2>3, SmallSuffices, LargeSuffices DEF kmalloc
  <2>4. CASE \E num, size \in 0 .. MaxRequest : kcalloc(num, size)
    <3>1. PICK num \in 0 .. MaxRequest, size \in 0 .. MaxRequest : kcalloc(num, size)
      BY Zenon, <2>4
    <3>2. PICK total \in Requests :
            /\ total = CallocTotal(num, size)
            /\ kmalloc_small(total, num * size, TRUE) \/ kmalloc_large(total, num * size)
      BY Zenon, <3>1 DEF kcalloc
    <3>3. total = num * size
      BY Zenon, <3>2, CallocExact
    <3>4. kmalloc_small(total, total, TRUE) \/ kmalloc_large(total, total)
      BY Zenon, <3>2, <3>3
    <3> QED
      BY Zenon, <2>2, <3>4, SmallSuffices, LargeSuffices
  <2>5. CASE \E p \in Pointers, n \in Requests : krealloc_stays(p, n)
    <3>1. PICK p \in Pointers, n \in Requests : krealloc_stays(p, n)
      BY Zenon, <2>5
    <3>2. CASE p \in held
      BY Zenon, <2>2, <3>1, <3>2 DEF krealloc_stays
    <3>3. CASE p[1] \in Slabs /\ Aligned(p)
      <4>1. n <= large[p[1]] /\ large[p[1]] <= MaxRequest /\ large[p[1]] \in Nat
        BY SMTT(30), <2>1, <3>1, <3>3, KmallocAssumption
        DEF krealloc_stays, Aligned, Blocks, Types
      <4>2. ~(n > Capacity(p))
        BY SMTT(30), <3>3, <4>1, KmallocAssumption DEF Capacity, Aligned, Requests
      <4> QED
        BY Zenon, <2>2, <3>1, <4>2 DEF krealloc_stays
    <3> QED
      BY Zenon, <2>1, <3>2, <3>3, PointerKinds
  <2>6. CASE \E p \in Pointers, n \in Requests : krealloc_moves(p, n)
    BY Zenon, <2>2, <2>6, SmallSuffices, LargeSuffices DEF krealloc_moves
  <2>7. CASE \/ kmalloc_pages \/ krealloc_copied
             \/ \E o \in Objects : Write(o)
             \/ \E p \in Pointers : kfree(p)
             \/ \E b \in pages : kfree_pages(b)
    BY Zenon, <2>2, <2>7
    DEF kmalloc_pages, Write, kfree, kfree_buddy, kfree_slab, kfree_pages, krealloc_copied
  <2> QED
    BY Zenon, <2>3, <2>4, <2>5, <2>6, <2>7 DEF KmallocNext
<1> QED
  BY <1>1, KmallocAlways, PTL DEF KmallocSpec, ShortOnlyByRealloc

-----------------------------------------------------------------------------
(* One allocator.  Every pointer has a cell of its own: as many numbers    *)
(* for a block as it has objects and one more.                             *)
Width == ObjectsPerSlab + 1
Spot == Slabs \X (0 .. ObjectsPerSlab)

Numbers(p) == Abstract!PagesOf(Cell(p))

LEMMA Products ==
  ASSUME NEW b \in Nat, NEW d \in Nat, b < d
  PROVE  /\ b * Width \in Nat /\ d * Width \in Nat /\ Width \in Nat
         /\ b * Width + Width <= d * Width
<1>1. Width \in Nat
  BY SlabAssumption DEF Width
<1>2. PICK k \in Nat : d = b + 1 + k
  <2>1. d - (b + 1) \in Nat /\ d = b + 1 + (d - (b + 1))
    OBVIOUS
  <2> QED
    BY Zenon, <2>1
<1>3. k * Width \in Nat /\ b * Width \in Nat /\ d * Width \in Nat
  BY <1>1
<1>4. d * Width = b * Width + Width + k * Width
  BY SMTT(30), <1>1, <1>2
<1> QED
  BY <1>1, <1>3, <1>4

(* Where a cell lies.                                                      *)
LEMMA CellPlace ==
  ASSUME NEW p \in Spot
  PROVE  /\ p[1] * Width \in Nat /\ p[1] \in Nat /\ p[2] \in Nat
         /\ p[2] = 0 => Cell(p) = <<p[1] * Width, Width>>
         /\ p[2] # 0 => Cell(p) = <<p[1] * Width + p[2], 1>>
         /\ \A x : x \in Numbers(p) <=>
              /\ x \in Int
              /\ p[1] * Width <= x /\ x < p[1] * Width + Width
              /\ p[2] # 0 => x = p[1] * Width + p[2]
         /\ Numbers(p) # {}
<1>1. /\ p[1] \in Nat /\ p[2] \in 0 .. ObjectsPerSlab /\ p[2] \in Nat
      /\ Width \in Nat \ {0} /\ Width = ObjectsPerSlab + 1 /\ ObjectsPerSlab \in Nat
  <2>1. Cardinality(Slabs) \in Nat
    BY Zenon, SlabAssumption
  <2> QED
    BY <2>1, SlabAssumption DEF Spot, Width
<1>2. p[1] * Width \in Nat
  BY <1>1
<1>3. /\ p[2] = 0 => Cell(p) = <<p[1] * Width, Width>>
      /\ p[2] # 0 => Cell(p) = <<p[1] * Width + p[2], 1>>
  BY Zenon DEF Cell, AfterHeader, Width
<1>4. CASE p[2] = 0
  <2>1. Numbers(p) = p[1] * Width .. p[1] * Width + Width - 1
    BY <1>3, <1>4 DEF Numbers, Abstract!PagesOf
  <2>2. p[1] * Width \in Numbers(p)
    BY SMTT(30), <1>1, <1>2, <2>1
  <2> QED
    BY SMTT(30), <1>1, <1>2, <1>3, <1>4, <2>1, <2>2
<1>5. CASE p[2] # 0
  <2>1. Numbers(p) = p[1] * Width + p[2] .. p[1] * Width + p[2] + 1 - 1
    BY <1>3, <1>5 DEF Numbers, Abstract!PagesOf
  <2>2. p[1] * Width + p[2] \in Numbers(p)
    BY <1>1, <1>2, <2>1
  <2> QED
    BY SMTT(30), <1>1, <1>2, <1>3, <1>5, <2>1, <2>2
<1> QED
  BY Zenon, <1>4, <1>5

LEMMA CellsApart ==
  ASSUME NEW p \in Spot, NEW q \in Spot, p # q,
         p[1] # q[1] \/ (p[2] # 0 /\ q[2] # 0)
  PROVE  Numbers(p) \cap Numbers(q) = {}
<1> SUFFICES ASSUME NEW x \in Numbers(p), x \in Numbers(q) PROVE FALSE
  BY Zenon
<1>1. /\ p[1] \in Nat /\ q[1] \in Nat /\ p[1] * Width \in Nat /\ q[1] * Width \in Nat
      /\ x \in Int /\ p[1] * Width <= x /\ x < p[1] * Width + Width
      /\ q[1] * Width <= x /\ x < q[1] * Width + Width
      /\ p[2] \in Nat /\ q[2] \in Nat
      /\ p[2] # 0 => x = p[1] * Width + p[2]
      /\ q[2] # 0 => x = q[1] * Width + q[2]
  BY Zenon, CellPlace
<1>2. Width \in Nat
  BY SMTT(30), SlabAssumption DEF Width
<1>3. ~(p[1] < q[1])
  <2>1. p[1] < q[1] => p[1] * Width + Width <= q[1] * Width
    BY Zenon, <1>1, Products
  <2> QED
    BY SMTT(30), <1>1, <1>2, <2>1
<1>4. ~(q[1] < p[1])
  <2>1. q[1] < p[1] => q[1] * Width + Width <= p[1] * Width
    BY Zenon, <1>1, Products
  <2> QED
    BY <1>1, <1>2, <2>1
<1>5. p[1] = q[1]
  BY <1>1, <1>3, <1>4
<1>6. p[2] = q[2]
  BY <1>1, <1>5
<1> QED
  BY <1>5, <1>6 DEF Spot

LEMMA CellsDiffer ==
  ASSUME NEW p \in Spot, NEW q \in Spot, p # q
  PROVE  Cell(p) # Cell(q)
<1>1. CASE p[1] # q[1] \/ (p[2] # 0 /\ q[2] # 0)
  <2>1. Numbers(p) # Numbers(q)
    BY Zenon, <1>1, CellsApart, CellPlace
  <2> QED
    BY Zenon, <2>1 DEF Numbers
<1>2. CASE p[1] = q[1] /\ ~(p[2] # 0 /\ q[2] # 0)
  <2>1. p[2] # q[2]
    BY <1>2 DEF Spot
  <2>2. 1 # Width
    BY SlabAssumption DEF Width
  <2>3. Cell(p)[2] # Cell(q)[2]
    BY SMTT(30), <1>2, <2>1, <2>2, CellPlace
  <2> QED
    BY Zenon, <2>3
<1> QED
  BY Zenon, <1>1, <1>2

(* A cell lies in the region.                                              *)
LEMMA CellInside ==
  ASSUME NEW p \in Spot
  PROVE  /\ Cell(p) \in (0 .. Cardinality(Slabs) * (ObjectsPerSlab + 1) - 1)
                          \X {1, ObjectsPerSlab + 1}
         /\ Numbers(p) \subseteq 0 .. Cardinality(Slabs) * (ObjectsPerSlab + 1) - 1
<1>1. /\ Cardinality(Slabs) \in Nat /\ p[1] \in 0 .. Cardinality(Slabs) - 1
      /\ p[2] \in 0 .. ObjectsPerSlab /\ ObjectsPerSlab \in Nat
  BY Zenon, SlabAssumption DEF Spot
<1>2. /\ p[1] * Width \in Nat /\ Cardinality(Slabs) * Width \in Nat /\ Width \in Nat
      /\ p[1] * Width + Width <= Cardinality(Slabs) * Width
  BY <1>1, Products
<1>3. Width = ObjectsPerSlab + 1
  BY Zenon DEF Width
<1>4. Numbers(p) \subseteq 0 .. Cardinality(Slabs) * Width - 1
  BY SMTT(30), <1>2, CellPlace
<1>5. Cell(p) \in (0 .. Cardinality(Slabs) * Width - 1) \X {1, Width}
  BY SMTT(30), <1>1, <1>2, <1>3, CellPlace
<1> QED
  BY Zenon, <1>3, <1>4, <1>5

-----------------------------------------------------------------------------
(* What clients hold, and what was lost.                                   *)
Owned == held \cup lost \cup {<<b, AfterHeader>> : b \in Large \cup pages}
View == {Cell(p) : p \in Pointers \cup lost} \cup {Cell(<<b, AfterHeader>>) : b \in pages}

LEMMA ViewOwned == View = {Cell(p) : p \in Owned}
BY Zenon DEF View, Owned, Pointers

LEMMA ViewNext == View' = {Cell(p) : p \in Owned'}
BY Zenon DEF View, Owned, Pointers

LEMMA OwnedSpots ==
  ASSUME Blocks
  PROVE  /\ Owned \subseteq Spot
         /\ \A p \in Owned : \/ p \in held \cup lost /\ p[2] # 0
                             \/ p[2] = 0 /\ (large[p[1]] # 0 \/ p[1] \in pages)
<1>1. ObjectsPerSlab \in Nat
  BY Zenon, SlabAssumption
<1>2. \A p \in Objects : p \in Spot /\ p[2] # 0
  BY <1>1 DEF Objects, Spot
<1>3. \A b \in Slabs : <<b, AfterHeader>> \in Spot
  BY SMTT(30), <1>1 DEF Spot, AfterHeader
<1> QED
  BY <1>2, <1>3 DEF Owned, Blocks, Types, Large, AfterHeader

LEMMA Given ==
  ASSUME Blocks, NEW p \in Spot, Owned' = Owned \cup {p}, p \notin Owned,
         \A q \in Owned : p[1] # q[1] \/ (p[2] # 0 /\ q[2] # 0)
  PROVE  Abstract!Next
<1> DEFINE v == Cell(p)
<1>1. View' = View \cup {v}
  <2>1. View' = {Cell(q) : q \in Owned'}
    BY Zenon, ViewNext
  <2> QED
    BY Zenon, <2>1, ViewOwned
<1>2. \A h \in View : Abstract!PagesOf(v) \cap Abstract!PagesOf(h) = {}
  <2>1. \A q \in Owned : Numbers(p) \cap Numbers(q) = {}
    BY Zenon, CellsApart, OwnedSpots
  <2> QED
    BY Zenon, <2>1, ViewOwned DEF Numbers
<1>3. /\ v \in (0 .. Cardinality(Slabs) * (ObjectsPerSlab + 1) - 1) \X {1, ObjectsPerSlab + 1}
      /\ Abstract!PagesOf(v) \subseteq 0 .. Cardinality(Slabs) * (ObjectsPerSlab + 1) - 1
  BY Zenon, CellInside DEF Numbers
<1> HIDE DEF v
<1> QED
  BY Zenon, <1>1, <1>2, <1>3 DEF View, Abstract!Next, Abstract!Give

LEMMA TakenBack ==
  ASSUME Blocks, NEW p \in Owned, Owned' = Owned \ {p}
  PROVE  Abstract!Next
<1> DEFINE v == Cell(p)
<1>1. View' = {Cell(q) : q \in Owned'}
  BY Zenon, ViewNext
<1>2. \A q \in Owned : q # p => Cell(q) # v
  BY Zenon, CellsDiffer, OwnedSpots
<1>3. View' = View \ {v} /\ v \in View
  BY Zenon, <1>1, <1>2, ViewOwned
<1> HIDE DEF v
<1> QED
  BY Zenon, <1>3 DEF View, Abstract!Next, Abstract!TakeBack

LEMMA SameOwned ==
  ASSUME Owned' = Owned
  PROVE  View' = View
<1>1. View' = {Cell(q) : q \in Owned'}
  BY Zenon, ViewNext
<1> QED
  BY Zenon, <1>1, ViewOwned

-----------------------------------------------------------------------------
LEMMA SmallGives ==
  ASSUME KInv, NEW n \in Requests, NEW asked, NEW cleared, kmalloc_small(n, asked, cleared)
  PROVE  Abstract!Next \/ View' = View
<1>1. CacheFor(n) \in Caches /\ slab_alloc(CacheFor(n)) /\ UNCHANGED <<large, pages, lost>>
  BY CacheForFits, KmallocAssumption DEF kmalloc_small, Requests
<1>2. Blocks
  BY DEF KInv, Blocks
<1>3. CASE UNCHANGED slabVars
  BY Zenon, <1>1, <1>3, SameOwned DEF slabVars, Owned, Large
<1>4. CASE \E s, objects : Taken(CacheFor(n), s, objects)
  <2>1. PICK s, objects : Taken(CacheFor(n), s, objects)
    BY Zenon, <1>4
  <2> DEFINE x == Head(objects)
             o == <<s, x>>
  <2>2. s \in Slabs /\ x \in 1 .. ObjectsPerSlab /\ x \in Range(objects)
    BY Zenon, <2>1, TailRange DEF Taken
  <2>3. o \in Spot /\ o[1] = s /\ o[2] = x /\ x # 0
    BY <2>2, SlabAssumption DEF Spot
  <2>4. held' = held \cup {o} /\ \A q \in held \cup lost : q # o
    BY SMTT(30), <2>1, <2>2 DEF Taken
  <2> HIDE DEF x, o
  <2>5. Owned' = Owned \cup {o}
    BY Zenon, <1>1, <2>4 DEF Owned, Large
  <2>6. large[s] = 0 /\ s \notin pages
    BY Zenon, <1>1, <1>2, <2>1, SlabAssumption DEF Taken, Blocks, OneUse
  <2>7. \A q \in Owned : q # o /\ (o[1] # q[1] \/ (o[2] # 0 /\ q[2] # 0))
    BY Zenon, <1>2, <2>3, <2>4, <2>6, OwnedSpots
  <2> QED
    BY Zenon, <1>2, <2>3, <2>5, <2>7, Given
<1> QED
  BY Zenon, <1>1, <1>3, <1>4, AllocStep

(* A free block is handed out whole.                                       *)
LEMMA BlockGiven ==
  ASSUME Blocks, NEW b \in free_blocks, held' = held, lost' = lost,
         Large' \cup pages' = (Large \cup pages) \cup {b}
  PROVE  Abstract!Next
<1> DEFINE p == <<b, AfterHeader>>
<1>1. b \in Slabs /\ large[b] = 0 /\ b \notin pages /\ cache[b] = Null
  BY Zenon DEF Blocks, Types, OneUse
<1>2. p \in Spot /\ p[1] = b /\ p[2] = 0
  BY SMTT(30), <1>1, SlabAssumption DEF Spot, AfterHeader
<1>3. Owned' = Owned \cup {p}
  BY Zenon DEF Owned, AfterHeader
<1>4. \A q \in Owned : q[1] # b
  <2>1. \A q \in held \cup lost : q[1] # b
    BY Zenon, <1>1 DEF Blocks, OneOwner
  <2> QED
    BY Zenon, <1>1, <2>1, OwnedSpots
<1> HIDE DEF p
<1> QED
  BY Zenon, <1>2, <1>3, <1>4, Given

LEMMA LargeGives ==
  ASSUME Blocks, NEW n \in Requests, NEW asked, kmalloc_large(n, asked)
  PROVE  Abstract!Next
<1>1. PICK b \in free_blocks : large' = [large EXCEPT ![b] = n]
  BY Zenon DEF kmalloc_large
<1>2. n # 0 /\ b \in Slabs /\ large \in [Slabs -> 0 .. MaxRequest]
  BY KmallocAssumption DEF Requests, Blocks, Types
<1>3. Large' = Large \cup {b}
  BY Zenon, <1>1, <1>2 DEF Large
<1>4. held' = held /\ lost' = lost /\ pages' = pages
  BY Zenon DEF kmalloc_large
<1> QED
  BY Zenon, <1>3, <1>4, BlockGiven

LEMMA BlockTaken ==
  ASSUME Blocks, NEW b \in Slabs, b \in pages \/ large[b] # 0, buddy_free(b),
         held' = held, lost' = lost
  PROVE  Abstract!Next
<1> DEFINE p == <<b, AfterHeader>>
<1>1. Large' = Large \ {b} /\ pages' = pages \ {b}
  BY Zenon DEF Large, Blocks, Types, buddy_free
<1>2. p \in Owned
  BY Zenon DEF Owned, Large
<1>3. \A q \in held \cup lost : q # p
  BY SlabAssumption DEF Blocks, Types, Objects, AfterHeader
<1>4. Owned' = Owned \ {p}
  BY <1>1, <1>3 DEF Owned, AfterHeader
<1> HIDE DEF p
<1> QED
  BY Zenon, <1>2, <1>4, TakenBack

LEMMA BuddyTakes ==
  ASSUME Blocks, NEW p \in Pointers, kfree_buddy(p)
  PROVE  Abstract!Next \/ View' = View
<1>1. CASE p \in held /\ ~Aligned(p)
  <2>1. UNCHANGED <<large, pages>> /\ lost' = lost \cup {p} /\ held' = held \ {p}
    BY Zenon, <1>1 DEF kfree_buddy
  <2>2. Owned' = Owned
    BY Zenon, <1>1, <2>1 DEF Owned, Large
  <2> QED
    BY Zenon, <2>2, SameOwned
<1>2. CASE p \notin held /\ Aligned(p) /\ p[1] \in Slabs /\ large[p[1]] # 0
  <2>1. UNCHANGED <<lost, held>> /\ buddy_free(p[1])
    BY Zenon, <1>2 DEF kfree_buddy
  <2> QED
    BY Zenon, <1>2, <2>1, BlockTaken
<1> QED
  BY Zenon, <1>1, <1>2, PointerKinds

LEMMA SlabTakes ==
  ASSUME Blocks, NEW p \in Pointers, kfree_slab(p)
  PROVE  Abstract!Next
<1>1. p \in held /\ UNCHANGED <<large, pages, lost>> /\ held' = held \ {p}
  BY Zenon, SlabFreed DEF slab_free
<1>2. p \notin lost /\ p \in Owned /\ \A b \in Slabs : p # <<b, AfterHeader>>
  BY SMTT(30), <1>1, SlabAssumption DEF Blocks, Types, OneOwner, Owned, Objects, AfterHeader
<1>3. Owned' = Owned \ {p}
  BY Zenon, <1>1, <1>2 DEF Owned, Large, Blocks, Types
<1> QED
  BY Zenon, <1>2, <1>3, TakenBack

(* IsAllocator, for any number of blocks and objects: what kmalloc, its    *)
(* variants and kmalloc_pages return overlaps nothing that a client holds, *)
(* and kfree gives back one allocation.                                    *)
THEOREM KmallocIsAllocator == KmallocSpec => IsAllocator
<1>1. KmallocInit => Abstract!Init
  BY Zenon DEF KmallocInit, Init, Abstract!Init, Pointers, Large
<1>2. KInv /\ [KmallocNext]_kmallocVars => [Abstract!Next]_View
  <2> SUFFICES ASSUME KInv, [KmallocNext]_kmallocVars PROVE Abstract!Next \/ View' = View
    BY Zenon
  <2>b. Blocks
    BY Zenon DEF KInv, Blocks
  <2>1. CASE UNCHANGED <<held, lost, large, pages>>
    BY Zenon, <2>1, SameOwned DEF Owned, Large
  <2>2. CASE \E n \in Requests : kmalloc(n)
    BY Zenon, <2>b, <2>2, SmallGives, LargeGives DEF kmalloc
  <2>3. CASE \E num, size \in 0 .. MaxRequest : kcalloc(num, size)
    <3>1. PICK num \in 0 .. MaxRequest, size \in 0 .. MaxRequest, total \in Requests :
            kmalloc_small(total, num * size, TRUE) \/ kmalloc_large(total, num * size)
      BY Zenon, <2>3 DEF kcalloc
    <3> QED
      BY Zenon, <2>b, <3>1, SmallGives, LargeGives
  <2>4. CASE kmalloc_pages
    <3>1. PICK b \in free_blocks : pages' = pages \cup {b}
      BY Zenon, <2>4 DEF kmalloc_pages
    <3>2. held' = held /\ lost' = lost /\ Large' = Large
      BY Zenon, <2>4 DEF kmalloc_pages, Large
    <3> QED
      BY Zenon, <2>b, <3>1, <3>2, BlockGiven
  <2>5. CASE \E p \in Pointers : kfree(p)
    BY Zenon, <2>b, <2>5, BuddyTakes, SlabTakes DEF kfree
  <2>6. CASE \E b \in pages : kfree_pages(b)
    <3>1. PICK b \in pages : kfree_pages(b)
      BY <2>6
    <3> QED
      BY Zenon, <2>b, <3>1, BlockTaken DEF kfree_pages, Blocks, Types
  <2>7. CASE \E p \in Pointers, n \in Requests : krealloc_moves(p, n)
    BY Zenon, <2>b, <2>7, SmallGives, LargeGives DEF krealloc_moves
  <2>8. CASE krealloc_copied
    BY Zenon, <2>b, <2>8, BuddyTakes DEF krealloc_copied, KInv, Copying
  <2> QED
    BY Zenon, <2>1, <2>2, <2>3, <2>4, <2>5, <2>6, <2>7, <2>8
    DEF KmallocNext, kmallocVars, Write, krealloc_stays
<1> QED
  BY <1>1, <1>2, KmallocAlways, PTL DEF KmallocSpec, IsAllocator, Abstract!Spec, View
=============================================================================
