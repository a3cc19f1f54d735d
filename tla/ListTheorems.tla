---------------------------- MODULE ListTheorems ----------------------------
(***************************************************************************)
(* What the list operations of the scheduler and of the buddy allocator do *)
(* to the set of the elements of a list and to its freedom from repetition.*)
(***************************************************************************)
EXTENDS Lists, SequenceTheorems, TLAPS

(* A list is over its elements, and an element is at some position.        *)
LEMMA RangeElements ==
  ASSUME NEW S, NEW q \in Seq(S)
  PROVE  /\ Range(q) \subseteq S
         /\ \A x : x \in Range(q) <=> \E i \in 1 .. Len(q) : q[i] = x
         /\ q = <<>> <=> Range(q) = {}
<1>1. DOMAIN q = 1 .. Len(q) /\ Len(q) \in Nat
  BY Zenon, LenProperties
<1>2. \A i \in 1 .. Len(q) : q[i] \in S
  BY Zenon, ElementOfSeq
<1>3. q = <<>> <=> Len(q) = 0
  BY Zenon, EmptySeq
<1>4. \A x : x \in Range(q) <=> \E i \in 1 .. Len(q) : q[i] = x
  BY Zenon, <1>1 DEF Range
<1>5. q # <<>> => q[1] \in Range(q)
  BY <1>1, <1>3, <1>4
<1>6. q = <<>> => Range(q) = {}
  BY <1>1, <1>3, <1>4
<1>. QED
  BY Zenon, <1>2, <1>4, <1>5, <1>6

(* Adding at the tail, as scheduler_add_task does.                         *)
LEMMA AppendRange ==
  ASSUME NEW S, NEW q \in Seq(S), NEW x \in S
  PROVE  /\ Append(q, x) \in Seq(S)
         /\ Range(Append(q, x)) = Range(q) \cup {x}
         /\ IsInjective(q) /\ x \notin Range(q) => IsInjective(Append(q, x))
<1>1. /\ DOMAIN q = 1 .. Len(q) /\ Len(q) \in Nat
      /\ Append(q, x) \in Seq(S)
      /\ Len(Append(q, x)) = Len(q) + 1
      /\ DOMAIN Append(q, x) = 1 .. Len(q) + 1
      /\ \A i \in 1 .. Len(q) : Append(q, x)[i] = q[i]
      /\ Append(q, x)[Len(q) + 1] = x
  BY LenProperties, AppendProperties
<1>2. Range(Append(q, x)) = Range(q) \cup {x}
  BY <1>1 DEF Range
<1>3. IsInjective(q) /\ x \notin Range(q) => IsInjective(Append(q, x))
  BY <1>1 DEF Range, IsInjective
<1>. QED
  BY Zenon, <1>1, <1>2, <1>3

(* Adding at the head, as task_sleep and add_to_free_list do.              *)
LEMMA ConsRange ==
  ASSUME NEW S, NEW q \in Seq(S), NEW x \in S
  PROVE  /\ Cons(x, q) \in Seq(S)
         /\ Range(Cons(x, q)) = Range(q) \cup {x}
         /\ IsInjective(q) /\ x \notin Range(q) => IsInjective(Cons(x, q))
         /\ Cons(x, q) # <<>> /\ Head(Cons(x, q)) = x
<1>1. <<x>> \in Seq(S) /\ Len(<<x>>) = 1 /\ <<x>>[1] = x
  OBVIOUS
<1>2. /\ DOMAIN q = 1 .. Len(q) /\ Len(q) \in Nat
      /\ Cons(x, q) \in Seq(S)
      /\ Len(Cons(x, q)) = Len(q) + 1
      /\ DOMAIN Cons(x, q) = 1 .. Len(q) + 1
      /\ Cons(x, q)[1] = x
      /\ \A i \in 2 .. Len(q) + 1 : Cons(x, q)[i] = q[i - 1]
  BY <1>1, LenProperties, ConcatProperties DEF Cons
<1>3. Range(Cons(x, q)) = Range(q) \cup {x}
  <2>1. \A i \in 1 .. Len(q) : q[i] \in Range(Cons(x, q))
    <3>1. \A i \in 1 .. Len(q) : i + 1 \in 1 .. Len(q) + 1 /\ Cons(x, q)[i + 1] = q[i]
      BY <1>2
    <3>. QED
      BY Zenon, <1>2, <3>1, RangeElements
  <2>2. x \in Range(Cons(x, q))
    <3>1. 1 \in 1 .. Len(q) + 1
      BY <1>2
    <3>. QED
      BY Zenon, <1>2, <3>1, RangeElements
  <2>3. \A i \in 1 .. Len(q) + 1 : Cons(x, q)[i] \in Range(q) \cup {x}
    <3>1. \A i \in 2 .. Len(q) + 1 : i - 1 \in 1 .. Len(q) /\ Cons(x, q)[i] = q[i - 1]
      BY <1>2
    <3>2. \A i \in 2 .. Len(q) + 1 : Cons(x, q)[i] \in Range(q)
      BY Zenon, <3>1, RangeElements
    <3>. QED
      BY <1>2, <3>2
  <2>4. Range(q) \cup {x} \subseteq Range(Cons(x, q))
    BY <2>1, <2>2, RangeElements
  <2>5. Range(Cons(x, q)) \subseteq Range(q) \cup {x}
    BY <1>2, <2>3, RangeElements
  <2>. QED
    BY Zenon, <2>4, <2>5
<1>4. IsInjective(q) /\ x \notin Range(q) => IsInjective(Cons(x, q))
  <2>. SUFFICES ASSUME IsInjective(q), x \notin Range(q),
                       NEW a \in 1 .. Len(q) + 1, NEW b \in 1 .. Len(q) + 1,
                       Cons(x, q)[a] = Cons(x, q)[b]
                PROVE  a = b
    BY Zenon, <1>2 DEF IsInjective
  <2>1. \A i \in 2 .. Len(q) + 1 : i - 1 \in DOMAIN q /\ Cons(x, q)[i] = q[i - 1]
    BY <1>2
  <2>2. \A i \in 2 .. Len(q) + 1 : Cons(x, q)[i] # x
    BY Zenon, <2>1 DEF Range
  <2>3. CASE a = 1 \/ b = 1
    BY <1>2, <2>2, <2>3
  <2>4. CASE a # 1 /\ b # 1
    <3>1. a - 1 \in DOMAIN q /\ b - 1 \in DOMAIN q /\ q[a - 1] = q[b - 1]
      BY <1>2, <2>1, <2>4
    <3>2. a - 1 = b - 1
      BY Zenon, <3>1 DEF IsInjective
    <3>. QED
      BY <1>2, <3>2
  <2>. QED
    BY Zenon, <2>3, <2>4
<1>5. Cons(x, q) # <<>> /\ Head(Cons(x, q)) = x
  BY <1>2
<1>. QED
  BY Zenon, <1>2, <1>3, <1>4, <1>5

(* Taking the head, as scheduler_pick_next does.                           *)
LEMMA TailRange ==
  ASSUME NEW S, NEW q \in Seq(S), q # <<>>
  PROVE  /\ Head(q) \in S /\ Head(q) \in Range(q)
         /\ Tail(q) \in Seq(S)
         /\ Range(q) = Range(Tail(q)) \cup {Head(q)}
         /\ IsInjective(q) => IsInjective(Tail(q)) /\ Head(q) \notin Range(Tail(q))
<1>1. /\ DOMAIN q = 1 .. Len(q) /\ Len(q) \in Nat /\ Len(q) > 0
      /\ Tail(q) \in Seq(S)
      /\ Head(q) = q[1] /\ Head(q) \in S
      /\ Len(Tail(q)) = Len(q) - 1
      /\ DOMAIN Tail(q) = 1 .. Len(q) - 1
      /\ \A i \in 1 .. Len(q) - 1 : Tail(q)[i] = q[i + 1]
  BY LenProperties, HeadTailProperties, EmptySeq
<1>2. 1 \in DOMAIN q
  BY <1>1
<1>3. \A i \in DOMAIN Tail(q) : i + 1 \in DOMAIN q /\ Tail(q)[i] = q[i + 1]
  BY <1>1
<1>4. \A i \in DOMAIN q : i = 1 \/ (i - 1 \in DOMAIN Tail(q) /\ q[i] = Tail(q)[i - 1])
  BY <1>1
<1>5. Range(q) = Range(Tail(q)) \cup {Head(q)}
  <2>1. \A i \in DOMAIN Tail(q) : Tail(q)[i] \in Range(q)
    BY Zenon, <1>3 DEF Range
  <2>2. Head(q) \in Range(q)
    BY Zenon, <1>1, <1>2 DEF Range
  <2>3. \A i \in DOMAIN q : q[i] \in Range(Tail(q)) \cup {Head(q)}
    BY Zenon, <1>1, <1>4 DEF Range
  <2>4. Range(Tail(q)) \cup {Head(q)} \subseteq Range(q)
    BY Zenon, <2>1, <2>2 DEF Range
  <2>5. Range(q) \subseteq Range(Tail(q)) \cup {Head(q)}
    BY Zenon, <2>3 DEF Range
  <2>. QED
    BY Zenon, <2>4, <2>5
<1>6. IsInjective(q) => IsInjective(Tail(q)) /\ Head(q) \notin Range(Tail(q))
  BY <1>1 DEF Range, IsInjective
<1>. QED
  BY Zenon, <1>1, <1>2, <1>5, <1>6 DEF Range

(* What is left when the element at place i is unlinked, in order.         *)
LEMMA RemoveAtElements ==
  ASSUME NEW S, NEW q \in Seq(S), NEW i \in 1 .. Len(q)
  PROVE  /\ RemoveAt(q, i) \in Seq(S)
         /\ Len(RemoveAt(q, i)) = Len(q) - 1
         /\ DOMAIN RemoveAt(q, i) = 1 .. Len(q) - 1
         /\ \A j \in 1 .. Len(q) - 1 : RemoveAt(q, i)[j] = IF j < i THEN q[j] ELSE q[j + 1]
<1>. DEFINE r == RemoveAt(q, i)
<1>1. DOMAIN q = 1 .. Len(q) /\ Len(q) \in Nat
  BY Zenon, LenProperties
<1>2. /\ SubSeq(q, 1, i - 1) \in Seq(S)
      /\ Len(SubSeq(q, 1, i - 1)) = i - 1
      /\ \A j \in 1 .. i - 1 : SubSeq(q, 1, i - 1)[j] = q[j]
  BY <1>1, SubSeqProperties, ElementOfSeq
<1>3. /\ SubSeq(q, i + 1, Len(q)) \in Seq(S)
      /\ Len(SubSeq(q, i + 1, Len(q))) = Len(q) - i
      /\ \A j \in 1 .. Len(q) - i : SubSeq(q, i + 1, Len(q))[j] = q[i + j]
  <2>1. i + 1 \in Int /\ Len(q) \in Int /\ i \in Int /\ i <= Len(q)
    BY <1>1
  <2>2. \A k \in i + 1 .. Len(q) : q[k] \in S
    BY <1>1, ElementOfSeq
  <2>3. /\ SubSeq(q, i + 1, Len(q)) \in Seq(S)
        /\ Len(SubSeq(q, i + 1, Len(q))) = IF i + 1 <= Len(q) THEN Len(q) - (i + 1) + 1 ELSE 0
        /\ \A j \in 1 .. Len(q) - (i + 1) + 1 : SubSeq(q, i + 1, Len(q))[j] = q[i + 1 + j - 1]
    BY <2>1, <2>2, SubSeqProperties
  <2>4. \A j \in 1 .. Len(q) - i : i + 1 + j - 1 = i + j /\ j \in 1 .. Len(q) - (i + 1) + 1
    BY <2>1
  <2>. QED
    BY <2>1, <2>3, <2>4
<1>. DEFINE u == SubSeq(q, 1, i - 1)
            v == SubSeq(q, i + 1, Len(q))
<1>. HIDE DEF u, v
<1>4. /\ r \in Seq(S)
      /\ Len(r) = Len(q) - 1
      /\ DOMAIN r = 1 .. Len(q) - 1
      /\ \A j \in 1 .. Len(q) - 1 : r[j] = IF j < i THEN q[j] ELSE q[j + 1]
  <2>1. r = u \o v /\ u \in Seq(S) /\ v \in Seq(S) /\ Len(u) = i - 1 /\ Len(v) = Len(q) - i
    BY Zenon, <1>2, <1>3 DEF RemoveAt, u, v
  <2>2. /\ u \o v \in Seq(S)
        /\ Len(u \o v) = Len(u) + Len(v)
        /\ \A j \in 1 .. Len(u) + Len(v) :
             (u \o v)[j] = IF j <= Len(u) THEN u[j] ELSE v[j - Len(u)]
    BY Zenon, <2>1, ConcatProperties
  <2>3. Len(u) + Len(v) = Len(q) - 1
    BY <1>1, <2>1
  <2>4. \A j \in 1 .. Len(q) - 1 : j < i => j <= Len(u) /\ u[j] = q[j]
    BY <1>1, <1>2, <2>1 DEF u
  <2>5. \A j \in 1 .. Len(q) - 1 : ~(j < i) => ~(j <= Len(u)) /\ v[j - Len(u)] = q[j + 1]
    <3>1. \A j \in 1 .. Len(q) - 1 : ~(j < i) =>
            /\ j - Len(u) \in 1 .. Len(q) - i
            /\ ~(j <= Len(u))
            /\ i + (j - Len(u)) = j + 1
      BY <1>1, <2>1
    <3>. QED
      BY Zenon, <1>3, <3>1 DEF v
  <2>6. DOMAIN (u \o v) = 1 .. Len(u \o v)
    BY Zenon, <2>2, LenProperties
  <2>. QED
    BY Zenon, <2>1, <2>2, <2>3, <2>4, <2>5, <2>6
<1>. QED
  BY Zenon, <1>4

(* Unlinking position i, as scheduler_check_sleeping_tasks does.           *)
LEMMA RemoveAtRange ==
  ASSUME NEW S, NEW q \in Seq(S), NEW i \in 1 .. Len(q), IsInjective(q)
  PROVE  /\ RemoveAt(q, i) \in Seq(S)
         /\ Len(RemoveAt(q, i)) = Len(q) - 1
         /\ Range(RemoveAt(q, i)) = Range(q) \ {q[i]}
         /\ IsInjective(RemoveAt(q, i))
<1>. DEFINE r == RemoveAt(q, i)
<1>1. DOMAIN q = 1 .. Len(q) /\ Len(q) \in Nat
  BY Zenon, LenProperties
<1>4. /\ r \in Seq(S)
      /\ Len(r) = Len(q) - 1
      /\ DOMAIN r = 1 .. Len(q) - 1
      /\ \A j \in 1 .. Len(q) - 1 : r[j] = IF j < i THEN q[j] ELSE q[j + 1]
  BY Zenon, RemoveAtElements
<1>. HIDE DEF r
<1>5. Range(r) = Range(q) \ {q[i]}
  <2>1. ASSUME NEW j \in 1 .. Len(q) - 1
        PROVE  \E k \in DOMAIN q : k # i /\ r[j] = q[k]
    <3>1. CASE j < i
      <4>1. j \in DOMAIN q /\ j # i /\ r[j] = q[j]
        BY <1>1, <1>4, <3>1
      <4>. QED
        BY Zenon, <4>1
    <3>2. CASE ~(j < i)
      <4>1. j + 1 \in DOMAIN q /\ j + 1 # i /\ r[j] = q[j + 1]
        BY <1>1, <1>4, <3>2
      <4>. QED
        BY Zenon, <4>1
    <3>. QED
      BY Zenon, <3>1, <3>2
  <2>2. ASSUME NEW k \in DOMAIN q, k # i
        PROVE  \E j \in DOMAIN r : r[j] = q[k]
    <3>1. CASE k < i
      BY <1>1, <1>4, <2>2, <3>1
    <3>2. CASE k > i
      <4>1. k - 1 \in DOMAIN r /\ r[k - 1] = q[k]
        BY <1>1, <1>4, <3>2
      <4>. QED
        BY Zenon, <4>1
    <3>. QED
      BY <1>1, <2>2, <3>1, <3>2
  <2>3. \A k \in DOMAIN q : k # i <=> q[k] # q[i]
    BY Zenon, <1>1 DEF IsInjective
  <2>4. \A y : y \in Range(r) => y \in Range(q) \ {q[i]}
    BY <1>4, <2>1, <2>3 DEF Range
  <2>5. \A y : y \in Range(q) \ {q[i]} => y \in Range(r)
    BY Zenon, <2>2, <2>3 DEF Range
  <2>. QED
    BY Zenon, <2>4, <2>5
<1>6. IsInjective(r)
  <2>. DEFINE at(j) == IF j < i THEN j ELSE j + 1
  <2>1. \A j \in DOMAIN r : at(j) \in DOMAIN q /\ r[j] = q[at(j)]
    BY <1>1, <1>4
  <2>2. \A j, k \in DOMAIN r : at(j) = at(k) => j = k
    BY <1>1, <1>4
  <2>. HIDE DEF at
  <2>. QED
    BY Zenon, <2>1, <2>2 DEF IsInjective
<1>. QED
  BY Zenon, <1>4, <1>5, <1>6 DEF r

(* Unlinking an element, as scheduler_remove_task and                      *)
(* remove_from_free_list do.                                               *)
LEMMA WithoutRange ==
  ASSUME NEW S, NEW q \in Seq(S), NEW x, IsInjective(q)
  PROVE  /\ Without(q, x) \in Seq(S)
         /\ Range(Without(q, x)) = Range(q) \ {x}
         /\ IsInjective(Without(q, x))
<1>1. CASE \E i \in 1 .. Len(q) : q[i] = x
  <2>. DEFINE k == CHOOSE i \in 1 .. Len(q) : q[i] = x
  <2>1. k \in 1 .. Len(q) /\ q[k] = x
    BY Zenon, <1>1
  <2>2. Without(q, x) = RemoveAt(q, k)
    BY Zenon, <1>1 DEF Without
  <2>. HIDE DEF k
  <2>. QED
    BY <2>1, <2>2, RemoveAtRange
<1>2. CASE ~\E i \in 1 .. Len(q) : q[i] = x
  <2>1. Without(q, x) = q
    BY Zenon, <1>2 DEF Without
  <2>2. x \notin Range(q)
    BY Zenon, <1>2, RangeElements
  <2>. QED
    BY Zenon, <2>1, <2>2
<1>. QED
  BY Zenon, <1>1, <1>2
=============================================================================
