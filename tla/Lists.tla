------------------------------- MODULE Lists -------------------------------
(* Linked lists as sequences of the addresses they link, head first.       *)
EXTENDS Integers, Sequences, Functions

Front(q) == SubSeq(q, 1, Len(q) - 1)
Last(q) == q[Len(q)]

(* Element e linked in at the head.                                        *)
Cons(e, q) == <<e>> \o q

(* The element at place i unlinked.                                        *)
RemoveAt(q, i) == SubSeq(q, 1, i - 1) \o SubSeq(q, i + 1, Len(q))

(* The list without element e, unlinked where the search meets it; a list  *)
(* that does not have e is left as it is.                                  *)
Without(q, e) ==
  IF \E i \in 1 .. Len(q) : q[i] = e
  THEN RemoveAt(q, CHOOSE i \in 1 .. Len(q) : q[i] = e)
  ELSE q
=============================================================================
