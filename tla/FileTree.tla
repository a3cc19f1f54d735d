------------------------------ MODULE FileTree ------------------------------
(***************************************************************************)
(* What a user of the file commands may rely on: a tree of names in which  *)
(* every name below a directory leads to one directory or one file.        *)
(***************************************************************************)
EXTENDS Sequences, SequencesExt, TLC

CONSTANTS Dir          \* marks a directory; a file is its contents

VARIABLE tree          \* path -> Dir or the contents of a file

Init == tree = <<>>

(* The relations below hold between a tree and the tree after a step.      *)
Mounted(old, new) == old = <<>> /\ new = (<<>> :> Dir)

CanMake(old, p) ==
  /\ p # <<>> /\ p \notin DOMAIN old
  /\ Front(p) \in DOMAIN old /\ old[Front(p)] = Dir

Made(old, new) ==
  \E p \in DOMAIN new \ DOMAIN old :
    CanMake(old, p) /\ new = old @@ (p :> new[p])

Put(old, new) ==
  \E p \in DOMAIN old \cap DOMAIN new :
    /\ old[p] # Dir /\ new[p] # Dir
    /\ new = [old EXCEPT ![p] = new[p]]

(* A file is created at p, and the file at q gets new contents.            *)
MadeAndPut(old, new) ==
  \E p \in DOMAIN new \ DOMAIN old, q \in DOMAIN old \cap DOMAIN new :
    /\ CanMake(old, p) /\ new[p] = <<>>
    /\ old[q] # Dir /\ new[q] # Dir
    /\ new = [old EXCEPT ![q] = new[q]] @@ (p :> <<>>)

Removed(old, new) ==
  \E p \in DOMAIN old \ {<<>>} :
    new = [q \in {q \in DOMAIN old : ~IsPrefix(p, q)} |-> old[q]]

Step(old, new) ==
  Mounted(old, new) \/ Made(old, new) \/ Put(old, new) \/ MadeAndPut(old, new) \/ Removed(old, new)

Next == \E old \in {tree}, new \in {tree'} : Step(old, new)

Spec == Init /\ [][Next]_tree
=============================================================================
