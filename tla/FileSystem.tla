----------------------------- MODULE FileSystem -----------------------------
(***************************************************************************)
(* The file commands of the shell over fs/vfs.c and fs/filesystems/ramfs.c.*)
(* A vfs_node_t and its ramfs_node_t are allocated and freed together and  *)
(* are one record here; mem holds the records that are allocated, so a     *)
(* pointer to anything else dangles.  The shell is the only caller: one    *)
(* command is one action.  The kernel never calls vfs_unmount.             *)
(*                                                                         *)
(* A path is the sequence of its components: the text between slashes,     *)
(* after a first slash.  "/" is <<Empty>>, "/a/" is <<"a", Empty>>.        *)
(*                                                                         *)
(* External: kmalloc, which returns an address that is not in use or NULL. *)
(***************************************************************************)
EXTENDS Integers, Sequences, FiniteSets, SequencesExt, FiniteSetsExt, TLC

CONSTANTS
  Nodes, Null,   \* addresses kmalloc can return for a node
  Full,          \* a name of MAX_FILENAME - 1 characters
  Long,          \* a longer name that begins with Full
  Empty,         \* the empty name
  Byte,          \* a byte a user writes
  Raw,           \* a byte of a ramfs_node_t
  Dir,           \* what a path that leads to a directory shows
  Paths,         \* the paths users type
  MaxSize        \* bound on the size of a file

ASSUME FileSystemAssumption ==
  /\ Null \notin Nodes /\ Byte # Raw
  /\ Cardinality({Full, Long, Empty}) = 3
  /\ <<>> \notin Paths /\ MaxSize \in Nat \ {0}

VARIABLES
  mem,           \* the nodes that are allocated
  vfs_root,
  booted         \* kernel_main has tried to mount the file system

fsVars == <<mem, vfs_root, booted>>

Filled(b, n) == [i \in 1 .. n |-> b]
Texts == {Filled(Byte, n) : n \in 1 .. MaxSize}

Init ==
  /\ mem = <<>>
  /\ vfs_root = Null
  /\ booted = FALSE

-----------------------------------------------------------------------------
(* strncpy of a name into name[MAX_FILENAME].                              *)
Stored(nm) == IF nm = Long THEN Full ELSE nm

Node(nm, type, parent, sibling) ==
  [name |-> Stored(nm), type |-> type, size |-> 0, parent |-> parent,
   data |-> Null, first_child |-> Null, next_sibling |-> sibling]

(* ramfs_readdir: the child at an index, counted along next_sibling.       *)
ramfs_readdir(m, d) ==
  LET at[i \in Nat] ==
        IF i = 0 THEN m[d].first_child
        ELSE LET c == at[i - 1] IN IF c = Null THEN Null ELSE m[c].next_sibling
  IN at

Children(m, d) ==
  LET from[c \in DOMAIN m \cup {Null}] ==
        IF c = Null THEN {} ELSE {c} \cup from[m[c].next_sibling]
  IN from[m[d].first_child]

(* The first child with a name, as a loop over the child list finds it.    *)
Lookup(m, d, nm) ==
  LET from[c \in DOMAIN m \cup {Null}] ==
        IF c = Null THEN Null ELSE IF m[c].name = nm THEN c ELSE from[m[c].next_sibling]
  IN from[m[d].first_child]

(* vfs_resolve_path: an empty component is looked up like any other, but   *)
(* ends the walk when it is the last.                                      *)
vfs_resolve_path(m, p) ==
  LET current[i \in Nat] ==
        IF i = 0 THEN vfs_root
        ELSE LET d == current[i - 1] IN
             IF d = Null THEN Null
             ELSE IF m[d].type # "DIRECTORY" THEN Null ELSE Lookup(m, d, p[i])
  IN current[IF Last(p) = Empty THEN Len(p) - 1 ELSE Len(p)]

vfs_basename(p) == Last(p)

(* vfs_dirname: the loop that looks for the last slash starts at an index  *)
(* nothing has set.  Past the last slash it finds none, and the answer is  *)
(* the root directory.                                                     *)
vfs_dirname(p) ==
  {<<Empty>>, IF Len(p) = 1 THEN <<Empty>> ELSE Front(p)}

-----------------------------------------------------------------------------
(* What kmalloc can return.                                                *)
kmalloc(m) == (Nodes \ DOMAIN m) \cup {Null}

Exists(m, parent, nm) == Lookup(m, parent, nm) # Null

(* A new node at the head of its parent's child list.                      *)
Linked(m, parent, nm, type, n) ==
  [m EXCEPT ![parent].first_child = n]
    @@ (n :> Node(nm, type, parent, m[parent].first_child))

ramfs_node_create(m, parent, nm, type, n) ==
  IF m[parent].type # "DIRECTORY" THEN [err |-> "E_NOTDIR", mem |-> m]
  ELSE IF Exists(m, parent, nm) THEN [err |-> "E_EXISTS", mem |-> m]
  ELSE IF n = Null THEN [err |-> "E_NOMEM", mem |-> m]
  ELSE [err |-> "E_OK", mem |-> Linked(m, parent, nm, type, n)]

(* vfs_create_file and vfs_create_directory, with d the answer of          *)
(* vfs_dirname and n that of kmalloc.                                      *)
vfs_create(m, p, d, type, n) ==
  LET parent == vfs_resolve_path(m, d) IN
  IF parent = Null THEN [err |-> "E_INVALID", mem |-> m]
  ELSE ramfs_node_create(m, parent, vfs_basename(p), type, n)

(* Variant: a write that gets no memory leaves the old size.               *)
ramfs_write_OldSize(m, f, c, ok) ==
  IF m[f].type # "REGULAR" THEN [err |-> "E_ISDIR", mem |-> m]
  ELSE IF ~ok THEN [err |-> "E_NOMEM", mem |-> [m EXCEPT ![f].data = Null]]
  ELSE [err |-> "E_OK", mem |-> [m EXCEPT ![f].data = c, ![f].size = Len(c)]]

(* ramfs_write: the old data are freed before the new are allocated, and a *)
(* write of nothing asks kmalloc for 0 bytes and gets NULL.                *)
ramfs_write(m, f, c, ok) ==
  IF m[f].type # "REGULAR" THEN [err |-> "E_ISDIR", mem |-> m]
  ELSE IF ~ok \/ c = <<>>
  THEN [err |-> "E_NOMEM", mem |-> [m EXCEPT ![f].data = Null, ![f].size = 0]]
  ELSE [err |-> "E_OK", mem |-> [m EXCEPT ![f].data = c, ![f].size = Len(c)]]

(* ramfs_read of a whole file.                                             *)
ramfs_read(m, f) == IF m[f].data = Null THEN <<>> ELSE SubSeq(m[f].data, 1, m[f].size)

(* Variant: only the head of the child list is compared with the node.     *)
Unlinked_HeadOnly(m, f) ==
  LET parent == m[f].parent IN
  IF m[parent].first_child = f
  THEN [m EXCEPT ![parent].first_child = m[f].next_sibling]
  ELSE m

(* Variant: the list ends where the node was.                              *)
Unlinked_Ends(m, f) ==
     [c \in DOMAIN m |-> CASE m[c].next_sibling = f -> [m[c] EXCEPT !.next_sibling = Null]
                           [] m[c].first_child = f -> [m[c] EXCEPT !.first_child = Null]
                           [] OTHER -> m[c]]

(* The node taken out of its parent's child list.                          *)
Unlinked(m, f) ==
  LET parent == m[f].parent
      before == {c \in Children(m, parent) : m[c].next_sibling = f}
  IN IF m[parent].first_child = f
     THEN [m EXCEPT ![parent].first_child = m[f].next_sibling]
     ELSE [c \in DOMAIN m |-> IF c \in before
                              THEN [m[c] EXCEPT !.next_sibling = m[f].next_sibling]
                              ELSE m[c]]

(* ramfs_node_delete frees the node and not what is below it.              *)
ramfs_node_delete(m, f) ==
  IF m[f].parent = Null THEN [err |-> "E_PERM", mem |-> m]
  ELSE LET rest == Unlinked(m, f)
       IN [err |-> "E_OK", mem |-> [c \in DOMAIN m \ {f} |-> rest[c]]]

-----------------------------------------------------------------------------
(* A command ends; the error in r is printed.                              *)
Done(r) == mem' = r.mem

(* kernel_main: ramfs_create_fs, then vfs_mount at "/", each of which may  *)
(* get no memory.                                                          *)
vfs_mount(n) ==
  /\ ~booted
  /\ booted' = TRUE
  /\ IF n = Null
     THEN UNCHANGED <<mem, vfs_root>>
     ELSE /\ mem' = (n :> Node("/", "DIRECTORY", Null, Null))
          /\ vfs_root' = n

cmd_touch(p) ==
  /\ booted
  /\ \E d \in vfs_dirname(p), n \in kmalloc(mem) :
       Done(vfs_create(mem, p, d, "REGULAR", n))
  /\ UNCHANGED <<vfs_root, booted>>

cmd_mkdir(p) ==
  /\ booted
  /\ \E d \in vfs_dirname(p), n \in kmalloc(mem) :
       Done(vfs_create(mem, p, d, "DIRECTORY", n))
  /\ UNCHANGED <<vfs_root, booted>>

(* vfs_delete.                                                             *)
cmd_rm(p) ==
  LET f == vfs_resolve_path(mem, p) IN
  /\ booted
  /\ Done(IF f = Null THEN [err |-> "E_INVALID", mem |-> mem]
          ELSE ramfs_node_delete(mem, f))
  /\ UNCHANGED <<vfs_root, booted>>

(* A file that does not exist is created, and looked up again.             *)
cmd_write(p, text) ==
  /\ booted
  /\ \E d \in vfs_dirname(p), n \in kmalloc(mem), ok \in BOOLEAN :
       LET old == vfs_resolve_path(mem, p)
           made == IF old # Null THEN [err |-> "E_EXISTS", mem |-> mem]
                   ELSE vfs_create(mem, p, d, "REGULAR", n)
           f == vfs_resolve_path(made.mem, p)
       IN Done(CASE made.err \notin {"E_OK", "E_EXISTS"} -> made
                 [] made.err \in {"E_OK", "E_EXISTS"} /\ f = Null ->
                      [made EXCEPT !.err = "E_NOTFOUND"]
                 [] OTHER -> ramfs_write(made.mem, f, text, ok))
  /\ UNCHANGED <<vfs_root, booted>>

(* vfs_copy_file: the bytes written are those of the ramfs_node_t of the   *)
(* source, as many as the source has.                                      *)
cmd_cp(source, dest) ==
  LET src == vfs_resolve_path(mem, source) IN
  /\ booted
  /\ IF src = Null THEN UNCHANGED mem
     ELSE IF mem[src].type # "REGULAR" THEN UNCHANGED mem
     ELSE \E d \in vfs_dirname(dest), n \in kmalloc(mem), ok \in BOOLEAN :
            LET made == vfs_create(mem, dest, d, "REGULAR", n)
                dst == vfs_resolve_path(made.mem, dest)
            IN Done(CASE made.err \notin {"E_OK", "E_EXISTS"} -> made
                      [] made.err \in {"E_OK", "E_EXISTS"} /\ dst = Null ->
                           [made EXCEPT !.err = "E_NOTFOUND"]
                      [] OTHER -> ramfs_write(made.mem, dst, Filled(Raw, mem[src].size), ok))
  /\ UNCHANGED <<vfs_root, booted>>

Next ==
  \/ \E n \in Nodes \cup {Null} : vfs_mount(n)
  \/ \E p \in Paths : cmd_touch(p) \/ cmd_mkdir(p) \/ cmd_rm(p)
  \/ \E p \in Paths, text \in Texts : cmd_write(p, text)
  \/ \E p, q \in Paths : cmd_cp(p, q)

Spec == Init /\ [][Next]_fsVars

-----------------------------------------------------------------------------
(* vfs_print_tree: the nodes it prints, each under the path that leads to  *)
(* it, down to a depth no tree exceeds.                                    *)
vfs_print_tree(m) ==
  LET printed[k \in Nat] ==
        IF k = 0 THEN IF vfs_root = Null THEN {} ELSE {<<<<>>, vfs_root>>}
        ELSE UNION {{e} \cup {<<Append(e[1], m[c].name), c>> : c \in Children(m, e[2])} :
                      e \in printed[k - 1]}
  IN printed[Cardinality(DOMAIN m)]

Reached(m) == {e[2] : e \in vfs_print_tree(m)}

(* vfs_list: the names in a directory, in the order they are shown.        *)
vfs_list(m, d) ==
  LET at == ramfs_readdir(m, d)
  IN [i \in 1 .. Cardinality(Children(m, d)) |-> m[at[i - 1]].name]

(* cmd_cat and cmd_hexdump of an open file: what they show.                *)
cmd_cat(m, f) == ramfs_read(m, f)

-----------------------------------------------------------------------------
(* The child lists ramfs_node_create and ramfs_node_delete edit stay a     *)
(* tree: every child is allocated, knows the directory it is in, is in one *)
(* list, and is followed by a list that ends.  Two children of a directory *)
(* show the same name only if it is as long as a name can be, for the      *)
(* search of ramfs_node_create compares the name it is given, and the name *)
(* it then stores may be cut.                                              *)
TreeShape ==
  /\ vfs_root # Null => vfs_root \in DOMAIN mem /\ mem[vfs_root].parent = Null
  /\ \A d \in DOMAIN mem :
       /\ {mem[d].first_child, mem[d].next_sibling} \subseteq DOMAIN mem \cup {Null}
       /\ mem[d].first_child # Null => mem[d].type = "DIRECTORY"
  /\ \A d \in DOMAIN mem : ramfs_readdir(mem, d)[Cardinality(Nodes)] = Null
  /\ \A n \in Reached(mem) : \A c \in Children(mem, n) : mem[c].parent = n
  /\ \A d \in {n \in Reached(mem) : mem[n].type = "DIRECTORY"} :
       LET shown == vfs_list(mem, d) IN
       \A i, j \in DOMAIN shown : i # j /\ shown[i] = shown[j] => shown[i] = Full

(* The size a directory listing shows is the number of bytes a file has,   *)
(* also after a write that got no memory.                                  *)
SizeExact ==
  \A n \in DOMAIN mem :
    mem[n].size = IF mem[n].data = Null THEN 0 ELSE Len(mem[n].data)

(* The paths none of whose names can have been cut.                        *)
Clear(p) == \A i \in DOMAIN p : p[i] # Full

(* What the tree and cat commands show, for those paths.                   *)
Shown ==
  LET paths == {e[1] : e \in vfs_print_tree(mem)} IN
  [p \in {q \in paths : Clear(q)} |->
     LET f == vfs_resolve_path(mem, Append(p, Empty)) IN
     IF mem[f].type = "DIRECTORY" THEN Dir ELSE cmd_cat(mem, f)]

Abstract == INSTANCE FileTree WITH tree <- Shown

(* The commands implement the tree of FileTree: each changes at most the   *)
(* file it fills and the name it makes or removes, and a directory that is *)
(* removed takes with it what is below it and nothing else.                *)
ImplementsFileTree == Abstract!Spec
=============================================================================
