--------------------------- MODULE MCFileSystem ---------------------------
EXTENDS FileSystem

(* "/", "/a", "/a/", "/a/b", and in the root a name that just fits and one *)
(* that is too long.                                                       *)
MCPaths == {<<"">>, <<"a">>, <<"a", "">>, <<"a", "b">>, <<"full">>, <<"long">>}

(* Addresses are interchangeable.                                          *)
Symmetry == Permutations(Nodes)
=============================================================================
