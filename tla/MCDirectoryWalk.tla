-------------------------- MODULE MCDirectoryWalk --------------------------
(* root/{x, inner/z, link}: two walks; z and the link come late or never.  *)
EXTENDS DirectoryWalk

CONSTANTS w1, w2, root, inner, x, z, link, none

MCKind == [n \in {root, inner, x, z, link} |->
             CASE n \in {root, inner} -> "dir" [] n = link -> "other" [] OTHER -> "file"]
MCParent == [n \in {inner, x, z, link} |-> IF n = z THEN inner ELSE root]
MCBackfill == [w \in Walks |-> TRUE]
MCNoBackfill == [w \in Walks |-> FALSE]
=============================================================================
