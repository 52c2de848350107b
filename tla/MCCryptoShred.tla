---------------------------- MODULE MCCryptoShred ----------------------------
(* Two calls on one name, a file or a symlink to one.  The first makes a   *)
(* random pass before, syncs every chunk and truncates after; the second   *)
(* does none of this and only unlinks.                                     *)
EXTENDS CryptoShred

CONSTANTS c1, c2, f, l, i1, link, h1, h2, attic, nobody, nothing

MCKind == [i \in {i1, link} |-> IF i = link THEN "symlink" ELSE "file"]
MCLinkTo == [i \in {i1, link} |-> f]
MCRequest == [c \in Calls |-> l]
MCTruncates == [c \in Calls |-> c = c1]
MCUnlinks == [c \in Calls |-> TRUE]
MCFsyncEach == [c \in Calls |-> c = c1]
MCPrePass == [c \in Calls |-> c = c1]
MCHandle == [c \in Calls |-> IF c = c1 THEN h1 ELSE h2]

LinkedFile ==
  /\ Init
  /\ \/ dirent[f] = i1 /\ dirent[l] = link /\ len[i1] = 1
     \/ dirent[f] = nothing /\ dirent[l] = i1 /\ len[i1] \in {0, 2}

LinkedFileSpec == LinkedFile /\ [][Next]_vars
=============================================================================
