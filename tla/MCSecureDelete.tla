--------------------------- MODULE MCSecureDelete ---------------------------
(* Two calls of secure_delete on one file, nothing else writing to it; or  *)
(* one call among other programs: a writer that honours flock, and a       *)
(* rotator that may put a symlink to the bystander g in the place of f.    *)
EXTENDS SecureDelete

CONSTANTS c1, c2, w, f, g, i1, i2, link, fifo, fresh, attic, nobody, nothing

MCKind == [i \in Inodes |->
             CASE i = link -> "symlink" [] i = fifo -> "special" [] OTHER -> "file"]
MCLinkTo == [i \in Inodes |-> IF g \in Paths THEN g ELSE f]
MCRequest == [c \in Calls |-> f]
(* All three patterns with read-back, against a call that does not verify. *)
MCPasses == [c \in Calls |-> IF c = c1 THEN 3 ELSE 1]
MCVerify == [c \in Calls |-> c = c1]

(* Among other programs: files f and g exist, with one chunk each. *)
TwoFiles ==
  /\ Init
  /\ dirent[f] = i1 /\ dirent[g] = i2
  /\ \A i \in Inodes : len[i] = IF Kind[i] = "file" /\ i # fresh THEN 1 ELSE 0

TwoFilesSpec == TwoFiles /\ [][OpenNext]_vars /\ \A c \in Calls : WF_vars(Step(c))
=============================================================================
