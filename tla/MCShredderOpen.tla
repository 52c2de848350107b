--------------------------- MODULE MCShredderOpen ---------------------------
(* One shred of f among other programs; g is nobody's target.              *)
EXTENDS ShredderOpen

CONSTANTS c1, w, f, g, i1, i2, link, fresh, attic, nobody, nothing

MCInodes == {i1, i2, link, fresh}
MCKind == [i \in MCInodes |-> IF i = link THEN "symlink" ELSE "file"]
MCLinkTo == [i \in MCInodes |-> g]
MCRequest == [c \in {c1} |-> f]
MCVerify == [c \in {c1} |-> TRUE]
MCBackfill == [c \in {c1} |-> FALSE]
MCDod == [c \in {c1} |-> "Dod522022M"]
MCZero == [c \in {c1} |-> "ZeroFill"]

(* f and g exist, and the rotator's file too, with one chunk of user data. *)
TwoFiles ==
  /\ Init
  /\ dirent[f] = i1 /\ dirent[g] = i2
  /\ \A i \in MCInodes : len[i] = IF Kind[i] = "file" THEN 1 ELSE 0

TwoFilesSpec == TwoFiles /\ [][OpenNext]_vars
=============================================================================
