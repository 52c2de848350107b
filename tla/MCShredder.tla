----------------------------- MODULE MCShredder -----------------------------
(* Two shreds of one file with different algorithms.                       *)
EXTENDS Shredder

CONSTANTS c1, c2, f, i1, attic, nobody, nothing

MCKind == [i \in {i1} |-> "file"]
MCLinkTo == [i \in {i1} |-> f]
MCRequest == [c \in {c1, c2} |-> f]
(* The DoD passes read back twice each, against the keystream and zero     *)
(* sweeps of the cryptographic erasure.                                    *)
MCAlgorithm == [c \in {c1, c2} |-> IF c = c1 THEN "Dod522022M" ELSE "CryptographicErasure"]
MCVerify == [c \in {c1, c2} |-> TRUE]
MCBackfill == [c \in {c1, c2} |-> c = c2]
=============================================================================
