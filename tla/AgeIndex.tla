------------------------------ MODULE AgeIndex ------------------------------
(***************************************************************************)
(* age_index::AgeIndex (src/age_index.rs): files by path with their size   *)
(* and the day of their last access and modification; total_size is kept   *)
(* up to date and never recomputed. Subtraction saturates at zero.         *)
(***************************************************************************)
EXTENDS Integers, FiniteSetsExt

CONSTANTS Paths, Sizes, Today

VARIABLES files, total_size

vars == <<files, total_size>>

Absent == [size |-> 0, atime |-> 0, mtime |-> 0]
File == [size : Sizes, atime : 1..Today, mtime : 1..Today]

Known == {p \in Paths : files[p] # Absent}

TypeOK == files \in [Paths -> File \cup {Absent}] /\ total_size \in Nat

Init == files = [p \in Paths |-> Absent] /\ total_size = 0

Saturating(a, b) == IF a > b THEN a - b ELSE 0

(* Indexing a path again replaces its record. *)
Index(p, f) ==
  /\ total_size' = Saturating(total_size, files[p].size) + f.size
  /\ files' = [files EXCEPT ![p] = f]

Remove(p) ==
  /\ p \in Known
  /\ total_size' = Saturating(total_size, files[p].size)
  /\ files' = [files EXCEPT ![p] = Absent]

Next == \E p \in Paths : Remove(p) \/ \E f \in File : Index(p, f)

Age(day) == Today - day

(* Stale is older than the threshold, not accessed is at least as old. *)
Stale(days) == {p \in Known : Age(files[p].atime) > days /\ Age(files[p].mtime) > days}
NotAccessedSince(days) == {p \in Known : Age(files[p].atime) >= days}
NotModifiedSince(days) == {p \in Known : Age(files[p].mtime) >= days}

Bytes(paths) == MapThenSumSet(LAMBDA p : files[p].size, paths)
StaleBytes(days) == Bytes(Stale(days))

-----------------------------------------------------------------------------
(* The running total is the sum of what is indexed, after any sequence of  *)
(* indexing, indexing again and removing; what a threshold calls stale is  *)
(* among what the same number of days lists, and weighs no more than all.  *)
TotalsAgree ==
  /\ total_size = Bytes(Known)
  /\ \A d \in 0..Today :
       /\ Stale(d) \subseteq NotAccessedSince(d) \cap NotModifiedSince(d)
       /\ StaleBytes(d) <= total_size
=============================================================================
