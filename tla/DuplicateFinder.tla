--------------------------- MODULE DuplicateFinder ---------------------------
(***************************************************************************)
(* dedup::DuplicateFinder::scan (src/dedup.rs): a first pass over the      *)
(* roots takes the size of every file, a second reads the files whose size *)
(* another one has as well. One step per file, so that other programs may  *)
(* write, create and remove files between any two. Two files hash alike    *)
(* just if they are equal. Symbolic links are not modelled but as files    *)
(* the scan leaves out.                                                    *)
(***************************************************************************)
EXTENDS Integers, Sequences, FiniteSets, SequencesExt, FiniteSetsExt

CONSTANTS
  Files, Contents,
  Length,           (* content -> its size                                 *)
  MinSize,
  Roots,            (* lists of roots to scan: each root a set of files    *)
  MaxMeddlings

VARIABLES
  disk,             (* file -> content, or Absent                          *)
  phase,            (* "idle", "walking", "hashing", "done" or "failed"    *)
  toWalk,           (* the files still to visit, root by root              *)
  found,            (* <<file, size>> in the order of the walk             *)
  hashed,           (* the indexes in `found` the second pass has seen to   *)
  groups,           (* <<size, content>> -> the files that had both        *)
  scanned,
  meddlings

vars == <<disk, phase, toWalk, found, hashed, groups, scanned, meddlings>>

Absent == "absent"

InitWith(d) ==
  /\ disk = d
  /\ phase = "idle" /\ toWalk = <<>> /\ found = <<>> /\ hashed = {}
  /\ groups = [k \in {} |-> <<>>]
  /\ scanned = [files |-> 0, bytes |-> 0]
  /\ meddlings = 0

Init == \E d \in [Files -> Contents \cup {Absent}] : InitWith(d)

(* Roots may lie in one another: each is walked on its own.                *)
Scan(roots) ==
  /\ phase = "idle"
  /\ phase' = "walking" /\ toWalk' = roots
  /\ UNCHANGED <<disk, found, hashed, groups, scanned, meddlings>>

(* A root that is not there when its turn comes ends the scan without a    *)
(* report.                                                                 *)
RootIsMissing ==
  /\ phase = "walking" /\ toWalk # <<>>
  /\ \E roots \in Roots : \E i \in DOMAIN roots : toWalk = SubSeq(roots, i, Len(roots))
  /\ \A f \in Head(toWalk) : disk[f] = Absent
  /\ phase' = "failed"
  /\ UNCHANGED <<disk, toWalk, found, hashed, groups, scanned, meddlings>>

Drop(f) == IF Head(toWalk) = {f} THEN Tail(toWalk) ELSE [toWalk EXCEPT ![1] = @ \ {f}]

TooSmall(size) == size = 0 \/ size < MinSize

(* Pass 1: the file is taken with the size it has now. *)
Visit(f) ==
  /\ phase = "walking" /\ toWalk # <<>> /\ f \in Head(toWalk)
  /\ toWalk' = Drop(f)
  /\ IF disk[f] = Absent \/ TooSmall(Length[disk[f]])
       THEN UNCHANGED <<found, scanned>>
       ELSE /\ found' = Append(found, <<f, Length[disk[f]]>>)
            /\ scanned' = [files |-> scanned.files + 1, bytes |-> scanned.bytes + Length[disk[f]]]
  /\ UNCHANGED <<disk, phase, hashed, groups, meddlings>>

EndWalk ==
  /\ phase = "walking" /\ toWalk = <<>>
  /\ phase' = "hashing"
  /\ UNCHANGED <<disk, toWalk, found, hashed, groups, scanned, meddlings>>

SizeIsShared(i) == \E j \in DOMAIN found : j # i /\ found[j][2] = found[i][2]

(* Slip: files of different content are told apart by their size alone. *)
KeyBySize(f, size) == <<size, "any">>

Key(f, size) == <<size, disk[f]>>

(* Pass 2, in any order of sizes, files of one size in that of the walk. A *)
(* file that cannot be read any more is left out.                          *)
Hash(i) ==
  /\ phase = "hashing"
  /\ i \notin hashed
  /\ \A j \in DOMAIN found : j < i /\ found[j][2] = found[i][2] => j \in hashed
  /\ hashed' = hashed \cup {i}
  /\ LET f == found[i][1]
         k == Key(f, found[i][2])
     IN  IF SizeIsShared(i) /\ disk[f] # Absent
           THEN groups' = [g \in DOMAIN groups \cup {k} |->
                  (IF g \in DOMAIN groups THEN groups[g] ELSE <<>>)
                    \o (IF g = k THEN <<f>> ELSE <<>>)]
           ELSE UNCHANGED groups
  /\ UNCHANGED <<disk, phase, toWalk, found, scanned, meddlings>>

EndScan ==
  /\ phase = "hashing" /\ hashed = DOMAIN found
  /\ phase' = "done"
  /\ UNCHANGED <<disk, toWalk, found, hashed, groups, scanned, meddlings>>

Meddle(f, c) ==
  /\ phase \in {"walking", "hashing"} /\ meddlings < MaxMeddlings /\ disk[f] # c
  /\ disk' = [disk EXCEPT ![f] = c]
  /\ meddlings' = meddlings + 1
  /\ UNCHANGED <<phase, toWalk, found, hashed, groups, scanned>>

Next ==
  \/ \E roots \in Roots : Scan(roots)
  \/ \E f \in Files : Visit(f) \/ \E c \in Contents \cup {Absent} : Meddle(f, c)
  \/ \E i \in DOMAIN found : Hash(i)
  \/ RootIsMissing \/ EndWalk \/ EndScan

-----------------------------------------------------------------------------
(* The report. *)
DuplicateGroups == {k \in DOMAIN groups : Len(groups[k]) >= 2}

Wasted(k) == (Len(groups[k]) - 1) * k[1]

TotalWasted == MapThenSumSet(Wasted, DuplicateGroups)

(* Of a tree at rest, scanned from roots apart from one another, the       *)
(* report lists just the classes of equal files that are worth it, and     *)
(* what one could do without. A file that changes during the scan may be   *)
(* missing from it or listed at a size it no longer has, but is never in   *)
(* two groups, nor twice in one, unless the walk met it twice. The order   *)
(* of the report, most wasteful first, is left out.                        *)
GroupsAreEqualFiles ==
  LET once == \A i, j \in DOMAIN found : found[i][1] = found[j][1] => i = j
      Equals(c) == {f \in Files : disk[f] = c}
      large == {c \in Contents : ~TooSmall(Length[c]) /\ Cardinality(Equals(c)) >= 2}
  IN  phase = "done" /\ once =>
        /\ \A k, l \in DuplicateGroups : k # l => ToSet(groups[k]) \cap ToSet(groups[l]) = {}
        /\ \A k \in DuplicateGroups : IsInjective(groups[k])
        /\ meddlings = 0 =>
             /\ {ToSet(groups[k]) : k \in DuplicateGroups} = {Equals(c) : c \in large}
             /\ TotalWasted =
                  MapThenSumSet(LAMBDA c : (Cardinality(Equals(c)) - 1) * Length[c], large)
=============================================================================
