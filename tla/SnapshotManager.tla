-------------------------- MODULE SnapshotManager --------------------------
(***************************************************************************)
(* snapshot::SnapshotManager (src/snapshot.rs): a bounded list of          *)
(* snapshots of the files' hashes, found by id.                            *)
(***************************************************************************)
EXTENDS Integers, Sequences, SequencesExt, FiniteSets

CONSTANTS Paths, Hashes, max_snapshots, MaxId     (* Gone is no hash *)

VARIABLES
  snapshots,   (* oldest first                                             *)
  next_id,
  deleted      (* ghost: the ids deleted                                   *)

vars == <<snapshots, next_id, deleted>>

Gone == "gone"
Files == [Paths -> Hashes \cup {Gone}]

TypeOK ==
  /\ snapshots \in Seq([id : 1..MaxId, files : Files])
  /\ next_id \in 0..MaxId
  /\ deleted \subseteq 1..MaxId

Init == snapshots = <<>> /\ next_id = 0 /\ deleted = {}

Kept == {snapshots[i].id : i \in DOMAIN snapshots}

(* Slip: the id is how many snapshots there are. *)
CreateCounting(files) ==
  /\ next_id < MaxId
  /\ next_id' = next_id + 1
  /\ snapshots' = LET s == Append(snapshots, [id |-> Len(snapshots) + 1, files |-> files])
                      excess == Len(s) - max_snapshots
                  IN IF excess > 0 THEN SubSeq(s, excess + 1, Len(s)) ELSE s
  /\ UNCHANGED deleted

(* The id carries the time as well, which adds nothing to its uniqueness.  *)
(* The oldest go until max_snapshots are left, with a limit of 0 the new   *)
(* one too.                                                                *)
Create(files) ==
  /\ next_id < MaxId
  /\ next_id' = next_id + 1
  /\ snapshots' = LET s == Append(snapshots, [id |-> next_id + 1, files |-> files])
                      excess == Len(s) - max_snapshots
                  IN IF excess > 0 THEN SubSeq(s, excess + 1, Len(s)) ELSE s
  /\ UNCHANGED deleted

(* No two snapshots have the same id, so retain drops one.                 *)
Delete(id) ==
  /\ \E k \in DOMAIN snapshots :
       snapshots[k].id = id /\ snapshots' = RemoveAt(snapshots, k)
  /\ deleted' = deleted \cup {id}
  /\ UNCHANGED next_id

Next == (\E f \in Files : Create(f)) \/ (\E id \in Kept : Delete(id))

Get(id) == CHOOSE s \in ToSet(snapshots) : s.id = id

Diff(old, new) ==
  LET o == Get(old).files n == Get(new).files
      there(f) == {p \in Paths : f[p] # Gone} IN
  [added |-> there(n) \ there(o), removed |-> there(o) \ there(n),
   modified |-> {p \in there(o) \cap there(n) : o[p] # n[p]}]

-----------------------------------------------------------------------------
(* What can be rolled back to: an id that create returned finds its one    *)
(* snapshot until it is deleted or as many newer ones are kept as there is *)
(* room for, and the list is in the order of creation. Of any two of them  *)
(* the difference names just the paths that changed.                       *)
SnapshotsAreFound ==
  /\ \A i, j \in DOMAIN snapshots : i < j => snapshots[i].id < snapshots[j].id
  /\ \A id \in 1..next_id : id \in Kept \cup deleted
       \/ Cardinality({j \in Kept \cup deleted : j > id}) >= max_snapshots
  /\ \A a, b \in Kept : LET d == Diff(a, b) IN
       \A p \in Paths : p \in d.added \cup d.removed \cup d.modified
                          <=> Get(a).files[p] # Get(b).files[p]
=============================================================================
