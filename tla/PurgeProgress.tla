--------------------------- MODULE PurgeProgress ---------------------------
(***************************************************************************)
(* The shared progress handle (src/progress.rs): atomics that an operation *)
(* stores to while a UI thread takes snapshots of them, one load at a time,*)
(* and may set the cancel flag.  Every access is Ordering::Relaxed: a load *)
(* may return an older value of its counter than the loads around it, so   *)
(* the four of a snapshot are done in any order.  Labels and paths are     *)
(* left out.                                                               *)
(***************************************************************************)
EXTENDS Integers

CONSTANTS
  Handles,
  Watched    (* the handles that a UI thread holds too                     *)

ASSUME WatchedAssumption == Watched \subseteq Handles

VARIABLES
  total,      (* handle -> total_bytes, in chunks                          *)
  written,    (* handle -> bytes_written, in chunks                        *)
  completed,  (* handle -> passes_completed                                *)
  planned,    (* handle -> total_passes                                    *)
  cancel,     (* handle -> the cancel flag                                 *)
  loads,      (* handle -> the fields its snapshot has loaded so far       *)
  snap        (* handle -> that snapshot                                   *)

counterVars == <<total, written, completed, planned>>
snapVars == <<loads, snap>>
progressVars == <<counterVars, cancel, snapVars>>

Fields == {"total", "written", "completed", "planned"}

ProgressTypeOK ==
  /\ total \in [Handles -> Nat]
  /\ written \in [Handles -> Nat]
  /\ completed \in [Handles -> Nat]
  /\ planned \in [Handles -> Nat]
  /\ cancel \in [Handles -> BOOLEAN]
  /\ loads \in [Handles -> SUBSET Fields]
  /\ snap \in [Handles -> [Fields -> Nat]]

ProgressInit ==
  /\ total = [h \in Handles |-> 0]
  /\ written = [h \in Handles |-> 0]
  /\ completed = [h \in Handles |-> 0]
  /\ planned = [h \in Handles |-> 0]
  /\ cancel = [h \in Handles |-> FALSE]
  /\ loads = [h \in Handles |-> {}]
  /\ snap = [h \in Handles |-> [f \in Fields |-> 0]]

(***************************************************************************)
(* The operation's side.                                                   *)
(***************************************************************************)
SeedTotal(h, n) == total' = [total EXCEPT ![h] = n]
SeedPlanned(h, n) == planned' = [planned EXCEPT ![h] = n]
CountChunk(h) == written' = [written EXCEPT ![h] = @ + 1]
CountPass(h) == completed' = [completed EXCEPT ![h] = @ + 1]

(***************************************************************************)
(* The UI thread's side.                                                   *)
(***************************************************************************)

(* The moment the operation's loads begin to see the flag. *)
RequestCancel(h) ==
  /\ cancel' = [cancel EXCEPT ![h] = TRUE]
  /\ UNCHANGED <<counterVars, snapVars>>

Counter(h, f) ==
  CASE f = "total" -> total[h] [] f = "written" -> written[h]
    [] f = "completed" -> completed[h] [] f = "planned" -> planned[h]

(* A reader changes nothing, so one snapshot per handle, begun at any time, *)
(* stands for all.                                                         *)
SnapshotLoad(h, f) ==
  /\ f \notin loads[h]
  /\ loads' = [loads EXCEPT ![h] = @ \cup {f}]
  /\ snap' = [snap EXCEPT ![h][f] = Counter(h, f)]
  /\ UNCHANGED <<counterVars, cancel>>

UI(h) == RequestCancel(h) \/ \E f \in Fields : SnapshotLoad(h, f)
=============================================================================
