--------------------------- MODULE RestoreManager ---------------------------
(***************************************************************************)
(* restore::RestoreManager (src/restore.rs): backups by original path, and *)
(* a status for each, kept in a map of its own. Backups are never dropped, *)
(* only their status changes. Time does not go back.                       *)
(***************************************************************************)
EXTENDS Integers

CONSTANTS Paths, Retention, MaxNow

VARIABLES
  now,
  backups,     (* path -> when it was backed up, or None                   *)
  statuses,    (* path -> status, or "none"                                *)
  swept        (* ghost: path -> cutoff of the last expire_old since the   *)
               (* path was last registered                                 *)

vars == <<now, backups, statuses, swept>>

None == -1
Statuses == {"none", "Available", "InProgress", "Restored", "Failed", "Expired"}

TypeOK ==
  /\ now \in 0..MaxNow
  /\ backups \in [Paths -> {None} \cup 0..MaxNow]
  /\ statuses \in [Paths -> Statuses]
  /\ swept \in [Paths -> Int]

Init ==
  /\ now = 0
  /\ backups = [p \in Paths |-> None]
  /\ statuses = [p \in Paths |-> "none"]
  /\ swept = [p \in Paths |-> -Retention]

Known == {p \in Paths : backups[p] # None}

(* The backup may have been made some time ago; one of the same path that  *)
(* is known already is replaced.                                           *)
RegisterBackup(p, at) ==
  /\ backups' = [backups EXCEPT ![p] = at]
  /\ statuses' = [statuses EXCEPT ![p] = "Available"]
  /\ swept' = [swept EXCEPT ![p] = -Retention]
  /\ UNCHANGED now

(* Any known backup may be restored, whatever its status says. *)
StartRestore(p) ==
  /\ p \in Known
  /\ statuses' = [statuses EXCEPT ![p] = "InProgress"]
  /\ UNCHANGED <<now, backups, swept>>

(* No restore need have been started, nor a backup be known. *)
EndRestore(p, status) ==
  /\ statuses' = [statuses EXCEPT ![p] = status]
  /\ UNCHANGED <<now, backups, swept>>

CompleteRestore(p) == EndRestore(p, "Restored")

(* Slip: a restore that failed makes its backup available again. *)
FailRestoreReoffering(p) == EndRestore(p, "Available")

FailRestore(p) == EndRestore(p, "Failed")

(* All that are old enough are marked, those being restored, restored or   *)
(* expired before as well.                                                 *)
ExpireOld ==
  /\ statuses' = [p \in Paths |->
       IF p \in Known /\ backups[p] < now - Retention THEN "Expired" ELSE statuses[p]]
  /\ swept' = [p \in Paths |-> now - Retention]
  /\ UNCHANGED <<now, backups>>

Tick == now < MaxNow /\ now' = now + 1 /\ UNCHANGED <<backups, statuses, swept>>

Next ==
  \/ \E p \in Paths : \/ \E at \in 0..now : RegisterBackup(p, at)
                      \/ StartRestore(p) \/ CompleteRestore(p) \/ FailRestore(p)
  \/ ExpireOld \/ Tick

Available == {p \in Known : statuses[p] = "Available"}

-----------------------------------------------------------------------------
(* A backup that was too old at a sweep is not offered again until its     *)
(* path is registered anew: not even if a restore of it was under way and  *)
(* completed or failed after the sweep.                                    *)
SweptIsNotOffered == \A p \in Available : backups[p] >= swept[p]
=============================================================================
