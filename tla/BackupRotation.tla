--------------------------- MODULE BackupRotation ---------------------------
(***************************************************************************)
(* backup_rotation::BackupRotator (src/backup_rotation.rs) over a growing  *)
(* set of backups, each known by the day it was made. classify and plan    *)
(* are pure; deleting what a plan says is its caller's, who may stop       *)
(* half-way. The calendar is one of short weeks, months and years; weeks   *)
(* and months are not aligned.                                             *)
(***************************************************************************)
EXTENDS Integers, FiniteSets, FiniteSetsExt

CONSTANTS MaxDay, Week, Month, Year, Policy   (* days in each; backups kept, by tier *)

VARIABLES
  day,
  backups,
  taken        (* ghost: all the backups ever made                         *)

vars == <<day, backups, taken>>

(* A period is the days d \div Length has the same value for. *)
Same(length, d, e) == d \div length = e \div length

IsFirst(length, b, all) == b = Min({d \in all : Same(length, d, b)})

Classify(b, all) ==
  CASE IsFirst(Year, b, all) -> "Yearly"
    [] ~IsFirst(Year, b, all) /\ IsFirst(Month, b, all) -> "Monthly"
    [] ~IsFirst(Year, b, all) /\ ~IsFirst(Month, b, all) /\ IsFirst(Week, b, all) -> "Weekly"
    [] OTHER -> "Daily"

InTier(tier, all) == {b \in all : Classify(b, all) = tier}

(* Slip: each tier is sorted oldest first. *)
Oldest(tier, all) ==
  {b \in InTier(tier, all) : Cardinality({d \in InTier(tier, all) : d < b}) < Policy[tier]}

Newest(tier, all) ==
  {b \in InTier(tier, all) : Cardinality({d \in InTier(tier, all) : d > b}) < Policy[tier]}

Keep(all) == UNION {Newest(tier, all) : tier \in DOMAIN Policy}
Delete(all) == all \ Keep(all)

Init == day = 0 /\ backups = {} /\ taken = {}

NextDay == day < MaxDay /\ day' = day + 1 /\ UNCHANGED <<backups, taken>>

Backup == backups' = backups \cup {day} /\ taken' = taken \cup {day} /\ UNCHANGED day

(* All that a plan says is deleted, or some of it.                         *)
Rotate == /\ \E some \in SUBSET Delete(backups) : backups' = backups \ some
          /\ UNCHANGED <<day, taken>>

Next == NextDay \/ Backup \/ Rotate

-----------------------------------------------------------------------------
Periods(length) == {d \div length : d \in taken}

Recent(length, n) == {p \in Periods(length) : Cardinality({q \in Periods(length) : q > p}) < n}

(* Of every recent year a backup is left, whatever was rotated when; of a  *)
(* recent month as well if its year is recent, and of a recent week if its *)
(* year and month are: recent are as many of each as the policy keeps. So  *)
(* is the newest backup of all, if the policy keeps some of every tier. A  *)
(* rotation changes which backups come first in their period, and so what  *)
(* the next one will keep.                                                 *)
RecentPeriodsSurvive ==
  LET Covered(d, length) == \E b \in backups : Same(length, b, d)
      IsRecent(d, length, n) == d \div length \in Recent(length, n)
  IN  /\ taken # {} /\ (\A tier \in DOMAIN Policy : Policy[tier] > 0) => Max(taken) \in backups
      /\ \A d \in taken : IsRecent(d, Year, Policy["Yearly"]) =>
           /\ Covered(d, Year)
           /\ IsRecent(d, Month, Policy["Monthly"]) =>
                /\ Covered(d, Month)
                /\ IsRecent(d, Week, Policy["Weekly"]) => Covered(d, Week)
=============================================================================
