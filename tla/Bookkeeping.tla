---------------------------- MODULE Bookkeeping ----------------------------
(***************************************************************************)
(* The in-memory bookkeeping around the erasure: what is to run when       *)
(* (TaskScheduler, PurgeDaemon, CronManager, DiskWatcher) and what is to   *)
(* be wiped, archived, restored or was indexed (WipeQueue, LogArchiver,    *)
(* RestoreManager, SnapshotManager, AgeIndex). No two of these structures  *)
(* share any state or call one another, so a step of one says nothing of   *)
(* another, and each behaviour is about one of them: the one in `active`.  *)
(***************************************************************************)
EXTENDS TaskScheduler

CONSTANTS
  Active,                                             (* the structures in this instance *)
  DaemonInterval, DaemonHistory, DaemonTimes,
  CronNames, Schedules, Day, FirstNow, MaxNow,
  Mounts, Total, Thresholds, SampleLimit, SampleTimes,
  Ids, MaxEnqueues, LogSizes, MaxQueued,
  Paths, Retention, MaxRestoreNow,
  Hashes, MaxSnapshots, MaxSnapshotId,
  FileSizes, Today

(* With an interval of 0 hours a kind of cleanup is due again the moment   *)
(* it has run: as for tasks, NobodyPassedTwice is about positive ones.     *)
ASSUME BookAssumption ==
  /\ DaemonInterval \in [{"BrowserClean", "SystemClean", "DedupScan", "PrivacyAudit"} -> Nat \ {0}]
  /\ DaemonTimes \subseteq Nat \ {0}
  /\ Schedules \subseteq [kind : {"daily", "interval", "session"}, n : Nat]
  /\ Day \in Nat \ {0} /\ FirstNow \in Nat /\ MaxNow \in Nat
  /\ Total \in Nat /\ Thresholds \in [1..3 -> Nat] /\ SampleLimit \in Nat /\ SampleTimes \subseteq Int
  /\ MaxEnqueues \in Nat
  /\ LogSizes \subseteq Nat /\ FileSizes \subseteq Nat
  /\ Retention \in Nat /\ MaxRestoreNow \in Nat
  /\ MaxSnapshots \in Nat /\ MaxSnapshotId \in Nat
  /\ Today \in Nat

VARIABLES
  active,
  last, history, passed,                              (* PurgeDaemon     *)
  now, crontab,                                       (* CronManager     *)
  samples, seen,                                      (* DiskWatcher     *)
  targets, enqueued, working, wiped, cancelled, replaced,   (* WipeQueue *)
  ops, total_bytes_archived, total_bytes_saved, owed, queuings,  (* LogArchiver *)
  today, backups, statuses, swept,                    (* RestoreManager  *)
  snapshots, next_id, deleted,                        (* SnapshotManager *)
  files, total_size                                   (* AgeIndex        *)

Daemon == INSTANCE PurgeDaemon WITH
  interval <- DaemonInterval, max_history <- DaemonHistory, Times <- DaemonTimes
Cron == INSTANCE CronManager WITH Names <- CronNames, tasks <- crontab
Disk == INSTANCE DiskWatcher WITH
  history_limit <- SampleLimit, Times <- SampleTimes, history <- samples
Queue == INSTANCE WipeQueue
Archiver == INSTANCE LogArchiver WITH Sizes <- LogSizes
Restores == INSTANCE RestoreManager WITH MaxNow <- MaxRestoreNow, now <- today
Snapshots == INSTANCE SnapshotManager WITH
  max_snapshots <- MaxSnapshots, MaxId <- MaxSnapshotId
Ages == INSTANCE AgeIndex WITH Sizes <- FileSizes

daemonVars == <<last, history, passed>>
cronVars == <<now, crontab>>
diskVars == <<samples, seen>>
queueVars == <<targets, enqueued, working, wiped, cancelled, replaced>>
archiverVars == <<ops, total_bytes_archived, total_bytes_saved, owed, queuings>>
restoreVars == <<today, backups, statuses, swept>>
snapshotVars == <<snapshots, next_id, deleted>>
ageVars == <<files, total_size>>

allVars == <<active, vars, daemonVars, cronVars, diskVars, queueVars, archiverVars,
             restoreVars, snapshotVars, ageVars>>

BookInit ==
  /\ active \in Active
  /\ Init /\ Daemon!Init /\ Cron!Init /\ Disk!Init /\ Queue!Init /\ Archiver!Init
  /\ Restores!Init /\ Snapshots!Init /\ Ages!Init

(* Whatever is not the active structure rests. *)
Rests(part, itsVars) == IF active = part THEN TRUE ELSE UNCHANGED itsVars

Only(part) ==
  /\ active = part
  /\ UNCHANGED active
  /\ Rests("tasks", vars)
  /\ Rests("daemon", daemonVars)
  /\ Rests("cron", cronVars)
  /\ Rests("disk", diskVars)
  /\ Rests("queue", queueVars)
  /\ Rests("archiver", archiverVars)
  /\ Rests("restores", restoreVars)
  /\ Rests("snapshots", snapshotVars)
  /\ Rests("ages", ageVars)

BookNext ==
  \/ Only("tasks") /\ Next
  \/ Only("daemon") /\ Daemon!Next
  \/ Only("cron") /\ Cron!Next
  \/ Only("disk") /\ Disk!Next
  \/ Only("queue") /\ Queue!Next
  \/ Only("archiver") /\ Archiver!Next
  \/ Only("restores") /\ Restores!Next
  \/ Only("snapshots") /\ Snapshots!Next
  \/ Only("ages") /\ Ages!Next

BookSpec == BookInit /\ [][BookNext]_allVars

-----------------------------------------------------------------------------
(* PurgeDaemon: while a kind of cleanup is due, no other runs twice before *)
(* it.                                                                     *)
NobodyPassedTwice == Daemon!NobodyPassedTwice

(* CronManager: a daily task that has run is due just if its hour has      *)
(* struck since.                                                           *)
DueOncePerStriking == Cron!DueOncePerStriking

(* DiskWatcher: alarms and forecasts are about the newest observations.    *)
ConclusionsAreCurrent == Disk!ConclusionsAreCurrent

(* WipeQueue: a target is wiped by one worker at most, never once it was   *)
(* cancelled, and its state says what became of it.                        *)
WipedAtMostOnce == Queue!WipedAtMostOnce

(* RestoreManager: what was too old at a sweep is not offered again.       *)
SweptIsNotOffered == Restores!SweptIsNotOffered

(* SnapshotManager: an id finds its snapshot until it is deleted or pushed *)
(* out by enough newer ones.                                               *)
SnapshotsAreFound == Snapshots!SnapshotsAreFound

(* LogArchiver and AgeIndex: the totals that are kept up to date call by   *)
(* call and never recomputed are those of what is there. The fraction of   *)
(* bytes saved is a fraction, if no id is used twice, and the indexed size *)
(* is the sum of what is indexed.                                          *)
RunningTotalsHold == Archiver!SavingIsAFraction /\ Ages!TotalsAgree
=============================================================================
