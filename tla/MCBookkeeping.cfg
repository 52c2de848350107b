SPECIFICATION BookSpec
CONSTANTS
  a = a
  b = b
  c = c
  Active = {"tasks", "daemon", "cron", "disk", "queue", "archiver", "restores", "snapshots", "ages"}
  Names = {a, b, c}
  Intervals = {1, 2}
  Times = {1, 2, 3}
  DaemonInterval <- MCDaemonInterval
  DaemonHistory = 3
  DaemonTimes = {1, 2, 3, 4}
  CronNames = {a}
  Schedules <- MCSchedules
  Day = 3
  FirstNow = 6
  MaxNow = 15
  Mounts = {a, b}
  Total = 3
  Thresholds <- MCThresholds
  SampleLimit = 3
  SampleTimes = {0, 1}
  Ids = {a, b}
  MaxEnqueues = 2
  LogSizes = {1, 3}
  MaxQueued = 2
  Paths = {a, b}
  Retention = 1
  MaxRestoreNow = 3
  Hashes = {"x", "y"}
  MaxSnapshots = 2
  MaxSnapshotId = 4
  FileSizes = {1, 2}
  Today = 3
INVARIANTS
  OvertakenOnce
  NobodyPassedTwice
  DueOncePerStriking
  ConclusionsAreCurrent
  WipedAtMostOnce
  SweptIsNotOffered
  SnapshotsAreFound
  RunningTotalsHold
CHECK_DEADLOCK FALSE
