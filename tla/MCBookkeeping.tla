--------------------------- MODULE MCBookkeeping ---------------------------
(* Every structure at a size where its list, its clock or its counters     *)
(* reach their limits.                                                     *)
EXTENDS Bookkeeping

CONSTANTS a, b, c

(* The default 24, 72, 168 and 168 hours, in days, cut at three.           *)
MCDaemonInterval == [BrowserClean |-> 1, SystemClean |-> 2, DedupScan |-> 3, PrivacyAudit |-> 3]

(* Days of three hours; 4 is an hour no day has.                           *)
MCSchedules ==
  [kind : {"daily"}, n : {0, 2, 4}] \cup [kind : {"interval"}, n : {0, 1}]
  \cup [kind : {"session"}, n : {0}]

MCThresholds == <<1, 2, 3>>
=============================================================================
