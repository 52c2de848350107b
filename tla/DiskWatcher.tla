---------------------------- MODULE DiskWatcher ----------------------------
(***************************************************************************)
(* disk_watcher::DiskWatcher (src/disk_watcher.rs): one bounded history of *)
(* usage samples over all mounts, and what is concluded from it. A mount   *)
(* has Total blocks; usage_percent is severity's business, so thresholds   *)
(* are given in blocks.                                                    *)
(***************************************************************************)
EXTENDS Integers, Sequences

CONSTANTS
  Mounts, Total,
  Thresholds,    (* warn, critical, emergency                              *)
  history_limit,
  Times          (* clock readings samples may carry, in any order         *)

VARIABLES
  history,       (* samples, oldest first                                  *)
  seen           (* ghost: the last two samples observed of each mount     *)

vars == <<history, seen>>

Sample == [mount : Mounts, used : 0..Total, at : Times]

(* DiskSeverity::Ok is 0, Emergency is 3. The thresholds are tried from    *)
(* the worst down, whatever order they are configured in.                  *)
Severity(s) ==
  IF s.used >= Thresholds[3] THEN 3
  ELSE IF s.used >= Thresholds[2] THEN 2
  ELSE IF s.used >= Thresholds[1] THEN 1 ELSE 0

Recommend(severity) ==
  <<"None", "PurgeTempFiles", "PurgeTempAndCache", "EmergencyWipe">>[severity + 1]

TypeOK ==
  /\ history \in Seq(Sample) /\ Len(history) <= history_limit
  /\ seen \in [Mounts -> Seq(Sample)]

Init ==
  /\ history = <<>>
  /\ seen = [m \in Mounts |-> <<>>]

Remember(s) ==
  seen' = [seen EXCEPT ![s.mount] = Append(IF Len(@) = 2 THEN Tail(@) ELSE @, s)]

(* Slip: a full history takes nothing more. *)
ObserveIfRoom(s) ==
  /\ history' = IF Len(history) < history_limit THEN Append(history, s) ELSE history
  /\ Remember(s)

(* The oldest sample goes, of whatever mount it is. *)
Observe(s) ==
  /\ history' = LET h == Append(history, s) IN IF Len(h) > history_limit THEN Tail(h) ELSE h
  /\ Remember(s)

Next == \E s \in Sample : Observe(s)

(* The last sample of the mount before place k. *)
LastBefore(m, k) ==
  {i \in DOMAIN history : /\ i < k /\ history[i].mount = m
                          /\ \A j \in DOMAIN history : i < j /\ j < k => history[j].mount # m}

Newest(m) == LastBefore(m, Len(history) + 1)

LatestFor(m) == {history[i] : i \in Newest(m)}

LatestTwo(m) == {p \in Newest(m) \X DOMAIN history : p[2] \in LastBefore(m, p[1])}

(* Blocks over time, of the two most recent samples of the mount; none if  *)
(* the clock did not advance between them.                                 *)
GrowthRate(m) ==
  LET Between(p) == [used |-> history[p[1]].used - history[p[2]].used,
                     at |-> history[p[1]].at - history[p[2]].at]
  IN  {r \in {Between(p) : p \in LatestTwo(m)} : r.at > 0}

EstimatedTimeToFull(m) ==
  {((Total - l.used) * r.at) \div r.used : l \in LatestFor(m), r \in {x \in GrowthRate(m) : x.used > 0}}

(* Newest first, each mount judged by the first sample met of it. *)
MountsAtOrAbove(severity) ==
  {m \in Mounts : \E i \in Newest(m) : Severity(history[i]) >= severity}

-----------------------------------------------------------------------------
(* What is concluded of a mount is concluded from the newest samples ever  *)
(* observed of it, however many other mounts report and push samples out:  *)
(* no alarm about, and no wipe recommended for, usage since superseded, no *)
(* forecast from other than the last two readings, and no forecast at all  *)
(* while usage falls or the clock stands.                                  *)
ConclusionsAreCurrent ==
  \A m \in Mounts : LET s == seen[m] n == Len(s) IN
    /\ LatestFor(m) # {} => n > 0 /\ LatestFor(m) = {s[n]}
    /\ \A v \in 0..3 : m \in MountsAtOrAbove(v) =>
         n > 0 /\ Severity(s[n]) >= v /\ (Recommend(Severity(s[n])) = "None" => v = 0)
    /\ \A eta \in EstimatedTimeToFull(m) :
         /\ n = 2 /\ s[1].at < s[2].at /\ s[1].used < s[2].used
         /\ eta = ((Total - s[2].used) * (s[2].at - s[1].at)) \div (s[2].used - s[1].used)
=============================================================================
