---------------------------- MODULE CronManager ----------------------------
(***************************************************************************)
(* cron_manager::CronManager (src/cron_manager.rs): tasks by name, each    *)
(* with the time it is to run next. Time is counted in hours since the     *)
(* epoch and does not go back; a day has Day hours.                        *)
(***************************************************************************)
EXTENDS Integers

CONSTANTS Names, Schedules, Day, FirstNow, MaxNow

VARIABLES
  now,         (* Utc::now()                                               *)
  tasks        (* name -> task, or Absent                                  *)

vars == <<now, tasks>>

Absent == [name |-> "absent"]
Never == -1

(* Schedules are given in the hours they take: "interval" 0 is an Interval *)
(* of 0 minutes, Hourly and OnIdle are "interval" 1. OnLogin and OnLogout  *)
(* are triggered from outside and put off by `year`.                       *)
Daily(hour) == [kind |-> "daily", n |-> hour]
Interval(n) == [kind |-> "interval", n |-> n]
OnSession == [kind |-> "session", n |-> 0]

year == 365 * Day

Midnight(t) == (t \div Day) * Day

(* Slip: an occurrence at this very moment still counts as to come. *)
NextDailyInclusive(hour, t) ==
  LET today == IF hour < Day THEN Midnight(t) + hour ELSE 0
  IN IF today < t THEN today + Day ELSE today

(* An hour that no day has makes the date fall back to the epoch, and the  *)
(* day that is then added does not bring it to the present.                *)
NextDaily(hour, t) ==
  LET today == IF hour < Day THEN Midnight(t) + hour ELSE 0
  IN IF today <= t THEN today + Day ELSE today

CalculateNextRun(s, t) ==
  CASE s.kind = "daily" -> NextDaily(s.n, t)
    [] s.kind = "interval" -> t + s.n
    [] s.kind = "session" -> t + year

Known == {n \in Names : tasks[n] # Absent}

DueTasks == {n \in Known : tasks[n].enabled /\ tasks[n].next_run <= now}

TypeOK ==
  /\ now \in FirstNow..MaxNow
  /\ \A n \in Known : tasks[n] \in [schedule : Schedules, last_run : {Never} \cup (FirstNow..MaxNow),
                                    next_run : Nat, enabled : BOOLEAN]

Init ==
  /\ now = FirstNow
  /\ tasks = [n \in Names |-> Absent]

(* add replaces a task of that name. The tasks default_daily_tasks adds    *)
(* are such: due at once, then daily.                                      *)
Add(n, s) ==
  /\ tasks' = [tasks EXCEPT ![n] = [schedule |-> s, last_run |-> Never,
                                    next_run |-> now, enabled |-> TRUE]]
  /\ UNCHANGED now

Remove(n) ==
  /\ n \in Known
  /\ tasks' = [tasks EXCEPT ![n] = Absent]
  /\ UNCHANGED now

(* Any task may be marked, due or not; the time is that of its completion. *)
MarkCompleted(n) ==
  /\ n \in Known
  /\ tasks' = [tasks EXCEPT ![n].last_run = now,
                            ![n].next_run = CalculateNextRun(tasks[n].schedule, now)]
  /\ UNCHANGED now

SetEnabled(n, on) ==
  /\ n \in Known
  /\ tasks' = [tasks EXCEPT ![n].enabled = on]
  /\ UNCHANGED now

Tick == /\ now < MaxNow
        /\ now' = now + 1
        /\ UNCHANGED tasks

Next ==
  \/ \E n \in Names, s \in Schedules : Add(n, s)
  \/ \E n \in Names : Remove(n) \/ MarkCompleted(n) \/ SetEnabled(n, TRUE) \/ SetEnabled(n, FALSE)
  \/ Tick

-----------------------------------------------------------------------------
(* A daily task that has run is due when, and only when, its hour has      *)
(* struck since: it is neither run twice for one striking, however long it *)
(* takes and whenever it is completed, nor does it miss one while it is    *)
(* disabled or the program is away.                                        *)
DueOncePerStriking ==
  \A n \in Known : LET t == tasks[n] IN
    t.enabled /\ t.last_run # Never /\ t.schedule.kind = "daily" /\ t.schedule.n < Day =>
      (n \in DueTasks <=> \E h \in t.last_run + 1 .. now : h % Day = t.schedule.n)
=============================================================================
