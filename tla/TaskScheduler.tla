--------------------------- MODULE TaskScheduler ---------------------------
(***************************************************************************)
(* scheduler::TaskScheduler (src/scheduler.rs 75-157, 255-275): named      *)
(* cleanup tasks, added, removed, enabled and disabled at any time, of     *)
(* which run_next executes the one whose deadline has passed longest ago.  *)
(* The time is whatever the caller passes: it may stand still or go back.  *)
(***************************************************************************)
EXTENDS Integers, Sequences

CONSTANTS
  Names,       (* names of tasks                                           *)
  Intervals,   (* interval_hours                                           *)
  Times        (* the hours callers may pass as now                        *)

(* With interval_hours = 0 a task is due again the moment it has run and   *)
(* may run any number of times before another that has the same deadline:  *)
(* the property below is about positive intervals.                         *)
ASSUME TimesAssumption ==
  /\ Intervals \subseteq Nat \ {0}
  /\ Times \subseteq Nat \ {0}

VARIABLES
  tasks,       (* the tasks in the order they were added                   *)
  overtaken    (* history: t -> u -> how often u was run while t was due,  *)
               (* since t last ran and since u was last added              *)

vars == <<tasks, overtaken>>

Never == 0

(* Counting stops here: two is one too many already. *)
MaxOvertaken == 2

Task == [name : Names, interval : Intervals, enabled : BOOLEAN,
         last_run : Times \cup {Never}, last_result : {"none", "success", "failure"}]

Indices == DOMAIN tasks
Known(n) == \E i \in Indices : tasks[i].name = n

(* A task that never ran has been due since the epoch. *)
Deadline(t) == IF t.last_run = Never THEN Never ELSE t.last_run + t.interval

IsDue(t, now) == t.enabled /\ now >= Deadline(t)

DueTasks(now) == {i \in Indices : IsDue(tasks[i], now)}

(* min_by_key: the earliest deadline, the first task on a tie. *)
MostOverdueIndex(now) ==
  {i \in DueTasks(now) : \A j \in DueTasks(now) :
     \/ Deadline(tasks[i]) < Deadline(tasks[j])
     \/ Deadline(tasks[i]) = Deadline(tasks[j]) /\ i <= j}

TypeOK ==
  /\ tasks \in Seq(Task)
  /\ \A i, j \in Indices : tasks[i].name = tasks[j].name => i = j
  /\ \A i \in Indices : tasks[i].last_run = Never <=> tasks[i].last_result = "none"
  /\ overtaken \in [Names -> [Names -> 0..MaxOvertaken]]

Init ==
  /\ tasks = <<>>
  /\ overtaken = [t \in Names |-> [u \in Names |-> 0]]

(***************************************************************************)
(* Task management.                                                        *)
(***************************************************************************)
Fresh(n, h) == [name |-> n, interval |-> h, enabled |-> TRUE,
                last_run |-> Never, last_result |-> "none"]

AddTask(n, h) ==
  /\ ~Known(n)
  /\ tasks' = Append(tasks, Fresh(n, h))
  /\ overtaken' = [t \in Names |-> [u \in Names |-> IF n \in {t, u} THEN 0 ELSE overtaken[t][u]]]

(* No two tasks have the same name, so retain drops one at most. *)
RemoveTask(n) ==
  /\ \E i \in Indices :
       /\ tasks[i].name = n
       /\ tasks' = SubSeq(tasks, 1, i - 1) \o SubSeq(tasks, i + 1, Len(tasks))
  /\ UNCHANGED overtaken

SetEnabled(n, on) ==
  /\ Known(n)
  /\ tasks' = [i \in Indices |->
                 IF tasks[i].name = n THEN [tasks[i] EXCEPT !.enabled = on] ELSE tasks[i]]
  /\ UNCHANGED overtaken

EnableTask(n) == SetEnabled(n, TRUE)
DisableTask(n) == SetEnabled(n, FALSE)

(***************************************************************************)
(* Execution.                                                              *)
(***************************************************************************)
Overtake(i, now) ==
  overtaken' = [t \in Names |-> [u \in Names |->
    IF t = tasks[i].name THEN 0
    ELSE IF /\ u = tasks[i].name
            /\ overtaken[t][u] < MaxOvertaken
            /\ \E j \in DueTasks(now) : tasks[j].name = t
      THEN overtaken[t][u] + 1
      ELSE overtaken[t][u]]]

(* Slip: a failed task keeps its old last_run, to be tried again. *)
RunNextRetrying(now) ==
  \E i \in MostOverdueIndex(now), result \in {"success", "failure"} :
    /\ tasks' = [tasks EXCEPT ![i].last_run = IF result = "success" THEN now ELSE @,
                              ![i].last_result = result]
    /\ Overtake(i, now)

(* last_run is set to now whether the task succeeded or not. *)
RunNext(now) ==
  \E i \in MostOverdueIndex(now), result \in {"success", "failure"} :
    /\ tasks' = [tasks EXCEPT ![i].last_run = now, ![i].last_result = result]
    /\ Overtake(i, now)

Next ==
  \/ \E n \in Names, h \in Intervals : AddTask(n, h)
  \/ \E n \in Names : RemoveTask(n) \/ EnableTask(n) \/ DisableTask(n)
  \/ \E now \in Times : RunNext(now)

Spec == Init /\ [][Next]_vars

-----------------------------------------------------------------------------
(* run_next starves nobody: while a task waits, due, each other task goes  *)
(* before it at most once, whatever the clock does and however tasks are   *)
(* enabled and disabled meanwhile.                                         *)
OvertakenOnce == \A t, u \in Names : overtaken[t][u] <= 1
=============================================================================
