------------------------- MODULE BookkeepingProofs -------------------------
(***************************************************************************)
(* Proofs about Bookkeeping!BookSpec: one inductive invariant for each of  *)
(* the structures, for any number of paths, targets, mounts and snapshots. *)
(***************************************************************************)
EXTENDS Bookkeeping, DataLemmas, FunctionTheorems, FiniteSetTheorems, SequenceTheorems, TLAPS

(* Whatever happens, a structure takes a step of its own or rests.         *)
LEMMA Parts ==
  ASSUME [BookNext]_allVars
  PROVE  /\ Next \/ UNCHANGED vars
         /\ Daemon!Next \/ UNCHANGED daemonVars
         /\ Cron!Next \/ UNCHANGED cronVars
         /\ Disk!Next \/ UNCHANGED diskVars
         /\ Queue!Next \/ UNCHANGED queueVars
         /\ Archiver!Next \/ UNCHANGED archiverVars
         /\ Restores!Next \/ UNCHANGED restoreVars
         /\ Snapshots!Next \/ UNCHANGED snapshotVars
         /\ Ages!Next \/ UNCHANGED ageVars
  <1>1. CASE UNCHANGED allVars
    BY <1>1 DEF allVars
  <1>2. CASE BookNext
    BY <1>2, Zenon DEF BookNext, Only, Rests
  <1> QED
    BY <1>1, <1>2

-----------------------------------------------------------------------------
(***************************************************************************)
(* TaskScheduler, for any names, intervals and times.  The invariant that  *)
(* carries the proof is Behind: a task that has gone before another now    *)
(* has the later deadline of the two.                                      *)
(***************************************************************************)
Behind ==
  \A i, j \in Indices :
    i # j /\ overtaken[tasks[i].name][tasks[j].name] > 0 =>
      Deadline(tasks[j]) > Deadline(tasks[i])

IInv == TypeOK /\ OvertakenOnce /\ Behind

(* What remove_task leaves: every task but one, in the same order.         *)
LEMMA WithoutOne ==
  ASSUME NEW T, NEW s \in Seq(T), NEW i \in 1..Len(s)
  PROVE  LET r == SubSeq(s, 1, i - 1) \o SubSeq(s, i + 1, Len(s))
         IN  /\ r \in Seq(T)
             /\ Len(r) = Len(s) - 1
             /\ \A j \in 1..Len(r) : r[j] = IF j < i THEN s[j] ELSE s[j + 1]
<1> DEFINE p == SubSeq(s, 1, i - 1)  q == SubSeq(s, i + 1, Len(s))
<1>1. p \in Seq(T) /\ Len(p) = i - 1 /\ \A j \in 1..(i - 1) : p[j] = s[j]
  OBVIOUS
<1>2. /\ q \in Seq(T) /\ Len(q) = Len(s) - i
      /\ \A j \in 1..(Len(s) - i) : q[j] = s[i + j]
  OBVIOUS
<1> HIDE DEF p, q
<1>3. p \o q \in Seq(T) /\ Len(p \o q) = Len(s) - 1
  <2>1. p \in Seq(T) /\ q \in Seq(T)
    BY <1>1, <1>2
  <2>2. p \o q \in Seq(T)
    BY <2>1
  <2>3. Len(p \o q) = Len(p) + Len(q)
    BY <2>1
  <2> QED BY <2>2, <2>3, <1>1, <1>2
<1>4. ASSUME NEW j \in 1..Len(p \o q)
      PROVE  (p \o q)[j] = IF j < i THEN s[j] ELSE s[j + 1]
  <2>1. CASE j < i
    BY <2>1, <1>1, <1>2, <1>3
  <2>2. CASE ~(j < i)
    <3>1. (p \o q)[j] = q[j - (i - 1)]
      BY <2>2, <1>1, <1>2, <1>3
    <3>2. j - (i - 1) \in 1..(Len(s) - i) /\ i + (j - (i - 1)) = j + 1
      BY <2>2, <1>3
    <3>3. q[j - (i - 1)] = s[j + 1]
      BY <3>2, <1>2
    <3> QED BY <3>1, <3>3, <2>2
  <2> QED BY <2>1, <2>2
<1> QED BY <1>3, <1>4 DEF p, q

LEMMA DeadlineType ==
  ASSUME NEW t \in Task
  PROVE  Deadline(t) \in Nat
<1>1. t.last_run \in Nat /\ t.interval \in Nat
  <2>1. t.last_run \in Times \cup {0} /\ t.interval \in Intervals
    BY DEF Task, Never
  <2>2. \A n \in Times \cup {0} : n \in Nat
    BY TimesAssumption
  <2>3. \A n \in Intervals : n \in Nat
    BY TimesAssumption
  <2> QED BY <2>1, <2>2, <2>3
<1> QED BY <1>1 DEF Deadline, Never

LEMMA InitInv == Init => IInv
BY DEF Init, IInv, TypeOK, OvertakenOnce, Behind, Indices, Task, MaxOvertaken

LEMMA AddTaskInv ==
  ASSUME IInv, NEW n \in Names, NEW h \in Intervals, AddTask(n, h)
  PROVE  IInv'
<1> USE DEF Indices
<1>1. Fresh(n, h) \in Task
  BY DEF Fresh, Task
<1>2. /\ tasks' \in Seq(Task) /\ Len(tasks') = Len(tasks) + 1
      /\ \A i \in Indices : tasks'[i] = tasks[i]
      /\ tasks'[Len(tasks) + 1] = Fresh(n, h)
  BY <1>1 DEF AddTask, IInv, TypeOK
<1>3. \A i \in Indices : tasks[i].name # n /\ tasks[i] \in Task
  BY DEF AddTask, Known, IInv, TypeOK
<1>4. \A t, u \in Names : overtaken'[t][u] = IF n \in {t, u} THEN 0 ELSE overtaken[t][u]
  BY DEF AddTask
<1>5. TypeOK'
  <2>1. ASSUME NEW i \in Indices', NEW j \in Indices', tasks'[i].name = tasks'[j].name
        PROVE  i = j
    BY <2>1, <1>2, <1>3 DEF IInv, TypeOK, Fresh
  <2>2. ASSUME NEW i \in Indices'
        PROVE  tasks'[i].last_run = Never <=> tasks'[i].last_result = "none"
    BY <1>2 DEF IInv, TypeOK, Fresh
  <2>3. overtaken' \in [Names -> [Names -> 0..MaxOvertaken]]
    BY DEF AddTask, IInv, TypeOK, MaxOvertaken
  <2> QED BY <1>2, <2>1, <2>2, <2>3 DEF TypeOK
<1>6. OvertakenOnce'
  BY <1>4 DEF IInv, OvertakenOnce
<1>7. Behind'
  <2> SUFFICES ASSUME NEW i \in Indices', NEW j \in Indices', i # j,
                      overtaken'[tasks'[i].name][tasks'[j].name] > 0
               PROVE  Deadline(tasks'[j]) > Deadline(tasks'[i])
    BY DEF Behind, Deadline
  <2>1. tasks'[i].name \in Names /\ tasks'[j].name \in Names
    <3>1. tasks'[i] \in Task /\ tasks'[j] \in Task
      BY <1>2
    <3> QED BY <3>1 DEF Task
  <2>2. n \notin {tasks'[i].name, tasks'[j].name}
    BY <2>1, <1>4
  <2>3. i \in Indices /\ j \in Indices
    BY <2>2, <1>2 DEF Fresh, IInv, TypeOK
  <2> QED BY <2>1, <2>2, <2>3, <1>2, <1>4 DEF IInv, Behind
<1> QED BY <1>5, <1>6, <1>7 DEF IInv

LEMMA RemoveTaskInv ==
  ASSUME IInv, NEW n \in Names, RemoveTask(n)
  PROVE  IInv'
<1> USE DEF Indices
<1>1. PICK i \in Indices :
        tasks' = SubSeq(tasks, 1, i - 1) \o SubSeq(tasks, i + 1, Len(tasks))
  BY DEF RemoveTask
<1> DEFINE old(j) == IF j < i THEN j ELSE j + 1
<1>2. tasks \in Seq(Task) /\ i \in 1..Len(tasks)
  BY DEF IInv, TypeOK
<1>3. /\ tasks' \in Seq(Task) /\ Len(tasks') = Len(tasks) - 1
      /\ \A j \in 1..Len(tasks') : tasks'[j] = IF j < i THEN tasks[j] ELSE tasks[j + 1]
  BY <1>1, <1>2, WithoutOne
<1>4. \A j \in Indices' : old(j) \in Indices /\ tasks'[j] = tasks[old(j)]
  BY <1>2, <1>3
<1>5. \A j, k \in Indices' : old(j) = old(k) => j = k
  BY <1>2, <1>3
<1>6. UNCHANGED overtaken
  BY DEF RemoveTask
<1> HIDE DEF old
<1>7. TypeOK'
  BY <1>3, <1>4, <1>5, <1>6 DEF IInv, TypeOK
<1>8. Behind'
  BY <1>4, <1>5, <1>6 DEF IInv, Behind, Deadline
<1> QED BY <1>6, <1>7, <1>8 DEF IInv, OvertakenOnce

LEMMA SetEnabledInv ==
  ASSUME IInv, NEW n \in Names, NEW on \in BOOLEAN, SetEnabled(n, on)
  PROVE  IInv'
<1> USE DEF Indices
<1>1. tasks \in Seq(Task) /\ Indices = 1..Len(tasks)
  BY DEF IInv, TypeOK
<1>2. ASSUME NEW i \in Indices
      PROVE  /\ tasks'[i] \in Task /\ tasks'[i].name = tasks[i].name
             /\ tasks'[i].last_run = tasks[i].last_run
             /\ tasks'[i].last_result = tasks[i].last_result
             /\ Deadline(tasks'[i]) = Deadline(tasks[i])
  <2>1. tasks[i] \in Task
    BY <1>1
  <2>2. tasks'[i] = IF tasks[i].name = n THEN [tasks[i] EXCEPT !.enabled = on] ELSE tasks[i]
    BY DEF SetEnabled
  <2> QED BY <2>1, <2>2 DEF Task, Deadline
<1>3. tasks' \in Seq(Task) /\ Indices' = Indices
  <2>1. tasks' = [i \in 1..Len(tasks) |-> tasks'[i]] 
    BY <1>1 DEF SetEnabled
  <2>2. tasks' \in [1..Len(tasks) -> Task]
    BY <2>1, <1>1, <1>2
  <2> QED BY <2>2, <1>1
<1>4. UNCHANGED overtaken
  BY DEF SetEnabled
<1>5. TypeOK'
  BY <1>2, <1>3, <1>4 DEF IInv, TypeOK
<1>6. Behind'
  BY <1>2, <1>3, <1>4 DEF IInv, Behind
<1> QED BY <1>4, <1>5, <1>6 DEF IInv, OvertakenOnce

LEMMA RunNextInv ==
  ASSUME IInv, NEW time \in Times, RunNext(time)
  PROVE  IInv'
<1> USE DEF Indices
<1>1. PICK i \in MostOverdueIndex(time), result \in {"success", "failure"} :
        /\ tasks' = [tasks EXCEPT ![i].last_run = time, ![i].last_result = result]
        /\ Overtake(i, time)
  BY DEF RunNext
<1> DEFINE done == [tasks[i] EXCEPT !.last_run = time, !.last_result = result]
<1>2. /\ tasks \in Seq(Task) /\ Indices = 1..Len(tasks)
      /\ \A j \in Indices : tasks[j] \in Task /\ Deadline(tasks[j]) \in Nat
  BY DeadlineType DEF IInv, TypeOK
<1>3. /\ i \in Indices /\ time >= Deadline(tasks[i])
      /\ \A j \in DueTasks(time) : Deadline(tasks[i]) <= Deadline(tasks[j])
  BY <1>2 DEF MostOverdueIndex, DueTasks, IsDue
<1>4. /\ tasks' \in Seq(Task) /\ Indices' = Indices
      /\ tasks'[i] = done
      /\ \A j \in Indices \ {i} : tasks'[j] = tasks[j]
  <2>1. done \in Task
    BY <1>2, <1>3 DEF Task
  <2>2. tasks' = [tasks EXCEPT ![i] = done]
    BY <1>1, <1>2, <1>3
  <2> QED BY <2>1, <2>2, <1>2, <1>3
<1>5. /\ \A j \in Indices : tasks'[j].name = tasks[j].name
      /\ time \in Nat \ {0} /\ tasks[i].interval \in Nat \ {0}
      /\ Deadline(tasks'[i]) = time + tasks[i].interval
  <2>1. tasks[i] \in Task
    BY <1>2, <1>3
  <2>2. done.name = tasks[i].name /\ done.last_run = time /\ done.interval = tasks[i].interval
    BY <2>1 DEF Task
  <2>3. time \in Nat \ {0}
    BY TimesAssumption
  <2>4. tasks[i].interval \in Intervals
    BY <2>1 DEF Task
  <2>5. tasks[i].interval \in Nat \ {0}
    BY <2>4, TimesAssumption
  <2>6. Deadline(tasks'[i]) = time + tasks[i].interval
    BY <1>4, <2>2, <2>3 DEF Deadline, Never
  <2> QED BY <1>4, <2>2, <2>3, <2>5, <2>6
<1>6. \A t, u \in Names :
        overtaken'[t][u] =
          IF t = tasks[i].name THEN 0
          ELSE IF /\ u = tasks[i].name
                  /\ overtaken[t][u] < MaxOvertaken
                  /\ \E j \in DueTasks(time) : tasks[j].name = t
            THEN overtaken[t][u] + 1
            ELSE overtaken[t][u]
  BY <1>1 DEF Overtake
<1>7. ASSUME NEW j \in DueTasks(time), j # i
      PROVE  overtaken[tasks[j].name][tasks[i].name] = 0
  <2>1. j \in Indices /\ Deadline(tasks[i]) <= Deadline(tasks[j])
    BY <1>3 DEF DueTasks
  <2>2. ~(overtaken[tasks[j].name][tasks[i].name] > 0)
    BY <2>1, <1>2, <1>3, <1>7 DEF IInv, Behind
  <2>3. overtaken[tasks[j].name][tasks[i].name] \in 0..MaxOvertaken
    BY <2>1, <1>2, <1>3 DEF IInv, TypeOK, Task
  <2> QED BY <2>2, <2>3 DEF MaxOvertaken
<1>8. TypeOK'
  <2>1. overtaken' \in [Names -> [Names -> 0..MaxOvertaken]]
    <3>1. \A t, u \in Names : overtaken'[t][u] \in 0..MaxOvertaken
      BY <1>6 DEF IInv, TypeOK, MaxOvertaken
    <3> QED BY <1>1, <3>1 DEF Overtake
  <2>2. \A j \in Indices : tasks'[j].last_run = Never <=> tasks'[j].last_result = "none"
    <3>1. tasks'[i].last_run = time /\ tasks'[i].last_result = result
      BY <1>2, <1>3, <1>4 DEF Task
    <3>2. ~(tasks'[i].last_run = Never) /\ ~(tasks'[i].last_result = "none")
      BY <3>1, <1>5 DEF Never
    <3> QED BY <3>2, <1>4 DEF IInv, TypeOK
  <2> QED BY <2>1, <2>2, <1>4, <1>5 DEF IInv, TypeOK
<1>9. OvertakenOnce'
  <2> SUFFICES ASSUME NEW t \in Names, NEW u \in Names
               PROVE  overtaken'[t][u] <= 1
    BY DEF OvertakenOnce
  <2>1. CASE t # tasks[i].name /\ u = tasks[i].name /\ \E j \in DueTasks(time) : tasks[j].name = t
    <3>1. overtaken[t][u] = 0
      BY <2>1, <1>7
    <3> QED BY <3>1, <1>6
  <2>2. CASE ~(t # tasks[i].name /\ u = tasks[i].name /\ \E j \in DueTasks(time) : tasks[j].name = t)
    BY <2>2, <1>6 DEF IInv, OvertakenOnce
  <2> QED BY <2>1, <2>2
<1>10. Behind'
  <2> SUFFICES ASSUME NEW j \in Indices, NEW k \in Indices, j # k,
                      overtaken'[tasks[j].name][tasks[k].name] > 0
               PROVE  Deadline(tasks'[k]) > Deadline(tasks'[j])
    BY <1>4, <1>5 DEF Behind
  <2>1. tasks[j].name \in Names /\ tasks[k].name \in Names
    BY <1>2 DEF Task
  <2>2. j # i
    BY <2>1, <1>6
  <2>3. tasks'[j] = tasks[j] /\ tasks[j].name # tasks[i].name
    BY <2>2, <1>3, <1>4 DEF IInv, TypeOK
  <2>4. CASE k = i
    <3>1. CASE overtaken[tasks[j].name][tasks[i].name] > 0
      BY <3>1, <2>2, <2>3, <2>4, <1>2, <1>3, <1>5 DEF IInv, Behind
    <3>2. CASE ~(overtaken[tasks[j].name][tasks[i].name] > 0)
      <4>1. PICK m \in DueTasks(time) : tasks[m].name = tasks[j].name
        BY <3>2, <2>1, <2>3, <2>4, <1>6
      <4>2. m = j
        BY <4>1 DEF DueTasks, IInv, TypeOK
      <4>3. time >= Deadline(tasks[j])
        BY <4>2 DEF DueTasks, IsDue
      <4> QED BY <4>3, <2>3, <2>4, <1>2, <1>5
    <3> QED BY <3>1, <3>2
  <2>5. CASE k # i
    <3>1. tasks[k].name # tasks[i].name
      BY <2>5, <1>3 DEF IInv, TypeOK
    <3>2. overtaken[tasks[j].name][tasks[k].name] > 0
      BY <3>1, <2>1, <2>3, <1>6
    <3> QED BY <3>2, <2>3, <2>5, <1>4 DEF IInv, Behind
  <2> QED BY <2>4, <2>5
<1> QED BY <1>8, <1>9, <1>10 DEF IInv

LEMMA StepInv == IInv /\ [Next]_vars => IInv'
<1> SUFFICES ASSUME IInv, [Next]_vars PROVE IInv'
  OBVIOUS
<1>1. CASE \E n \in Names, h \in Intervals : AddTask(n, h)
  BY <1>1, AddTaskInv
<1>2. CASE \E n \in Names : RemoveTask(n)
  BY <1>2, RemoveTaskInv
<1>3. CASE \E n \in Names : EnableTask(n) \/ DisableTask(n)
  BY <1>3, SetEnabledInv DEF EnableTask, DisableTask
<1>4. CASE \E time \in Times : RunNext(time)
  BY <1>4, RunNextInv
<1>5. CASE UNCHANGED vars
  BY <1>5 DEF vars, IInv, TypeOK, OvertakenOnce, Behind, Indices, Deadline
<1> QED BY <1>1, <1>2, <1>3, <1>4, <1>5 DEF Next

(* Task names stay unique, a task has a result exactly when it has run,    *)
(* and the state stays well typed.                                         *)
THEOREM TypeCorrect == Spec => []TypeOK
BY InitInv, StepInv, PTL DEF Spec, IInv

(* Whatever times callers pass, whatever is added, removed, enabled and    *)
(* disabled, a due task is passed over at most once by each other task.    *)
THEOREM NobodyStarves == BookSpec => []OvertakenOnce
<1>1. BookInit => Init
  BY DEF BookInit
<1>2. [BookNext]_allVars => [Next]_vars
  BY Parts, Zenon
<1> QED BY <1>1, <1>2, InitInv, StepInv, PTL DEF BookSpec, IInv

-----------------------------------------------------------------------------
(***************************************************************************)
(* RestoreManager.                                                         *)
(***************************************************************************)
RestoreInv ==
  /\ today \in Nat
  /\ backups \in [Paths -> Int]
  /\ statuses \in [Paths -> Restores!Statuses]
  /\ swept \in [Paths -> Int]
  /\ SweptIsNotOffered

LEMMA StepRestores ==
  ASSUME RestoreInv, Restores!Next \/ UNCHANGED restoreVars
  PROVE  RestoreInv'
  <1> USE BookAssumption DEF RestoreInv, SweptIsNotOffered, Restores!SweptIsNotOffered,
        Restores!Available, Restores!Known, Restores!None, Restores!Statuses
  <1>1. CASE UNCHANGED restoreVars
    BY <1>1 DEF restoreVars
  <1>2. ASSUME NEW p \in Paths, NEW t \in 0..today, Restores!RegisterBackup(p, t)
        PROVE  RestoreInv'
    BY <1>2 DEF Restores!RegisterBackup
  <1>3. ASSUME NEW p \in Paths,
               Restores!StartRestore(p) \/ Restores!CompleteRestore(p) \/ Restores!FailRestore(p)
        PROVE  RestoreInv'
    BY <1>3 DEF Restores!StartRestore, Restores!CompleteRestore, Restores!FailRestore,
       Restores!EndRestore
  <1>4. CASE Restores!ExpireOld
    BY <1>4 DEF Restores!ExpireOld
  <1>5. CASE Restores!Tick
    BY <1>5 DEF Restores!Tick
  <1> QED
    BY <1>1, <1>2, <1>3, <1>4, <1>5 DEF Restores!Next

(* A backup that was too old at a sweep is not offered again until its     *)
(* path is registered anew.                                                *)
THEOREM SweptStaysSwept == BookSpec => []SweptIsNotOffered
  <1>1. BookInit => RestoreInv
    BY BookAssumption DEF BookInit, Restores!Init, RestoreInv, SweptIsNotOffered,
       Restores!SweptIsNotOffered, Restores!Available, Restores!Known, Restores!None,
       Restores!Statuses
  <1>2. RestoreInv /\ [BookNext]_allVars => RestoreInv'
    BY Parts, StepRestores
  <1>3. RestoreInv => SweptIsNotOffered
    BY DEF RestoreInv
  <1> QED
    BY <1>1, <1>2, <1>3, PTL DEF BookSpec

-----------------------------------------------------------------------------
(***************************************************************************)
(* PurgeDaemon.  A kind that has passed another, which is due, now has the *)
(* later deadline of the two: it cannot be chosen before the other again.  *)
(***************************************************************************)
LEMMA DaemonKinds ==
  /\ DOMAIN Daemon!Kinds = 1..4
  /\ Daemon!KindSet = {"BrowserClean", "SystemClean", "DedupScan", "PrivacyAudit"}
  /\ \A i \in 1..4 : Daemon!Kinds[i] \in Daemon!KindSet
  /\ \A k \in Daemon!KindSet : \E i \in 1..4 : k = Daemon!Kinds[i]
  BY DEF Daemon!Kinds, Daemon!KindSet

DaemonType ==
  /\ last \in [Daemon!KindSet -> DaemonTimes \cup {0}]
  /\ passed \in [Daemon!KindSet -> [Daemon!KindSet -> 0..2]]

DaemonInv ==
  /\ DaemonType
  /\ NobodyPassedTwice
  /\ \A t, u \in Daemon!KindSet : passed[t][u] > 0 => Daemon!Deadline(u) > Daemon!Deadline(t)

LEMMA DaemonConstants ==
  DaemonInterval \in [Daemon!KindSet -> Nat \ {0}] /\ DaemonTimes \subseteq Nat \ {0}
  <1>1. DaemonInterval \in [{"BrowserClean", "SystemClean", "DedupScan", "PrivacyAudit"} -> Nat \ {0}]
    BY BookAssumption, Zenon
  <1>2. DaemonTimes \subseteq Nat \ {0}
    BY BookAssumption, Zenon
  <1> QED
    BY <1>1, <1>2, DaemonKinds, Zenon

LEMMA DaemonDeadlineType ==
  ASSUME DaemonType, NEW k \in Daemon!KindSet
  PROVE  Daemon!Deadline(k) \in Nat
  <1>1. DaemonInterval[k] \in Nat /\ last[k] \in Nat
    <2>1. DaemonInterval[k] \in Nat
      BY DaemonConstants
    <2>2. last[k] \in DaemonTimes \cup {0}
      BY DEF DaemonType
    <2>3. DaemonTimes \subseteq Nat
      BY DaemonConstants
    <2>4. \A x \in DaemonTimes \cup {0} : x \in Nat
      BY <2>3
    <2> QED
      BY <2>1, <2>2, <2>4, Zenon
  <1> QED
    BY <1>1 DEF Daemon!Deadline, Daemon!Never

LEMMA EarliestChosen ==
  ASSUME DaemonType
  PROVE  /\ Daemon!NextActionDue \in Daemon!KindSet
         /\ \A k \in Daemon!KindSet : Daemon!Deadline(Daemon!NextActionDue) <= Daemon!Deadline(k)
  <1> DEFINE K == Daemon!Kinds
             First(i) == \A j \in DOMAIN K :
                           \/ Daemon!Deadline(K[i]) < Daemon!Deadline(K[j])
                           \/ Daemon!Deadline(K[i]) = Daemon!Deadline(K[j]) /\ i <= j
             c == CHOOSE i \in DOMAIN K : First(i)
  <1>1. Daemon!NextActionDue = K[c]
    BY Zenon DEF Daemon!NextActionDue
  <1>2. DOMAIN K = 1..4 /\ \A i \in 1..4 : Daemon!Deadline(K[i]) \in Nat
    BY DaemonKinds, DaemonDeadlineType
  <1> HIDE DEF K
  <1>3. \E i \in 1..4 : First(i)
    <2>1. ASSUME NEW i \in 1..4, \A j \in 1..4 : Daemon!Deadline(K[i]) <= Daemon!Deadline(K[j]),
                 \A j \in 1..4 : Daemon!Deadline(K[i]) = Daemon!Deadline(K[j]) => i <= j
          PROVE  First(i)
      BY <1>2, <2>1
    <2> DEFINE d1 == Daemon!Deadline(K[1])  d2 == Daemon!Deadline(K[2])
               d3 == Daemon!Deadline(K[3])  d4 == Daemon!Deadline(K[4])
    <2>2. d1 \in Nat /\ d2 \in Nat /\ d3 \in Nat /\ d4 \in Nat
      BY <1>2
    <2>3. \A j \in 1..4 : j = 1 \/ j = 2 \/ j = 3 \/ j = 4
      OBVIOUS
    <2> HIDE DEF First
    <2>4. CASE d1 <= d2 /\ d1 <= d3 /\ d1 <= d4
      <3>1. First(1)
        BY <2>1, <2>2, <2>3, <2>4
      <3> QED
        BY <3>1
    <2>5. CASE d2 < d1 /\ d2 <= d3 /\ d2 <= d4
      <3>1. First(2)
        BY <2>1, <2>2, <2>3, <2>5
      <3> QED
        BY <3>1
    <2>6. CASE d3 < d1 /\ d3 < d2 /\ d3 <= d4
      <3>1. First(3)
        BY <2>1, <2>2, <2>3, <2>6
      <3> QED
        BY <3>1
    <2>7. CASE d4 < d1 /\ d4 < d2 /\ d4 < d3
      <3>1. First(4)
        BY <2>1, <2>2, <2>3, <2>7
      <3> QED
        BY <3>1
    <2> HIDE DEF d1, d2, d3, d4
    <2> QED
      BY <2>2, <2>4, <2>5, <2>6, <2>7
  <1>4. c \in 1..4 /\ First(c)
    <2> HIDE DEF First
    <2> QED
      BY <1>2, <1>3
  <1> HIDE DEF c
  <1>5. ASSUME NEW k \in Daemon!KindSet PROVE Daemon!Deadline(K[c]) <= Daemon!Deadline(k)
    <2>1. PICK j \in 1..4 : k = K[j]
      BY DaemonKinds DEF K
    <2> QED
      BY <1>2, <1>4, <2>1
  <1>6. K[c] \in Daemon!KindSet
    BY <1>4, DaemonKinds DEF K
  <1> QED
    BY <1>1, <1>5, <1>6

(* ks run at `now` and end at `done`; whoever waits, due, waits at least   *)
(* as long as each of them.                                                *)
LEMMA StepDaemon ==
  ASSUME DaemonInv, NEW ks \in SUBSET Daemon!KindSet,
         NEW hour \in DaemonTimes, NEW done \in DaemonTimes, hour <= done,
         \A u \in ks, t \in Daemon!KindSet \ ks :
           Daemon!Overdue(t, hour) => Daemon!Deadline(u) <= Daemon!Deadline(t),
         \A u \in ks : Daemon!Overdue(u, hour),
         Daemon!RecordActions(ks, done), Daemon!Pass(ks, hour)
  PROVE  DaemonInv'
  <1>1. DaemonType /\ NobodyPassedTwice
    BY DEF DaemonInv
  <1>2. hour \in Nat /\ done \in Nat \ {0}
    BY DaemonConstants
  <1>3. /\ \A k \in Daemon!KindSet : last'[k] = IF k \in ks THEN done ELSE last[k]
        /\ last' \in [Daemon!KindSet -> DaemonTimes \cup {0}]
    BY <1>1 DEF Daemon!RecordActions, DaemonType
  <1>4. /\ \A t, u \in Daemon!KindSet : passed'[t][u] =
             IF t \in ks THEN 0
             ELSE IF u \in ks /\ Daemon!Overdue(t, hour) /\ passed[t][u] < 2 THEN passed[t][u] + 1
             ELSE passed[t][u]
        /\ passed' = [t \in Daemon!KindSet |-> [u \in Daemon!KindSet |-> passed'[t][u]]]
    BY Zenon DEF Daemon!Pass, Daemon!MaxPassed
  <1>5. \A t, u \in Daemon!KindSet : passed[t][u] \in 0..2
    BY <1>1 DEF DaemonType
  <1>6. \A t, u \in Daemon!KindSet : passed'[t][u] \in 0..2
    BY <1>4, <1>5
  <1>7. DaemonType'
    BY <1>3, <1>4, <1>6 DEF DaemonType
  <1>8. \A k \in Daemon!KindSet \ ks : Daemon!Deadline(k)' = Daemon!Deadline(k)
    BY <1>3 DEF Daemon!Deadline
  <1>9. \A k \in ks : Daemon!Deadline(k)' > done
    BY <1>2, <1>3, DaemonConstants DEF Daemon!Deadline, Daemon!Never
  <1>10. \A k \in Daemon!KindSet : Daemon!Deadline(k) \in Nat /\ Daemon!Deadline(k)' \in Nat
    <2>1. \A k \in Daemon!KindSet : Daemon!Deadline(k) \in Nat
      BY <1>1, DaemonDeadlineType
    <2>2. \A k \in Daemon!KindSet : Daemon!Deadline(k)' \in Nat
      <3> SUFFICES ASSUME NEW k \in Daemon!KindSet PROVE Daemon!Deadline(k)' \in Nat
        OBVIOUS
      <3>1. DaemonInterval[k] \in Nat /\ last'[k] \in Nat
        <4>1. DaemonInterval[k] \in Nat
          BY DaemonConstants
        <4>2. last'[k] \in DaemonTimes \cup {0}
          BY <1>3
        <4>3. DaemonTimes \subseteq Nat
          BY DaemonConstants
        <4>4. \A x \in DaemonTimes \cup {0} : x \in Nat
          BY <4>3
        <4> QED
          BY <4>1, <4>2, <4>4, Zenon
      <3> QED
        BY <3>1 DEF Daemon!Deadline, Daemon!Never
    <2> QED
      BY <2>1, <2>2
  (* Whoever is due and waits has not been passed by any of ks yet. *)
  <1>11. ASSUME NEW u \in ks, NEW t \in Daemon!KindSet \ ks PROVE passed[t][u] = 0
    <2>1. CASE Daemon!Overdue(t, hour)
      BY <2>1, <1>5, <1>10 DEF DaemonInv
    <2>2. CASE ~Daemon!Overdue(t, hour)
      <3>1. Daemon!Deadline(t) > hour /\ Daemon!Deadline(u) <= hour
        BY <1>2, <1>10, <2>2 DEF Daemon!Overdue
      <3> QED
        BY <1>2, <1>5, <1>10, <3>1 DEF DaemonInv
    <2> QED
      BY <2>1, <2>2
  <1> SUFFICES ASSUME NEW t \in Daemon!KindSet, NEW u \in Daemon!KindSet
               PROVE  /\ passed'[t][u] <= 1
                      /\ passed'[t][u] > 0 => Daemon!Deadline(u)' > Daemon!Deadline(t)'
    BY <1>7 DEF DaemonInv, NobodyPassedTwice, Daemon!NobodyPassedTwice
  <1>12. CASE t \in ks
    BY <1>4, <1>12
  <1>13. CASE t \notin ks /\ u \notin ks
    BY <1>1, <1>4, <1>8, <1>13 DEF DaemonInv, NobodyPassedTwice, Daemon!NobodyPassedTwice
  <1>14. CASE t \notin ks /\ u \in ks
    <2>1. passed[t][u] = 0
      BY <1>11, <1>14
    <2>2. CASE Daemon!Overdue(t, hour)
      <3>1. Daemon!Deadline(t) <= hour /\ Daemon!Deadline(t)' = Daemon!Deadline(t)
        BY <1>2, <1>8, <1>10, <1>14, <2>2 DEF Daemon!Overdue
      <3>2. Daemon!Deadline(u)' > Daemon!Deadline(t)'
        BY <1>2, <1>9, <1>10, <1>14, <3>1
      <3> QED
        BY <1>4, <1>14, <2>1, <2>2, <3>2
    <2>3. CASE ~Daemon!Overdue(t, hour)
      BY <1>4, <1>14, <2>1, <2>3
    <2> QED
      BY <2>2, <2>3
  <1> QED
    BY <1>12, <1>13, <1>14

(* Whether callers take one action at a time or all that are overdue, no   *)
(* kind of cleanup runs twice while another is due.                        *)
THEOREM NobodyWaitsTwice == BookSpec => []NobodyPassedTwice
  <1>1. BookInit => DaemonInv
    BY DaemonKinds DEF BookInit, Daemon!Init, DaemonInv, DaemonType, NobodyPassedTwice,
       Daemon!NobodyPassedTwice, Daemon!Never
  <1>2. DaemonInv /\ [BookNext]_allVars => DaemonInv'
    <2> SUFFICES ASSUME DaemonInv, [BookNext]_allVars PROVE DaemonInv'
      OBVIOUS
    <2>0. DaemonType
      BY DEF DaemonInv
    <2>1. CASE UNCHANGED daemonVars
      BY <2>1 DEF daemonVars, DaemonInv, DaemonType, NobodyPassedTwice,
         Daemon!NobodyPassedTwice, Daemon!Deadline
    <2>2. ASSUME NEW t \in DaemonTimes, NEW done \in DaemonTimes, Daemon!RunNext(t, done)
          PROVE  DaemonInv'
      <3>1. /\ t <= done /\ Daemon!Overdue(Daemon!NextActionDue, t)
            /\ Daemon!RecordActions({Daemon!NextActionDue}, done)
            /\ Daemon!Pass({Daemon!NextActionDue}, t)
        BY <2>2 DEF Daemon!RunNext
      <3>2. {Daemon!NextActionDue} \in SUBSET Daemon!KindSet
        BY <2>0, EarliestChosen
      <3>3. \A u \in {Daemon!NextActionDue}, k \in Daemon!KindSet \ {Daemon!NextActionDue} :
              Daemon!Overdue(k, t) => Daemon!Deadline(u) <= Daemon!Deadline(k)
        BY <2>0, EarliestChosen
      <3>4. \A u \in {Daemon!NextActionDue} : Daemon!Overdue(u, t)
        BY <3>1
      <3> QED
        BY <3>1, <3>2, <3>3, <3>4, StepDaemon
    <2>3. ASSUME NEW t \in DaemonTimes, NEW done \in DaemonTimes, Daemon!RunOverdue(t, done)
          PROVE  DaemonInv'
      <3>1. /\ t <= done /\ Daemon!RecordActions(Daemon!OverdueActions(t), done)
            /\ Daemon!Pass(Daemon!OverdueActions(t), t)
        BY <2>3 DEF Daemon!RunOverdue
      <3>2. /\ Daemon!OverdueActions(t) \in SUBSET Daemon!KindSet
            /\ \A u \in Daemon!OverdueActions(t) : Daemon!Overdue(u, t)
            /\ \A u \in Daemon!KindSet \ Daemon!OverdueActions(t) : ~Daemon!Overdue(u, t)
        BY DEF Daemon!OverdueActions
      <3> QED
        BY <3>1, <3>2, StepDaemon
    <2> QED
      BY <2>1, <2>2, <2>3, Parts DEF Daemon!Next
  <1>3. DaemonInv => NobodyPassedTwice
    BY DEF DaemonInv
  <1> QED
    BY <1>1, <1>2, <1>3, PTL DEF BookSpec

-----------------------------------------------------------------------------
(***************************************************************************)
(* WipeQueue.                                                              *)
(***************************************************************************)
QueueStates == {"Queued", "InProgress", "Completed", "Failed", "Cancelled"}

WipeTarget == [state : QueueStates, completed_at : BOOLEAN, error : BOOLEAN]

QueueType ==
  /\ targets \in [Ids -> WipeTarget \cup {Queue!Absent}]
  /\ enqueued \in [Ids -> Nat]
  /\ working \in Seq(Ids \X Nat)
  /\ wiped \subseteq Ids \X Nat /\ cancelled \subseteq Ids \X Nat

(* What the id stands for now, since it was last enqueued.                 *)
Current(i) == <<i, enqueued[i]>>

(* Nobody works at or has dealt with what is to be enqueued next.          *)
NoneAhead ==
  /\ \A k \in DOMAIN working : working[k][2] <= enqueued[working[k][1]]
  /\ \A x \in wiped \cup cancelled : x[2] <= enqueued[x[1]]

(* A queued target is untouched, a worker's target is known, and it is     *)
(* the one its id stands for unless the id was used again meanwhile.       *)
QueueInv ==
  /\ QueueType /\ WipedAtMostOnce /\ NoneAhead
  /\ \A i \in Queue!InState("Queued") :
       /\ Current(i) \notin wiped \cup cancelled
       /\ \A k \in DOMAIN working : working[k] # Current(i)
  /\ \A k \in DOMAIN working : working[k][1] \in Queue!Known
  /\ \A k \in DOMAIN working : working[k][1] \notin replaced => working[k] = Current(working[k][1])

LEMMA QueueFacts ==
  ASSUME QueueType
  PROVE  /\ \A i \in Ids : i \in Queue!Known <=> targets[i] \in WipeTarget
         /\ \A i \in Ids : i \in Queue!Known <=> targets[i] # Queue!Absent
         /\ \A k \in DOMAIN working :
              working[k] \in Ids \X Nat /\ working[k][1] \in Ids /\ working[k][2] \in Nat
         /\ DOMAIN working = 1..Len(working) /\ Len(working) \in Nat
  <1>1. \A x \in WipeTarget : x # Queue!Absent
    BY DEF WipeTarget, QueueStates, Queue!Absent
  <1>2. DOMAIN working = 1..Len(working) /\ Len(working) \in Nat
    BY LenProperties DEF QueueType
  <1>3. \A k \in DOMAIN working : working[k] \in Ids \X Nat
    BY <1>2, ElementOfSeq DEF QueueType
  <1> QED
    BY <1>1, <1>2, <1>3 DEF QueueType, Queue!Known

(* A step that leaves the workers where they are, and all targets but i.   *)
LEMMA WorkerGone ==
  ASSUME QueueType, NEW k \in DOMAIN working, working' = Queue!RemoveAt(working, k)
  PROVE  /\ working' \in Seq(Ids \X Nat)
         /\ \A j \in DOMAIN working' : \E m \in DOMAIN working : m # k /\ working'[j] = working[m]
         /\ \A m \in DOMAIN working : m # k => \E j \in DOMAIN working' : working'[j] = working[m]
         /\ (\A m, n \in DOMAIN working : working[m] = working[n] => m = n) =>
              \A m, n \in DOMAIN working' : working'[m] = working'[n] => m = n
  <1>1. /\ working \in Seq(Ids \X Nat) /\ DOMAIN working = 1..Len(working)
        /\ Len(working) \in Nat /\ k \in 1..Len(working)
    BY QueueFacts DEF QueueType
  <1>2. /\ working' \in Seq(Ids \X Nat) /\ Len(working') = Len(working) - 1
        /\ \A j \in 1..Len(working') :
             working'[j] = IF j < k THEN working[j] ELSE working[j + 1]
    BY <1>1, WithoutOne DEF Queue!RemoveAt
  <1>3. DOMAIN working' = 1..(Len(working) - 1)
    BY <1>2, LenProperties
  <1>4. ASSUME NEW m \in DOMAIN working, m # k
        PROVE  \E j \in DOMAIN working' : working'[j] = working[m]
    <2>1. CASE m < k
      <3>1. m \in DOMAIN working' /\ m \in 1..Len(working')
        BY <1>1, <1>2, <1>3, <2>1
      <3>2. working'[m] = working[m]
        BY <1>2, <2>1, <3>1
      <3> QED
        BY <3>1, <3>2
    <2>2. CASE m > k
      <3>1. m \in Int /\ k \in Int /\ m <= Len(working) /\ k >= 1
        BY <1>1
      <3>2. m - 1 \in 1..(Len(working) - 1) /\ ~(m - 1 < k) /\ (m - 1) + 1 = m
        BY <1>1, <2>2, <3>1
      <3>3. working'[m - 1] = working[m]
        BY <1>2, <3>2
      <3> QED
        BY <1>3, <3>2, <3>3
    <2> QED
      BY <1>1, <1>4, <2>1, <2>2
  <1>5. ASSUME NEW j \in DOMAIN working'
        PROVE  \E m \in DOMAIN working : m # k /\ working'[j] = working[m]
    <2>1. CASE j < k
      <3>1. j \in DOMAIN working /\ j # k
        BY <1>1, <1>3, <2>1
      <3>2. working'[j] = working[j]
        BY <1>2, <1>3, <2>1
      <3> QED
        BY <3>1, <3>2
    <2>2. CASE ~(j < k)
      <3>1. j + 1 \in DOMAIN working /\ j + 1 # k
        BY <1>1, <1>3, <2>2
      <3>2. working'[j] = working[j + 1]
        BY <1>2, <1>3, <2>2
      <3> QED
        BY <3>1, <3>2
    <2> QED
      BY <2>1, <2>2
  <1>6. ASSUME \A m, n \in DOMAIN working : working[m] = working[n] => m = n,
               NEW m \in DOMAIN working', NEW n \in DOMAIN working', working'[m] = working'[n]
        PROVE  m = n
    <2> DEFINE f(j) == IF j < k THEN j ELSE j + 1
    <2>1. f(m) \in DOMAIN working /\ f(n) \in DOMAIN working
      <3>1. ASSUME NEW j \in 1..(Len(working) - 1)
            PROVE  f(j) \in 1..Len(working)
        <4>1. j \in 1..Len(working) /\ j + 1 \in 1..Len(working)
          BY <1>1
        <4> QED
          BY <4>1
      <3> HIDE DEF f
      <3> QED
        BY <1>1, <1>3, <3>1
    <2>2. working'[m] = working[f(m)] /\ working'[n] = working[f(n)]
      BY <1>2, <1>3
    <2>3. f(m) = f(n)
      BY <1>6, <2>1, <2>2
    <2> QED
      BY <1>1, <1>3, <2>3
  <1> QED
    BY <1>2, <1>4, <1>5, <1>6

(* A call changes one target, which stays or becomes known.                *)
LEMMA OneTarget ==
  ASSUME QueueType, NEW i \in Ids, NEW t \in WipeTarget,
         targets' = [targets EXCEPT ![i] = t]
  PROVE  /\ targets' \in [Ids -> WipeTarget \cup {Queue!Absent}]
         /\ targets'[i] = t /\ \A j \in Ids \ {i} : targets'[j] = targets[j]
         /\ Queue!Known' = Queue!Known \cup {i}
         /\ Queue!InState("Queued")' \subseteq Queue!InState("Queued") \cup {i}
         /\ t.state # "Queued" => i \notin Queue!InState("Queued")'
  <1>1. /\ targets' \in [Ids -> WipeTarget \cup {Queue!Absent}]
        /\ targets'[i] = t /\ \A j \in Ids \ {i} : targets'[j] = targets[j]
    BY DEF QueueType
  <1>2. t # Queue!Absent
    BY DEF WipeTarget, QueueStates, Queue!Absent
  <1>3. Queue!Known' = Queue!Known \cup {i}
    BY <1>1, <1>2 DEF Queue!Known
  <1>4. /\ Queue!InState("Queued")' \subseteq Queue!InState("Queued") \cup {i}
        /\ t.state # "Queued" => i \notin Queue!InState("Queued")'
    BY <1>1, <1>3 DEF Queue!InState, Queue!Known
  <1> QED
    BY <1>1, <1>3, <1>4

LEMMA StepEnqueue ==
  ASSUME QueueInv, NEW i \in Ids, Queue!Enqueue(i)
  PROVE  QueueInv'
  <1> DEFINE t == [state |-> "Queued", completed_at |-> FALSE, error |-> FALSE]
  <1>1. QueueType
    BY DEF QueueInv
  <1>2. t \in WipeTarget /\ targets' = [targets EXCEPT ![i] = t] /\ t.state = "Queued" /\ ~t.error
    BY DEF Queue!Enqueue, WipeTarget, QueueStates
  <1> HIDE DEF t
  <1>3. /\ targets' \in [Ids -> WipeTarget \cup {Queue!Absent}]
        /\ targets'[i] = t /\ \A j \in Ids \ {i} : targets'[j] = targets[j]
        /\ Queue!Known' = Queue!Known \cup {i}
        /\ Queue!InState("Queued")' \subseteq Queue!InState("Queued") \cup {i}
    BY <1>1, <1>2, OneTarget
  <1>4. /\ enqueued' \in [Ids -> Nat] /\ enqueued'[i] = enqueued[i] + 1 /\ enqueued[i] \in Nat
        /\ \A j \in Ids \ {i} : enqueued'[j] = enqueued[j]
        /\ \A j \in Ids : enqueued[j] \in Nat
    BY <1>1 DEF Queue!Enqueue, QueueType
  <1>5. working' = working /\ wiped' = wiped /\ cancelled' = cancelled
    BY DEF Queue!Enqueue
  <1>6. \A k \in DOMAIN working : working[k][1] \in Ids
    BY <1>1, QueueFacts
  <1>7. replaced \subseteq replaced' /\ (i \notin replaced' => Queue!WorkingOn(i) = {})
    BY DEF Queue!Enqueue
  <1>8. \A k \in DOMAIN working : working[k][1] \notin replaced' => working[k][1] # i
    BY <1>7 DEF Queue!WorkingOn
  <1>9. \A j \in Ids \ {i} : Current(j)' = Current(j)
    BY <1>4 DEF Current
  <1>10. \A k \in DOMAIN working : working[k] \in Ids \X Nat /\ working[k][2] \in Nat
    BY <1>1, QueueFacts
  <1>11. NoneAhead'
    <2>1. \A k \in DOMAIN working : working[k][2] <= enqueued'[working[k][1]]
      BY <1>4, <1>6, <1>10 DEF QueueInv, NoneAhead
    <2>2. \A x \in wiped \cup cancelled : x \in Ids \X Nat
      BY <1>1 DEF QueueType
    <2>3. \A x \in wiped \cup cancelled : x[1] \in Ids /\ x[2] \in Nat
      BY <2>2
    <2>4. \A x \in wiped \cup cancelled : x[2] <= enqueued'[x[1]]
      BY <1>4, <2>3 DEF QueueInv, NoneAhead
    <2> QED
      BY <1>5, <2>1, <2>4 DEF NoneAhead
  <1>12. Current(i)' \notin wiped \cup cancelled /\ \A k \in DOMAIN working : working[k] # Current(i)'
    <2>1. Current(i)' = <<i, enqueued[i] + 1>>
      BY <1>4 DEF Current
    <2>2. <<i, enqueued[i] + 1>>[1] = i /\ <<i, enqueued[i] + 1>>[2] = enqueued[i] + 1
      OBVIOUS
    <2>3. ~(enqueued[i] + 1 <= enqueued[i])
      BY <1>4
    <2> QED
      BY <2>1, <2>2, <2>3 DEF QueueInv, NoneAhead
  <1>13. WipedAtMostOnce'
    <2>1. /\ \A j, k \in DOMAIN working : working[j] = working[k] => j = k
          /\ \A k \in DOMAIN working : working[k] \notin cancelled \cup wiped
          /\ wiped \cap cancelled = {}
      BY DEF QueueInv, WipedAtMostOnce, Queue!WipedAtMostOnce
    <2>2. ASSUME NEW j \in Queue!Known' \ replaced'
          PROVE  /\ targets'[j].state = "Completed" <=> Current(j)' \in wiped
                 /\ targets'[j].state = "InProgress" <=> Queue!WorkingOn(j) # {}
                 /\ targets'[j].error <=> targets'[j].state = "Failed"
      <3>1. CASE j = i
        BY <1>2, <1>3, <1>7, <1>12, <3>1
      <3>2. CASE j # i
        <4>1. j \in Queue!Known \ replaced /\ j \in Ids
          BY <1>3, <1>7, <3>2 DEF Queue!Known
        <4>2. /\ targets[j].state = "Completed" <=> Current(j) \in wiped
              /\ targets[j].state = "InProgress" <=> Queue!WorkingOn(j) # {}
              /\ targets[j].error <=> targets[j].state = "Failed"
          BY <4>1 DEF QueueInv, WipedAtMostOnce, Queue!WipedAtMostOnce, Current
        <4> QED
          BY <1>3, <1>9, <3>2, <4>1, <4>2
      <3> QED
        BY <3>1, <3>2
    <2>3. \A j : Queue!WorkingOn(j)' = Queue!WorkingOn(j)
      BY <1>5 DEF Queue!WorkingOn
    <2> QED
      BY <1>5, <2>1, <2>2, <2>3 DEF WipedAtMostOnce, Queue!WipedAtMostOnce, Current
  <1>14. ASSUME NEW j \in Queue!InState("Queued")'
         PROVE  /\ Current(j)' \notin wiped' \cup cancelled'
                /\ \A k \in DOMAIN working' : working'[k] # Current(j)'
    <2>1. CASE j = i
      BY <1>5, <1>12, <2>1
    <2>2. CASE j # i
      <3>1. j \in Queue!InState("Queued") /\ j \in Ids
        BY <1>3, <2>2 DEF Queue!InState, Queue!Known
      <3> QED
        BY <1>5, <1>9, <2>2, <3>1 DEF QueueInv
    <2> QED
      BY <2>1, <2>2
  <1>15. \A k \in DOMAIN working : working[k][1] \in Queue!Known'
    BY <1>3 DEF QueueInv
  <1>16. ASSUME NEW k \in DOMAIN working, working[k][1] \notin replaced'
         PROVE  working[k] = Current(working[k][1])'
    <2>1. working[k][1] \in Ids \ {i} /\ working[k][1] \notin replaced
      BY <1>6, <1>7, <1>8, <1>16
    <2>2. working[k] = Current(working[k][1])
      BY <2>1 DEF QueueInv
    <2> QED
      BY <1>5, <1>9, <2>1, <2>2
  <1>17. QueueType'
    BY <1>1, <1>3, <1>4, <1>5 DEF QueueType
  <1> QED
    BY <1>5, <1>11, <1>13, <1>14, <1>15, <1>16, <1>17 DEF QueueInv, Current

(* What the state of a target says of it, while its id is its own.         *)
Telling(i) ==
  /\ targets[i].state = "Completed" <=> Current(i) \in wiped
  /\ targets[i].state = "InProgress" <=> Queue!WorkingOn(i) # {}
  /\ targets[i].error <=> targets[i].state = "Failed"

LEMMA Said ==
  WipedAtMostOnce <=>
    /\ \A j, k \in DOMAIN working : working[j] = working[k] => j = k
    /\ \A k \in DOMAIN working : working[k] \notin cancelled \cup wiped
    /\ wiped \cap cancelled = {}
    /\ \A i \in Queue!Known \ replaced : Telling(i)
  BY DEF WipedAtMostOnce, Queue!WipedAtMostOnce, Telling, Current

(* The calls of workers and cancels.  What is left of each: the others'    *)
(* targets tell what they told, and i's tells what was done.               *)
LEMMA StepTarget ==
  ASSUME QueueInv, NEW i \in Queue!Known, NEW t \in WipeTarget, t.state # "Queued",
         targets' = [targets EXCEPT ![i] = t],
         enqueued' = enqueued, replaced' = replaced,
         working' \in Seq(Ids \X Nat),
         wiped' \ wiped \subseteq {x \in Ids \X Nat : x[1] = i /\ x[2] <= enqueued[i]},
         cancelled' \ cancelled \subseteq {x \in Ids \X Nat : x[1] = i /\ x[2] <= enqueued[i]},
         wiped \subseteq wiped', cancelled \subseteq cancelled',
         \A k \in DOMAIN working' :
           \/ \E m \in DOMAIN working : working'[k] = working[m]
           \/ working'[k] = Current(i),
         \A k \in DOMAIN working : working[k][1] # i =>
           \E m \in DOMAIN working' : working'[m] = working[k],
         \A j, k \in DOMAIN working' : working'[j] = working'[k] => j = k,
         \A k \in DOMAIN working' : working'[k] \notin cancelled' \cup wiped',
         wiped' \cap cancelled' = {},
         i \notin replaced => Telling(i)'
  PROVE  QueueInv'
  <1>1. QueueType
    BY DEF QueueInv
  <1>2. i \in Ids
    BY DEF Queue!Known
  <1>3. /\ targets' \in [Ids -> WipeTarget \cup {Queue!Absent}]
        /\ \A j \in Ids \ {i} : targets'[j] = targets[j]
        /\ Queue!Known' = Queue!Known
        /\ Queue!InState("Queued")' \subseteq Queue!InState("Queued") \ {i}
    <2>1. /\ targets' \in [Ids -> WipeTarget \cup {Queue!Absent}]
          /\ \A j \in Ids \ {i} : targets'[j] = targets[j]
          /\ Queue!Known' = Queue!Known \cup {i}
      BY <1>1, <1>2, OneTarget
    <2>2. /\ Queue!InState("Queued")' \subseteq Queue!InState("Queued") \cup {i}
          /\ i \notin Queue!InState("Queued")'
      BY <1>1, <1>2, OneTarget
    <2> QED
      BY <2>1, <2>2
  <1>4. \A j : Current(j)' = Current(j)
    BY DEF Current
  <1>5. \A k \in DOMAIN working : working[k] \in Ids \X Nat /\ working[k][1] \in Ids /\ working[k][2] \in Nat
    BY <1>1, QueueFacts
  <1>6. Current(i) \in Ids \X Nat /\ Current(i)[1] = i /\ Current(i)[2] = enqueued[i] /\ enqueued[i] \in Nat
    BY <1>1, <1>2 DEF Current, QueueType
  <1>7. QueueType'
    <2>1. wiped' \subseteq Ids \X Nat /\ cancelled' \subseteq Ids \X Nat
      BY <1>1 DEF QueueType
    <2> QED
      BY <1>1, <1>3, <2>1 DEF QueueType
  <1>8. NoneAhead'
    <2>1. ASSUME NEW k \in DOMAIN working' PROVE working'[k][2] <= enqueued[working'[k][1]]
      <3>1. CASE \E m \in DOMAIN working : working'[k] = working[m]
        BY <3>1 DEF QueueInv, NoneAhead
      <3>2. CASE working'[k] = Current(i)
        BY <1>6, <3>2
      <3> QED
        BY <3>1, <3>2
    <2>2. ASSUME NEW x \in wiped' \cup cancelled' PROVE x[2] <= enqueued[x[1]]
      <3>1. CASE x \in wiped \cup cancelled
        BY <3>1 DEF QueueInv, NoneAhead
      <3>2. CASE x \notin wiped \cup cancelled
        BY <3>2
      <3> QED
        BY <3>1, <3>2
    <2> QED
      BY <2>1, <2>2 DEF NoneAhead
  <1>9. ASSUME NEW j \in Queue!Known \ replaced, j # i PROVE Telling(j)'
    <2>1. j \in Ids /\ Telling(j)
      BY <1>9, Said DEF QueueInv, Queue!Known
    <2>2. targets'[j] = targets[j] /\ Current(j)' = Current(j) /\ Current(j)[1] = j
      BY <1>3, <1>4, <1>9, <2>1 DEF Current
    <2>3. Current(j) \in wiped' <=> Current(j) \in wiped
      BY <1>9, <2>2
    <2>4. Queue!WorkingOn(j)' # {} <=> Queue!WorkingOn(j) # {}
      <3>1. ASSUME NEW k \in DOMAIN working', working'[k][1] = j
            PROVE  \E m \in DOMAIN working : working[m][1] = j
        BY <1>6, <1>9, <3>1
      <3>2. ASSUME NEW k \in DOMAIN working, working[k][1] = j
            PROVE  \E m \in DOMAIN working' : working'[m][1] = j
        BY <1>9, <3>2
      <3> QED
        BY <3>1, <3>2 DEF Queue!WorkingOn
    <2> QED
      BY <2>1, <2>2, <2>3, <2>4 DEF Telling
  <1>10. WipedAtMostOnce'
    <2>1. \A j \in Queue!Known' \ replaced' : Telling(j)'
      BY <1>3, <1>9
    <2> QED
      BY <2>1, Said DEF WipedAtMostOnce, Queue!WipedAtMostOnce, Telling, Current
  <1>11. ASSUME NEW j \in Queue!InState("Queued")'
         PROVE  /\ Current(j)' \notin wiped' \cup cancelled'
                /\ \A k \in DOMAIN working' : working'[k] # Current(j)'
    <2>1. j \in Queue!InState("Queued") /\ j # i
      BY <1>3
    <2>2. /\ Current(j) \notin wiped \cup cancelled
          /\ \A k \in DOMAIN working : working[k] # Current(j)
      BY <2>1 DEF QueueInv
    <2>3. Current(j)' = Current(j) /\ Current(j)[1] = j
      BY <1>4 DEF Current
    <2>4. Current(j) \notin wiped' \cup cancelled'
      BY <2>1, <2>2, <2>3
    <2>5. ASSUME NEW k \in DOMAIN working' PROVE working'[k] # Current(j)
      <3>1. CASE \E m \in DOMAIN working : working'[k] = working[m]
        BY <2>2, <3>1
      <3>2. CASE working'[k] = Current(i)
        BY <1>6, <2>1, <2>3, <3>2
      <3> QED
        BY <3>1, <3>2
    <2> QED
      BY <2>3, <2>4, <2>5
  <1>12. ASSUME NEW k \in DOMAIN working'
         PROVE  /\ working'[k][1] \in Queue!Known
                /\ working'[k][1] \notin replaced => working'[k] = Current(working'[k][1])
    <2>1. CASE \E m \in DOMAIN working : working'[k] = working[m]
      BY <2>1 DEF QueueInv
    <2>2. CASE working'[k] = Current(i)
      BY <1>6, <2>2
    <2> QED
      BY <2>1, <2>2
  <1> QED
    BY <1>3, <1>7, <1>8, <1>10, <1>11, <1>12 DEF QueueInv, Current

LEMMA StepCancel ==
  ASSUME QueueInv, NEW i \in Ids, Queue!Cancel(i)
  PROVE  QueueInv'
  <1> DEFINE t == [targets[i] EXCEPT !.state = "Cancelled"]
  <1>1. QueueType /\ i \in Queue!InState("Queued") /\ i \in Queue!Known /\ targets[i].state = "Queued"
    BY DEF QueueInv, Queue!Cancel, Queue!InState
  <1>2. targets[i] \in WipeTarget
    BY <1>1, QueueFacts
  <1>3. t \in WipeTarget /\ t.state = "Cancelled" /\ t.error = targets[i].error
    BY <1>2 DEF WipeTarget, QueueStates
  <1>4. targets' = [targets EXCEPT ![i] = t]
    BY DEF Queue!Cancel
  <1> HIDE DEF t
  <1>5. /\ enqueued' = enqueued /\ replaced' = replaced /\ working' = working /\ wiped' = wiped
        /\ cancelled' = cancelled \cup {Current(i)}
    BY DEF Queue!Cancel, Current
  <1>6. /\ Current(i) \notin wiped \cup cancelled
        /\ \A k \in DOMAIN working : working[k] # Current(i)
    BY <1>1 DEF QueueInv
  <1>7. Current(i) \in Ids \X Nat /\ Current(i)[1] = i /\ Current(i)[2] <= enqueued[i]
    BY <1>1 DEF Current, QueueType
  <1>8. /\ \A j, k \in DOMAIN working : working[j] = working[k] => j = k
        /\ \A k \in DOMAIN working : working[k] \notin cancelled \cup wiped
        /\ wiped \cap cancelled = {}
    BY Said DEF QueueInv
  <1>9. i \notin replaced => Telling(i)'
    <2> SUFFICES ASSUME i \notin replaced PROVE Telling(i)'
      OBVIOUS
    <2>1. Telling(i)
      BY <1>1, Said DEF QueueInv
    <2>2. targets'[i] = t /\ Queue!WorkingOn(i)' = Queue!WorkingOn(i)
      BY <1>1, <1>4, <1>5 DEF QueueType, Queue!WorkingOn
    <2> QED
      BY <1>1, <1>3, <1>5, <1>6, <2>1, <2>2 DEF Telling, Current
  <1>10. working' \in Seq(Ids \X Nat)
    BY <1>1, <1>5 DEF QueueType
  <1>11. t.state # "Queued"
    BY <1>3
  <1>12. /\ wiped' \ wiped \subseteq {x \in Ids \X Nat : x[1] = i /\ x[2] <= enqueued[i]}
         /\ cancelled' \ cancelled \subseteq {x \in Ids \X Nat : x[1] = i /\ x[2] <= enqueued[i]}
         /\ wiped \subseteq wiped' /\ cancelled \subseteq cancelled'
    BY <1>5, <1>7
  <1>13. /\ \A k \in DOMAIN working' : \E m \in DOMAIN working : working'[k] = working[m]
         /\ \A k \in DOMAIN working : \E m \in DOMAIN working' : working'[m] = working[k]
         /\ \A j, k \in DOMAIN working' : working'[j] = working'[k] => j = k
         /\ \A k \in DOMAIN working' : working'[k] \notin cancelled' \cup wiped'
         /\ wiped' \cap cancelled' = {}
    BY <1>5, <1>6, <1>8
  <1> QED
    BY <1>1, <1>3, <1>4, <1>5, <1>9, <1>10, <1>11, <1>12, <1>13, StepTarget

LEMMA StepStart ==
  ASSUME QueueInv, NEW i \in Ids, Queue!Start(i)
  PROVE  QueueInv'
  <1> DEFINE t == [targets[i] EXCEPT !.state = "InProgress"]
             n == Len(working)
  <1>1. QueueType /\ i \in Queue!InState("Queued") /\ i \in Queue!Known /\ targets[i].state = "Queued"
    BY DEF QueueInv, Queue!Start, Queue!InState
  <1>2. targets[i] \in WipeTarget
    BY <1>1, QueueFacts
  <1>3. t \in WipeTarget /\ t.state = "InProgress" /\ t.error = targets[i].error
    BY <1>2 DEF WipeTarget, QueueStates
  <1>4. targets' = [targets EXCEPT ![i] = t]
    BY DEF Queue!Start, Queue!Begin
  <1> HIDE DEF t
  <1>5. /\ enqueued' = enqueued /\ replaced' = replaced /\ wiped' = wiped /\ cancelled' = cancelled
        /\ working' = Append(working, Current(i))
    BY DEF Queue!Start, Queue!Begin, Current
  <1>6. /\ Current(i) \notin wiped \cup cancelled
        /\ \A k \in DOMAIN working : working[k] # Current(i)
    BY <1>1 DEF QueueInv
  <1>7. Current(i) \in Ids \X Nat /\ Current(i)[1] = i
    BY <1>1 DEF Current, QueueType
  <1>8. /\ \A j, k \in DOMAIN working : working[j] = working[k] => j = k
        /\ \A k \in DOMAIN working : working[k] \notin cancelled \cup wiped
        /\ wiped \cap cancelled = {}
    BY Said DEF QueueInv
  <1>9. /\ working' \in Seq(Ids \X Nat) /\ n \in Nat /\ DOMAIN working = 1..n
        /\ DOMAIN working' = 1..(n + 1) /\ working'[n + 1] = Current(i)
        /\ \A k \in 1..n : working'[k] = working[k]
    <2>1. working \in Seq(Ids \X Nat) /\ n \in Nat /\ DOMAIN working = 1..n
      BY <1>1, QueueFacts DEF QueueType
    <2> QED
      BY <1>5, <1>7, <2>1, AppendProperties, LenProperties
  <1> HIDE DEF n
  <1>10. \A k \in DOMAIN working' : k = n + 1 \/ k \in DOMAIN working
    BY <1>9
  <1>11. i \notin replaced => Telling(i)'
    <2> SUFFICES ASSUME i \notin replaced PROVE Telling(i)'
      OBVIOUS
    <2>1. Telling(i)
      BY <1>1, Said DEF QueueInv
    <2>2. targets'[i] = t
      BY <1>1, <1>4 DEF QueueType
    <2>3. n + 1 \in Queue!WorkingOn(i)'
      BY <1>7, <1>9 DEF Queue!WorkingOn
    <2> QED
      BY <1>1, <1>3, <1>5, <1>6, <2>1, <2>2, <2>3 DEF Telling, Current
  <1>12. t.state # "Queued"
    BY <1>3
  <1>13. /\ wiped' \ wiped \subseteq {x \in Ids \X Nat : x[1] = i /\ x[2] <= enqueued[i]}
         /\ cancelled' \ cancelled \subseteq {x \in Ids \X Nat : x[1] = i /\ x[2] <= enqueued[i]}
         /\ wiped \subseteq wiped' /\ cancelled \subseteq cancelled'
    BY <1>5
  <1>14. /\ \A k \in DOMAIN working' :
              (\E m \in DOMAIN working : working'[k] = working[m]) \/ working'[k] = Current(i)
         /\ \A k \in DOMAIN working : \E m \in DOMAIN working' : working'[m] = working[k]
    <2>1. \A k \in DOMAIN working : k \in DOMAIN working' /\ working'[k] = working[k]
      BY <1>9
    <2> QED
      BY <1>9, <1>10, <2>1
  <1>15. ASSUME NEW j \in DOMAIN working', NEW k \in DOMAIN working', working'[j] = working'[k]
         PROVE  j = k
    BY <1>6, <1>8, <1>9, <1>10, <1>15
  <1>16. /\ \A k \in DOMAIN working' : working'[k] \notin cancelled' \cup wiped'
         /\ wiped' \cap cancelled' = {}
    BY <1>5, <1>6, <1>8, <1>9, <1>10
  <1> QED
    BY <1>1, <1>3, <1>4, <1>5, <1>9, <1>11, <1>12, <1>13, <1>14, <1>15, <1>16, StepTarget

(* A report of the worker at place k: the target it started, or what has   *)
(* replaced it since, is set to t.                                         *)
LEMMA StepReport ==
  ASSUME QueueInv, NEW k \in DOMAIN working, NEW i, i = working[k][1],
         NEW t \in WipeTarget, t.state \in {"Completed", "Failed"},
         t.error = (IF t.state = "Failed" THEN TRUE ELSE targets[i].error),
         targets' = [targets EXCEPT ![i] = t],
         enqueued' = enqueued, replaced' = replaced, cancelled' = cancelled,
         wiped' = (IF t.state = "Completed" THEN wiped \cup {working[k]} ELSE wiped),
         working' = Queue!RemoveAt(working, k)
  PROVE  QueueInv'
  <1>1. QueueType /\ i \in Queue!Known /\ i \in Ids
    BY DEF QueueInv, Queue!Known
  <1>2. working[k] \in Ids \X Nat /\ working[k][2] <= enqueued[i]
    BY <1>1, QueueFacts DEF QueueInv, NoneAhead
  <1>3. /\ \A m, n \in DOMAIN working : working[m] = working[n] => m = n
        /\ \A m \in DOMAIN working : working[m] \notin cancelled \cup wiped
        /\ wiped \cap cancelled = {}
    BY Said DEF QueueInv
  <1>4. /\ working' \in Seq(Ids \X Nat)
        /\ \A j \in DOMAIN working' : \E m \in DOMAIN working : m # k /\ working'[j] = working[m]
        /\ \A m \in DOMAIN working : m # k => \E j \in DOMAIN working' : working'[j] = working[m]
        /\ \A m, n \in DOMAIN working' : working'[m] = working'[n] => m = n
    BY <1>1, <1>3, WorkerGone
  <1>5. wiped \subseteq wiped' /\ wiped' \subseteq wiped \cup {working[k]}
    OBVIOUS
  <1>6. /\ wiped' \ wiped \subseteq {x \in Ids \X Nat : x[1] = i /\ x[2] <= enqueued[i]}
        /\ cancelled' \ cancelled \subseteq {x \in Ids \X Nat : x[1] = i /\ x[2] <= enqueued[i]}
        /\ cancelled \subseteq cancelled'
    BY <1>2, <1>5
  <1>7. wiped' \cap cancelled' = {}
    BY <1>3, <1>5
  <1>8. ASSUME NEW j \in DOMAIN working' PROVE working'[j] \notin cancelled' \cup wiped'
    <2>1. PICK m \in DOMAIN working : m # k /\ working'[j] = working[m]
      BY <1>4
    <2>2. working[m] # working[k] /\ working[m] \notin cancelled \cup wiped
      BY <1>3, <2>1
    <2> QED
      BY <1>5, <2>1, <2>2
  <1>9. \A m \in DOMAIN working : working[m][1] # i =>
          \E j \in DOMAIN working' : working'[j] = working[m]
    BY <1>4
  <1>10. i \notin replaced => Telling(i)'
    <2> SUFFICES ASSUME i \notin replaced PROVE Telling(i)'
      OBVIOUS
    <2>1. \A m \in DOMAIN working : working[m][1] = i => working[m] = Current(i)
      BY DEF QueueInv
    <2>2. Queue!WorkingOn(i)' = {}
      <3> SUFFICES ASSUME NEW j \in DOMAIN working', working'[j][1] = i PROVE FALSE
        BY DEF Queue!WorkingOn
      <3>1. PICK m \in DOMAIN working : m # k /\ working'[j] = working[m]
        BY <1>4
      <3>2. working[m] = Current(i) /\ working[k] = Current(i)
        BY <2>1, <3>1
      <3> QED
        BY <1>3, <3>1, <3>2
    <2>3. Telling(i) /\ k \in Queue!WorkingOn(i)
      BY <1>1, Said DEF QueueInv, Queue!WorkingOn
    <2>4. targets[i].state = "InProgress"
      BY <2>3 DEF Telling
    <2>5. targets[i].error <=> FALSE
      BY <2>3, <2>4 DEF Telling
    <2>6. targets'[i] = t
      BY <1>1 DEF QueueType
    <2>7. Current(i) \notin wiped /\ Current(i) = working[k] /\ Current(i)' = Current(i)
      BY <1>3, <2>1 DEF Current
    <2>8. CASE t.state = "Completed"
      <3>1. Current(i) \in wiped'
        BY <2>7, <2>8
      <3>2. t.error <=> FALSE
        BY <2>5, <2>8
      <3> QED
        BY <2>2, <2>6, <2>7, <2>8, <3>1, <3>2 DEF Telling
    <2>9. CASE t.state = "Failed"
      <3>1. Current(i) \notin wiped'
        BY <2>7, <2>9
      <3>2. t.error <=> TRUE
        BY <2>9
      <3> QED
        BY <2>2, <2>6, <2>7, <2>9, <3>1, <3>2 DEF Telling
    <2> QED
      BY <2>8, <2>9
  <1>11. t.state # "Queued"
    OBVIOUS
  <1>12. \A j \in DOMAIN working' : \E m \in DOMAIN working : working'[j] = working[m]
    BY <1>4
  <1> QED
    BY <1>1, <1>4, <1>5, <1>6, <1>7, <1>8, <1>9, <1>10, <1>11, <1>12, StepTarget

LEMMA StepComplete ==
  ASSUME QueueInv, NEW k \in DOMAIN working, Queue!Complete(k)
  PROVE  QueueInv'
  <1> DEFINE i == working[k][1]
             t == [targets[i] EXCEPT !.state = "Completed", !.completed_at = TRUE]
  <1>1. targets[i] \in WipeTarget /\ i \in Ids
    BY QueueFacts DEF QueueInv, Queue!Known
  <1>2. t \in WipeTarget /\ t.state = "Completed" /\ t.error = targets[i].error
    BY <1>1 DEF WipeTarget, QueueStates
  <1>3. targets' = [targets EXCEPT ![i] = t]
    <2>1. targets \in [Ids -> WipeTarget \cup {Queue!Absent}]
      BY DEF QueueInv, QueueType
    <2> QED
      BY <1>1, <2>1 DEF Queue!Complete
  <1>4. /\ enqueued' = enqueued /\ replaced' = replaced /\ cancelled' = cancelled
        /\ wiped' = wiped \cup {working[k]} /\ working' = Queue!RemoveAt(working, k)
    BY DEF Queue!Complete
  <1> HIDE DEF t
  <1> QED
    BY <1>2, <1>3, <1>4, StepReport

LEMMA StepFail ==
  ASSUME QueueInv, NEW k \in DOMAIN working, Queue!Fail(k)
  PROVE  QueueInv'
  <1> DEFINE i == working[k][1]
             t == [targets[i] EXCEPT !.state = "Failed", !.error = TRUE, !.completed_at = TRUE]
  <1>1. targets[i] \in WipeTarget /\ i \in Ids
    BY QueueFacts DEF QueueInv, Queue!Known
  <1>2. t \in WipeTarget /\ t.state = "Failed" /\ t.error = TRUE
    BY <1>1 DEF WipeTarget, QueueStates
  <1>3. targets' = [targets EXCEPT ![i] = t]
    <2>1. targets \in [Ids -> WipeTarget \cup {Queue!Absent}]
      BY DEF QueueInv, QueueType
    <2> QED
      BY <1>1, <2>1 DEF Queue!Fail
  <1>4. /\ enqueued' = enqueued /\ replaced' = replaced /\ cancelled' = cancelled
        /\ wiped' = wiped /\ working' = Queue!RemoveAt(working, k)
    BY DEF Queue!Fail
  <1> HIDE DEF t
  <1> QED
    BY <1>2, <1>3, <1>4, StepReport

(* However many workers share the queue, and whoever enqueues and cancels  *)
(* meanwhile: a target is wiped by one worker at most, never once it was   *)
(* cancelled, and its state says what became of it.                        *)
THEOREM OneWorkerEach == BookSpec => []WipedAtMostOnce
  <1>1. BookInit => QueueInv
    <2> SUFFICES ASSUME BookInit PROVE QueueInv
      OBVIOUS
    <2>1. /\ targets = [i \in Ids |-> Queue!Absent] /\ enqueued = [i \in Ids |-> 0]
          /\ working = <<>> /\ wiped = {} /\ cancelled = {}
      BY DEF BookInit, Queue!Init
    <2>2. Queue!Known = {} /\ DOMAIN working = {}
      BY <2>1 DEF Queue!Known
    <2> QED
      BY <2>1, <2>2 DEF QueueInv, QueueType, WipedAtMostOnce, Queue!WipedAtMostOnce, NoneAhead,
         Queue!InState
  <1>2. QueueInv /\ [BookNext]_allVars => QueueInv'
    <2> SUFFICES ASSUME QueueInv, [BookNext]_allVars PROVE QueueInv'
      OBVIOUS
    <2>1. CASE UNCHANGED queueVars
      BY <2>1 DEF queueVars, QueueInv, QueueType, WipedAtMostOnce, Queue!WipedAtMostOnce,
         NoneAhead, Queue!InState, Queue!Known, Queue!WorkingOn, Current
    <2>2. CASE Queue!Next
      BY <2>2, StepEnqueue, StepCancel, StepStart, StepComplete, StepFail DEF Queue!Next
    <2> QED
      BY <2>1, <2>2, Parts
  <1>3. QueueInv => WipedAtMostOnce
    BY DEF QueueInv
  <1> QED
    BY <1>1, <1>2, <1>3, PTL DEF BookSpec

-----------------------------------------------------------------------------
(***************************************************************************)
(* DiskWatcher.  Whatever was pushed out, the newest sample kept of a      *)
(* mount is the newest one seen of it, and the one before that, if kept,   *)
(* is the one seen before.                                                 *)
(***************************************************************************)
DiskType ==
  /\ samples \in Seq(Disk!Sample)
  /\ \A m \in Mounts : seen[m] \in Seq(Disk!Sample) /\ Len(seen[m]) \in 0..2
  /\ DOMAIN seen = Mounts

DiskInv ==
  /\ DiskType
  /\ \A m \in Mounts : \A i \in Disk!Newest(m) :
       /\ Len(seen[m]) > 0 /\ samples[i] = seen[m][Len(seen[m])]
       /\ \A j \in Disk!LastBefore(m, i) : Len(seen[m]) = 2 /\ samples[j] = seen[m][1]

LEMMA SampleFields ==
  ASSUME NEW s \in Disk!Sample
  PROVE  s.mount \in Mounts /\ s.used \in Int /\ s.at \in Int
  <1>1. s.mount \in Mounts /\ s.used \in 0..Total /\ s.at \in SampleTimes
    BY DEF Disk!Sample
  <1>2. SampleTimes \subseteq Int
    BY BookAssumption, Zenon
  <1>3. s.at \in Int
    BY <1>1, <1>2, Zenon
  <1>4. s.used \in Int
    BY <1>1
  <1> QED
    BY <1>1, <1>3, <1>4

(* The new sample comes last; d samples, one at most, have gone in front.  *)
LEMMA Shifted ==
  ASSUME NEW T, NEW q \in Seq(T), NEW s \in T, NEW limit \in Nat
  PROVE  LET h == Append(q, s)
             r == IF Len(h) > limit THEN Tail(h) ELSE h
         IN  /\ r \in Seq(T)
             /\ \E d \in {0, 1} :
                  /\ Len(r) = Len(q) + 1 - d
                  /\ \A i \in 1..Len(r) : r[i] = IF i + d = Len(q) + 1 THEN s ELSE q[i + d]
  <1> DEFINE h == Append(q, s)
  <1>1. /\ h \in Seq(T) /\ Len(h) = Len(q) + 1 /\ Len(q) \in Nat
        /\ \A i \in 1..Len(h) : h[i] = IF i = Len(q) + 1 THEN s ELSE q[i]
    OBVIOUS
  <1> HIDE DEF h
  <1>2. CASE Len(h) > limit
    <2>1. h # <<>>
      BY <1>1
    <2>2. /\ Tail(h) \in Seq(T) /\ Len(Tail(h)) = Len(h) - 1
          /\ \A i \in 1..(Len(h) - 1) : Tail(h)[i] = h[i + 1]
      BY <1>1, <2>1
    <2>3. /\ Len(Tail(h)) = Len(q) + 1 - 1
          /\ \A i \in 1..Len(Tail(h)) : Tail(h)[i] = IF i + 1 = Len(q) + 1 THEN s ELSE q[i + 1]
      BY <1>1, <2>2
    <2> QED
      BY <1>2, <2>2, <2>3 DEF h
  <1>3. CASE ~(Len(h) > limit)
    <2>1. /\ Len(h) = Len(q) + 1 - 0
          /\ \A i \in 1..Len(h) : h[i] = IF i + 0 = Len(q) + 1 THEN s ELSE q[i + 0]
      BY <1>1
    <2> QED
      BY <1>1, <1>3, <2>1 DEF h
  <1> QED
    BY <1>2, <1>3

LEMMA LastTwo ==
  ASSUME NEW T, NEW q \in Seq(T), Len(q) \in 0..2, NEW s \in T
  PROVE  LET r == Append(IF Len(q) = 2 THEN Tail(q) ELSE q, s)
         IN  /\ r \in Seq(T) /\ Len(r) \in 1..2 /\ r[Len(r)] = s
             /\ Len(q) > 0 => Len(r) = 2 /\ r[1] = q[Len(q)]
  <1> DEFINE u == IF Len(q) = 2 THEN Tail(q) ELSE q
  <1>1. Len(q) \in 0..2
    OBVIOUS
  <1>2. u \in Seq(T) /\ Len(u) \in 0..1 /\ (Len(q) > 0 => Len(u) = 1 /\ u[1] = q[Len(q)])
    <2>1. CASE Len(q) = 2
      <3>1. q # <<>>
        BY <2>1, EmptySeq
      <3>2. /\ Tail(q) \in Seq(T) /\ Len(Tail(q)) = Len(q) - 1
            /\ \A i \in 1..(Len(q) - 1) : Tail(q)[i] = q[i + 1]
        BY <3>1
      <3> QED
        BY <2>1, <3>2
    <2>2. CASE Len(q) # 2
      BY <1>1, <2>2
    <2> QED
      BY <2>1, <2>2
  <1> HIDE DEF u
  <1>3. /\ Append(u, s) \in Seq(T) /\ Len(Append(u, s)) = Len(u) + 1
        /\ Append(u, s)[Len(u) + 1] = s
        /\ \A i \in 1..Len(u) : Append(u, s)[i] = u[i]
    BY <1>2, AppendProperties
  <1> DEFINE r == Append(u, s)
  <1> HIDE DEF r
  <1>4. /\ r \in Seq(T) /\ Len(r) = Len(u) + 1 /\ r[Len(u) + 1] = s
        /\ \A i \in 1..Len(u) : r[i] = u[i]
    BY <1>3 DEF r
  <1>5. Len(r) \in 1..2 /\ r[Len(r)] = s
    BY <1>2, <1>4
  <1>6. ASSUME Len(q) > 0 PROVE Len(r) = 2 /\ r[1] = q[Len(q)]
    <2>1. Len(u) = 1 /\ u[1] = q[Len(q)]
      BY <1>2, <1>6
    <2> QED
      BY <1>4, <2>1
  <1> QED
    BY <1>4, <1>5, <1>6 DEF r, u

LEMMA StepDisk ==
  ASSUME DiskInv, NEW s \in Disk!Sample, Disk!Observe(s)
  PROVE  DiskInv'
  <1> DEFINE mine == seen[s.mount]
  <1>0. samples \in Seq(Disk!Sample)
    BY DEF DiskInv, DiskType
  <1> PICK n \in Nat : n = Len(samples)
    BY <1>0, LenProperties
  <1>1. DiskType /\ samples \in Seq(Disk!Sample) /\ n \in Nat /\ DOMAIN samples = 1..n
    BY <1>0, LenProperties DEF DiskInv
  <1>2. PICK d \in {0, 1} :
          /\ samples' \in Seq(Disk!Sample) /\ Len(samples') = n + 1 - d
          /\ \A i \in 1..Len(samples') : samples'[i] = IF i + d = n + 1 THEN s ELSE samples[i + d]
    <2>1. SampleLimit \in Nat
      BY BookAssumption, Zenon
    <2>2. samples' = LET h == Append(samples, s) IN IF Len(h) > SampleLimit THEN Tail(h) ELSE h
      BY Zenon DEF Disk!Observe
    <2> QED
      BY <1>1, <2>1, <2>2, Shifted
  <1>3. DOMAIN samples' = 1..(n + 1 - d)
    BY <1>2, LenProperties
  <1>4. /\ \A i \in DOMAIN samples' : i + d <= n => i + d \in DOMAIN samples /\ samples'[i] = samples[i + d]
        /\ \A i \in DOMAIN samples' : i + d > n => i + d = n + 1 /\ samples'[i] = s
        /\ \A j \in DOMAIN samples : j > d => j - d \in DOMAIN samples' /\ samples'[j - d] = samples[j]
    <2>1. DOMAIN samples' = 1..Len(samples')
      BY <1>2, <1>3
    <2>2. \A j \in DOMAIN samples : j > d => j - d \in DOMAIN samples' /\ (j - d) + d = j /\ j # n + 1
      BY <1>1, <1>3
    <2> QED
      BY <1>1, <1>2, <1>3, <2>1, <2>2
  <1>5. s.mount \in Mounts
    BY SampleFields
  <1>6. /\ DOMAIN seen' = Mounts /\ \A m \in Mounts \ {s.mount} : seen'[m] = seen[m]
        /\ seen'[s.mount] = Append(IF Len(mine) = 2 THEN Tail(mine) ELSE mine, s)
    BY <1>1, <1>5 DEF Disk!Observe, Disk!Remember, DiskType
  <1>7. /\ seen'[s.mount] \in Seq(Disk!Sample) /\ Len(seen'[s.mount]) \in 1..2
        /\ seen'[s.mount][Len(seen'[s.mount])] = s
        /\ Len(mine) > 0 => Len(seen'[s.mount]) = 2 /\ seen'[s.mount][1] = mine[Len(mine)]
    <2>1. mine \in Seq(Disk!Sample)
      BY <1>1, <1>5 DEF DiskType
    <2>2. Len(mine) \in 0..2
      BY <1>1, <1>5 DEF DiskType
    <2> HIDE DEF mine
    <2> DEFINE r == Append(IF Len(mine) = 2 THEN Tail(mine) ELSE mine, s)
    <2>3. /\ r \in Seq(Disk!Sample) /\ Len(r) \in 1..2 /\ r[Len(r)] = s
          /\ Len(mine) > 0 => Len(r) = 2 /\ r[1] = mine[Len(mine)]
      BY <2>1, <2>2, LastTwo, Zenon
    <2>4. seen'[s.mount] = r
      BY <1>6
    <2> HIDE DEF r
    <2> QED
      BY <2>3, <2>4
  <1>8. DiskType'
    <2>1. ASSUME NEW m \in Mounts PROVE seen'[m] \in Seq(Disk!Sample) /\ Len(seen'[m]) \in 0..2
      <3>1. CASE m = s.mount
        BY <1>7, <3>1
      <3>2. CASE m # s.mount
        BY <1>1, <1>6, <3>2 DEF DiskType
      <3> QED
        BY <3>1, <3>2
    <2> QED
      BY <1>2, <1>6, <2>1 DEF DiskType
  <1>9. ASSUME NEW m \in Mounts, NEW i \in DOMAIN samples', i + d <= n, NEW k \in Int, i < k,
               i \in Disk!LastBefore(m, k)'
        PROVE  i + d \in Disk!LastBefore(m, k + d)
    <2>1. samples'[i].mount = m /\ \A j \in DOMAIN samples' : i < j /\ j < k => samples'[j].mount # m
      BY <1>9 DEF Disk!LastBefore
    <2>2. i + d \in DOMAIN samples /\ samples[i + d].mount = m /\ i + d < k + d
      BY <1>1, <1>3, <1>4, <1>9, <2>1
    <2>3. ASSUME NEW j \in DOMAIN samples, i + d < j, j < k + d
          PROVE  samples[j].mount # m
      <3>1. j - d \in DOMAIN samples' /\ samples'[j - d] = samples[j]
        BY <1>1, <1>3, <1>4, <2>3
      <3>2. i < j - d /\ j - d < k
        BY <1>1, <1>3, <2>3
      <3> QED
        BY <2>1, <3>1, <3>2
    <2> QED
      BY <2>2, <2>3 DEF Disk!LastBefore
  <1> SUFFICES ASSUME NEW m \in Mounts, NEW i \in Disk!Newest(m)'
               PROVE  /\ Len(seen'[m]) > 0 /\ samples'[i] = seen'[m][Len(seen'[m])]
                      /\ \A j \in Disk!LastBefore(m, i)' : Len(seen'[m]) = 2 /\ samples'[j] = seen'[m][1]
    BY <1>8 DEF DiskInv, Disk!Newest, Disk!LastBefore
  <1>11. /\ i \in DOMAIN samples' /\ i < n + 2 - d /\ samples'[i].mount = m
         /\ \A j \in DOMAIN samples' : i < j /\ j < n + 2 - d => samples'[j].mount # m
         /\ i \in Disk!LastBefore(m, n + 2 - d)'
    <2>1. /\ i \in DOMAIN samples' /\ i < Len(samples') + 1 /\ samples'[i].mount = m
          /\ \A j \in DOMAIN samples' : i < j /\ j < Len(samples') + 1 => samples'[j].mount # m
      BY DEF Disk!LastBefore, Disk!Newest
    <2>2. Len(samples') + 1 = n + 2 - d
      BY <1>1, <1>2
    <2>3. /\ i < n + 2 - d
          /\ \A j \in DOMAIN samples' : i < j /\ j < n + 2 - d => samples'[j].mount # m
      BY <2>1, <2>2, Zenon
    <2> QED
      BY <2>1, <2>3 DEF Disk!LastBefore
  <1>12. ASSUME NEW j \in Disk!LastBefore(m, i)'
         PROVE  j \in DOMAIN samples' /\ j < i /\ j + d <= n /\ j + d \in Disk!LastBefore(m, i + d)
    <2>1. j \in DOMAIN samples' /\ j < i
      BY <1>12 DEF Disk!LastBefore
    <2>2. j + d <= n /\ i \in Int
      BY <1>1, <1>3, <1>11, <2>1
    <2> QED
      BY <1>9, <1>12, <2>1, <2>2
  <1>13. CASE m # s.mount
    <2>1. i + d <= n
      BY <1>1, <1>3, <1>4, <1>11, <1>13
    <2>2. i + d \in Disk!LastBefore(m, (n + 2 - d) + d)
      <3>1. n + 2 - d \in Int
        BY <1>1
      <3> QED
        BY <1>9, <1>11, <2>1, <3>1
    <2>3. i + d \in Disk!Newest(m)
      <3>1. i + d < n + 1 /\ (n + 2 - d) + d = n + 2
        BY <1>1, <1>3, <1>11, <2>1
      <3>2. /\ i + d \in DOMAIN samples /\ samples[i + d].mount = m
            /\ \A j \in DOMAIN samples : i + d < j /\ j < n + 2 => samples[j].mount # m
        BY <2>2, <3>1 DEF Disk!LastBefore
      <3>3. \A j \in DOMAIN samples : j < n + 2
        BY <1>1
      <3> QED
        BY <3>1, <3>2, <3>3 DEF Disk!Newest, Disk!LastBefore
    <2>4. Len(seen[m]) > 0 /\ samples[i + d] = seen[m][Len(seen[m])]
      BY <2>3 DEF DiskInv
    <2>5. \A j \in Disk!LastBefore(m, i + d) : Len(seen[m]) = 2 /\ samples[j] = seen[m][1]
      BY <2>3 DEF DiskInv
    <2> QED
      BY <1>4, <1>6, <1>11, <1>12, <1>13, <2>1, <2>4, <2>5
  <1>14. CASE m = s.mount
    <2>1. i + d = n + 1
      <3> SUFFICES ASSUME i + d # n + 1 PROVE FALSE
        OBVIOUS
      <3>1. i + d <= n /\ n + 1 - d \in DOMAIN samples' /\ i < n + 1 - d /\ (n + 1 - d) + d > n
        BY <1>1, <1>3, <1>11
      <3>2. samples'[n + 1 - d] = s
        BY <1>4, <3>1
      <3>3. n + 1 - d < n + 2 - d
        BY <1>1
      <3> QED
        BY <1>11, <1>14, <3>1, <3>2, <3>3
    <2>2. samples'[i] = s
      BY <1>1, <1>4, <1>11, <2>1
    <2>3. ASSUME NEW j \in Disk!LastBefore(m, i)'
          PROVE  Len(seen'[m]) = 2 /\ samples'[j] = seen'[m][1]
      <3>1. j \in DOMAIN samples' /\ j + d <= n /\ j + d \in Disk!LastBefore(m, n + 1)
        BY <1>12, <2>1
      <3>2. j + d \in Disk!Newest(m)
        BY <3>1 DEF Disk!Newest
      <3>3. Len(mine) > 0 /\ samples[j + d] = mine[Len(mine)]
        BY <1>14, <3>2 DEF DiskInv
      <3> QED
        BY <1>4, <1>7, <1>14, <3>1, <3>3
    <2>4. Len(seen'[s.mount]) > 0
      <3>1. Len(seen'[s.mount]) \in 1..2
        BY <1>7, Zenon
      <3>2. \A x \in 1..2 : x > 0
        OBVIOUS
      <3> QED
        BY <3>1, <3>2, Zenon
    <2>5. samples'[i] = seen'[m][Len(seen'[m])]
      BY <1>7, <1>14, <2>2, Zenon
    <2> QED
      BY <1>14, <2>3, <2>4, <2>5
  <1> QED
    BY <1>13, <1>14

LEMMA SeverityRange ==
  ASSUME NEW s
  PROVE  Disk!Severity(s) \in 0..3 /\ (Disk!Recommend(Disk!Severity(s)) = "None" => Disk!Severity(s) = 0)
  <1>1. Disk!Severity(s) \in {0, 1, 2, 3}
    BY DEF Disk!Severity
  <1>2. \A v \in {1, 2, 3} : Disk!Recommend(v) # "None"
    BY DEF Disk!Recommend
  <1> QED
    BY <1>1, <1>2

LEMMA Concluded ==
  ASSUME DiskInv
  PROVE  ConclusionsAreCurrent
  <1> SUFFICES ASSUME NEW m \in Mounts
               PROVE  LET s == seen[m] n == Len(s) IN
                 /\ Disk!LatestFor(m) # {} => n > 0 /\ Disk!LatestFor(m) = {s[n]}
                 /\ \A v \in 0..3 : m \in Disk!MountsAtOrAbove(v) =>
                      n > 0 /\ Disk!Severity(s[n]) >= v /\ (Disk!Recommend(Disk!Severity(s[n])) = "None" => v = 0)
                 /\ \A eta \in Disk!EstimatedTimeToFull(m) :
                      /\ n = 2 /\ s[1].at < s[2].at /\ s[1].used < s[2].used
                      /\ eta = ((Total - s[2].used) * (s[2].at - s[1].at)) \div (s[2].used - s[1].used)
    BY Zenon DEF ConclusionsAreCurrent, Disk!ConclusionsAreCurrent
  <1> DEFINE s == seen[m]
             n == Len(s)
  <1>1. /\ \A i \in Disk!Newest(m) : n > 0 /\ samples[i] = s[n]
        /\ \A i \in Disk!Newest(m) : \A j \in Disk!LastBefore(m, i) : n = 2 /\ samples[j] = s[1]
    BY DEF DiskInv
  <1>2. s \in Seq(Disk!Sample)
    BY DEF DiskInv, DiskType
  <1> HIDE DEF n, s
  <1>3. Disk!LatestFor(m) # {} => n > 0 /\ Disk!LatestFor(m) = {s[n]}
    BY <1>1 DEF Disk!LatestFor
  <1>4. ASSUME NEW v \in 0..3, m \in Disk!MountsAtOrAbove(v)
        PROVE  n > 0 /\ Disk!Severity(s[n]) >= v /\ (Disk!Recommend(Disk!Severity(s[n])) = "None" => v = 0)
    <2>1. PICK i \in Disk!Newest(m) : Disk!Severity(samples[i]) >= v
      BY <1>4 DEF Disk!MountsAtOrAbove
    <2>2. n > 0 /\ Disk!Severity(s[n]) >= v
      BY <1>1, <2>1
    <2> QED
      BY <2>2, SeverityRange
  <1>5. ASSUME NEW eta \in Disk!EstimatedTimeToFull(m)
        PROVE  /\ n = 2 /\ s[1].at < s[2].at /\ s[1].used < s[2].used
               /\ eta = ((Total - s[2].used) * (s[2].at - s[1].at)) \div (s[2].used - s[1].used)
    <2>1. PICK l \in Disk!LatestFor(m), r \in {x \in Disk!GrowthRate(m) : x.used > 0} :
            eta = ((Total - l.used) * r.at) \div r.used
      BY <1>5 DEF Disk!EstimatedTimeToFull
    <2>2. r \in Disk!GrowthRate(m) /\ r.used > 0
      BY <2>1
    <2>3. PICK p \in Disk!LatestTwo(m) :
            r = [used |-> samples[p[1]].used - samples[p[2]].used,
                 at |-> samples[p[1]].at - samples[p[2]].at]
      BY <2>2, Zenon DEF Disk!GrowthRate
    <2>4. r.at > 0
      BY <2>2 DEF Disk!GrowthRate
    <2>5. p[1] \in Disk!Newest(m) /\ p[2] \in Disk!LastBefore(m, p[1])
      BY DEF Disk!LatestTwo
    <2>6. n = 2 /\ samples[p[1]] = s[2] /\ samples[p[2]] = s[1] /\ l = s[2]
      BY <1>1, <1>3, <2>1, <2>5
    <2>7. r.used = s[2].used - s[1].used /\ r.at = s[2].at - s[1].at
      BY <2>3, <2>6
    <2>8. s[1] \in Disk!Sample /\ s[2] \in Disk!Sample
      <3>1. Len(s) = 2 /\ 1 \in 1..2 /\ 2 \in 1..2
        BY <2>6 DEF n
      <3> QED
        BY <1>2, <3>1, ElementOfSeq
    <2>9. s[1].used \in Int /\ s[2].used \in Int /\ s[1].at \in Int /\ s[2].at \in Int
      BY <2>8, SampleFields
    <2>10. s[1].at < s[2].at /\ s[1].used < s[2].used
      BY <2>2, <2>4, <2>7, <2>9
    <2>11. eta = ((Total - s[2].used) * (s[2].at - s[1].at)) \div (s[2].used - s[1].used)
      BY <2>1, <2>6, <2>7, Zenon
    <2> QED
      BY <2>6, <2>10, <2>11
  <1> QED
    BY <1>3, <1>4, <1>5, Zenon DEF n, s

(* However many mounts report and push each other's samples out, an alarm, *)
(* a recommended wipe and a forecast are about the newest readings of the  *)
(* mount they name.                                                        *)
THEOREM NothingSuperseded == BookSpec => []ConclusionsAreCurrent
  <1>1. BookInit => DiskInv
    <2> SUFFICES ASSUME BookInit PROVE DiskInv
      OBVIOUS
    <2>1. samples = <<>> /\ seen = [m \in Mounts |-> <<>>]
      BY DEF BookInit, Disk!Init
    <2>2. \A m \in Mounts : Disk!Newest(m) = {}
      BY <2>1 DEF Disk!Newest, Disk!LastBefore
    <2> QED
      BY <2>1, <2>2 DEF DiskInv, DiskType
  <1>2. DiskInv /\ [BookNext]_allVars => DiskInv'
    <2> SUFFICES ASSUME DiskInv, [BookNext]_allVars PROVE DiskInv'
      OBVIOUS
    <2>1. CASE UNCHANGED diskVars
      BY <2>1 DEF diskVars, DiskInv, DiskType, Disk!Newest, Disk!LastBefore
    <2>2. CASE Disk!Next
      BY <2>2, StepDisk DEF Disk!Next
    <2> QED
      BY <2>1, <2>2, Parts
  <1>3. DiskInv => ConclusionsAreCurrent
    BY Concluded
  <1> QED
    BY <1>1, <1>2, <1>3, PTL DEF BookSpec

-----------------------------------------------------------------------------
(***************************************************************************)
(* SnapshotManager.  What has been pushed out is older than all that is    *)
(* kept, and room for max_snapshots was filled when it went.               *)
(***************************************************************************)
Newer(id) == {j \in Snapshots!Kept \cup deleted : j > id}

PushedOutIsOlder ==
  \A id \in (1..next_id) \ (Snapshots!Kept \cup deleted) :
    Cardinality(Newer(id)) >= MaxSnapshots /\ \A k \in Snapshots!Kept : k > id

SnapshotInv ==
  /\ snapshots \in Seq([id : Nat, files : Snapshots!Files])
  /\ next_id \in Nat /\ deleted \subseteq 1..next_id
  /\ Snapshots!Kept \subseteq 1..next_id
  /\ \A i, j \in DOMAIN snapshots : i < j => snapshots[i].id < snapshots[j].id
  /\ PushedOutIsOlder

LEMMA NewerFinite ==
  ASSUME SnapshotInv, NEW id
  PROVE  IsFiniteSet(Newer(id))
  <1>1. IsFiniteSet(1..next_id)
    BY FS_Interval DEF SnapshotInv
  <1>2. Newer(id) \in SUBSET (1..next_id)
    BY DEF SnapshotInv, Newer
  <1> QED
    BY <1>1, <1>2, FS_Subset

(* The cardinality that SnapshotManager speaks of is that of FiniteSets.   *)
LEMMA SameCardinality ==
  ASSUME NEW S
  PROVE  Snapshots!Cardinality(S) = Cardinality(S)
  BY Zenon DEF Snapshots!Cardinality, Cardinality

(* The list of a difference never holds a path that did not change.        *)
LEMMA Differ ==
  ASSUME NEW a \in Snapshots!Kept, NEW b \in Snapshots!Kept, NEW p \in Paths
  PROVE  LET d == Snapshots!Diff(a, b) IN
           p \in d.added \cup d.removed \cup d.modified
             <=> Snapshots!Get(a).files[p] # Snapshots!Get(b).files[p]
  <1> DEFINE o == Snapshots!Get(a).files  n == Snapshots!Get(b).files
             O == {q \in Paths : o[q] # Snapshots!Gone}
             N == {q \in Paths : n[q] # Snapshots!Gone}
             M == {q \in O \cap N : o[q] # n[q]}
  <1>1. Snapshots!Diff(a, b) = [added |-> N \ O, removed |-> O \ N, modified |-> M]
    BY Zenon DEF Snapshots!Diff
  <1>2. p \in (N \ O) \cup (O \ N) \cup M <=> o[p] # n[p]
    <2> HIDE DEF o, n
    <2> QED
      OBVIOUS
  <1> QED
    BY <1>1, <1>2

LEMMA StepCreate ==
  ASSUME SnapshotInv, NEW f \in Snapshots!Files, Snapshots!Create(f)
  PROVE  SnapshotInv'
  <1> DEFINE Snapshot == [id : Nat, files : Snapshots!Files]
             new == [id |-> next_id + 1, files |-> f]
  <1>1. next_id \in Nat /\ next_id' = next_id + 1 /\ deleted' = deleted /\ MaxSnapshots \in Nat
    <2>1. MaxSnapshots \in Nat
      BY BookAssumption, Zenon
    <2> QED
      BY <2>1 DEF SnapshotInv, Snapshots!Create
  <1>2. new \in Snapshot /\ new.id = next_id + 1
    BY <1>1
  <1>3. snapshots \in Seq(Snapshot)
    BY DEF SnapshotInv
  <1> PICK n \in Nat : n = Len(snapshots)
    BY <1>3, LenProperties
  <1>4. DOMAIN snapshots = 1..n
    BY <1>3, LenProperties
  <1> DEFINE s == Append(snapshots, new)
  <1>5. /\ s \in Seq(Snapshot) /\ Len(s) = n + 1 /\ DOMAIN s = 1..(n + 1) /\ s[n + 1] = new
        /\ \A i \in 1..n : s[i] = snapshots[i]
    BY <1>2, <1>3, <1>4, AppendProperties, LenProperties
  <1>6. snapshots' = LET excess == Len(s) - MaxSnapshots
                     IN IF excess > 0 THEN SubSeq(s, excess + 1, Len(s)) ELSE s
    BY Zenon DEF Snapshots!Create
  <1> HIDE DEF s, new, Snapshot
  <1>7. \E e \in 0..(n + 1) :
          /\ snapshots' \in Seq(Snapshot) /\ DOMAIN snapshots' = 1..(n + 1 - e)
          /\ \A i \in 1..(n + 1 - e) : snapshots'[i] = s[i + e]
          /\ e > 0 => n + 1 - e = MaxSnapshots
    <2>1. CASE n + 1 > MaxSnapshots
      <3> DEFINE e == n + 1 - MaxSnapshots
      <3>1. e \in 1..(n + 1) /\ n + 1 - e = MaxSnapshots /\ e > 0
        BY <1>1, <2>1
      <3>2. Len(s) = n + 1 /\ Len(s) - MaxSnapshots = e
        <4>1. Len(s) = n + 1
          BY <1>5, Zenon
        <4>2. Len(s) - MaxSnapshots = n + 1 - MaxSnapshots
          BY <1>1, <4>1
        <4> QED
          BY <4>1, <4>2, Zenon
      <3> HIDE DEF e
      <3>3. snapshots' = SubSeq(s, e + 1, n + 1)
        BY <1>6, <3>1, <3>2, Zenon
      <3>4. /\ SubSeq(s, e + 1, n + 1) \in Seq(Snapshot)
            /\ Len(SubSeq(s, e + 1, n + 1)) = n + 1 - e
            /\ \A i \in 1..(n + 1 - e) : SubSeq(s, e + 1, n + 1)[i] = s[i + e]
        BY <1>5, <3>1
      <3>5. DOMAIN snapshots' = 1..(n + 1 - e)
        BY <3>3, <3>4, LenProperties
      <3> QED
        BY <3>1, <3>3, <3>4, <3>5
    <2>2. CASE ~(n + 1 > MaxSnapshots)
      <3>1. snapshots' = s
        BY <1>1, <1>5, <1>6, <2>2
      <3>2. /\ snapshots' \in Seq(Snapshot) /\ DOMAIN snapshots' = 1..(n + 1 - 0)
            /\ \A i \in 1..(n + 1 - 0) : snapshots'[i] = s[i + 0]
        BY <1>5, <3>1
      <3> QED
        BY <3>2
    <2> QED
      BY <2>1, <2>2
  <1>8. PICK e \in 0..(n + 1) :
          /\ snapshots' \in Seq(Snapshot) /\ DOMAIN snapshots' = 1..(n + 1 - e)
          /\ \A i \in 1..(n + 1 - e) : snapshots'[i] = s[i + e]
          /\ e > 0 => n + 1 - e = MaxSnapshots
    BY <1>7
  <1>9. \A i \in 1..n : snapshots[i].id \in 1..next_id
    BY <1>4 DEF SnapshotInv, Snapshots!Kept
  <1>10. /\ \A i \in 1..(n + 1) : s[i].id \in 1..(next_id + 1)
         /\ \A i \in 1..n : s[i].id \in Snapshots!Kept
         /\ \A i, j \in 1..(n + 1) : i < j => s[i].id < s[j].id
    <2>1. \A i \in 1..(n + 1) : i \in 1..n \/ i = n + 1
      OBVIOUS
    <2>2. \A i, j \in 1..n : i < j => s[i].id < s[j].id
      BY <1>4, <1>5 DEF SnapshotInv
    <2>3. s[n + 1].id = next_id + 1 /\ \A i \in 1..n : s[i].id \in 1..next_id
      BY <1>2, <1>5, <1>9
    <2>4. \A i \in 1..n : s[i].id < next_id + 1
      BY <1>1, <2>3
    <2>5. \A i, j \in 1..(n + 1) : i < j => i \in 1..n
      OBVIOUS
    <2>6. \A i, j \in 1..(n + 1) : i < j => s[i].id < s[j].id
      BY <2>1, <2>2, <2>3, <2>4, <2>5
    <2>7. \A i \in 1..n : s[i].id \in Snapshots!Kept
      BY <1>4, <1>5 DEF Snapshots!Kept
    <2> QED
      BY <1>1, <2>1, <2>3, <2>6, <2>7
  <1>11. \A i \in 1..(n + 1 - e) : i + e \in 1..(n + 1)
    OBVIOUS
  <1>12. \A i, j \in DOMAIN snapshots' : i < j => snapshots'[i].id < snapshots'[j].id
    BY <1>8, <1>10, <1>11
  <1>13. /\ Snapshots!Kept' = {s[i].id : i \in (e + 1)..(n + 1)}
         /\ Snapshots!Kept' \subseteq 1..next_id'
    <2>1. Snapshots!Kept' = {snapshots'[i].id : i \in 1..(n + 1 - e)}
      BY <1>8 DEF Snapshots!Kept
    <2>2. \A i \in 1..(n + 1 - e) : snapshots'[i].id = s[i + e].id
      BY <1>8
    <2>3. \A j \in (e + 1)..(n + 1) : j - e \in 1..(n + 1 - e) /\ (j - e) + e = j
      OBVIOUS
    <2>4. Snapshots!Kept' = {s[i].id : i \in (e + 1)..(n + 1)}
      <3>1. ASSUME NEW i \in 1..(n + 1 - e)
            PROVE  \E j \in (e + 1)..(n + 1) : snapshots'[i].id = s[j].id
        <4>1. i + e \in (e + 1)..(n + 1)
          OBVIOUS
        <4> QED
          BY <2>2, <4>1
      <3>2. ASSUME NEW j \in (e + 1)..(n + 1)
            PROVE  \E i \in 1..(n + 1 - e) : snapshots'[i].id = s[j].id
        <4>1. j - e \in 1..(n + 1 - e) /\ (j - e) + e = j
          BY <2>3
        <4>2. snapshots'[j - e].id = s[j].id
          BY <2>2, <4>1
        <4> QED
          BY <4>1, <4>2
      <3>3. ASSUME NEW x \in Snapshots!Kept'
            PROVE  x \in {s[i].id : i \in (e + 1)..(n + 1)}
        <4>1. PICK i \in 1..(n + 1 - e) : x = snapshots'[i].id
          BY <2>1
        <4>2. PICK j \in (e + 1)..(n + 1) : snapshots'[i].id = s[j].id
          BY <3>1
        <4> QED
          BY <4>1, <4>2
      <3>4. {s[i].id : i \in (e + 1)..(n + 1)} \subseteq Snapshots!Kept'
        BY <2>1, <3>2
      <3> QED
        BY <3>3, <3>4
    <2>5. \A i \in (e + 1)..(n + 1) : i \in 1..(n + 1)
      OBVIOUS
    <2> QED
      BY <1>1, <1>10, <2>4, <2>5
  <1>14. deleted' \subseteq 1..next_id'
    BY <1>1 DEF SnapshotInv
  <1>15. IsFiniteSet(1..next_id')
    BY <1>1, FS_Interval
  <1>16. \A id : Newer(id)' \in SUBSET (1..next_id')
    BY <1>13, <1>14 DEF Newer
  (* With the list full, all of it is newer than what is not in it. *)
  <1>17. ASSUME e > 0, NEW id \in Nat, \A k \in Snapshots!Kept' : k > id
         PROVE  Cardinality(Newer(id)') >= MaxSnapshots
    <2> DEFINE g == [i \in 1..MaxSnapshots |-> snapshots'[i].id]
    <2>1. DOMAIN snapshots' = 1..MaxSnapshots
      BY <1>8, <1>17
    <2>2. ASSUME NEW i \in 1..MaxSnapshots
          PROVE  snapshots'[i].id \in Newer(id)' /\ snapshots'[i].id \in Int
      <3>1. snapshots'[i].id \in Snapshots!Kept'
        BY <2>1 DEF Snapshots!Kept
      <3>2. snapshots'[i].id > id
        BY <1>17, <3>1
      <3>3. snapshots'[i].id \in Newer(id)'
        BY <3>1, <3>2 DEF Newer
      <3>4. snapshots'[i].id \in 1..next_id'
        BY <1>13, <3>1
      <3> QED
        BY <3>3, <3>4
    <2>3. ASSUME NEW i \in 1..MaxSnapshots, NEW j \in 1..MaxSnapshots, g[i] = g[j]
          PROVE  i = j
      <3>1. /\ snapshots'[i].id = snapshots'[j].id
            /\ snapshots'[i].id \in Int /\ snapshots'[j].id \in Int
        BY <2>2, <2>3
      <3>2. i < j \/ j < i \/ i = j
        BY <1>1
      <3>3. i < j => snapshots'[i].id < snapshots'[j].id
        BY <1>12, <2>1
      <3>4. j < i => snapshots'[j].id < snapshots'[i].id
        BY <1>12, <2>1
      <3> QED
        BY <3>1, <3>2, <3>3, <3>4
    <2>4. g \in [1..MaxSnapshots -> Newer(id)']
      BY <2>2
    <2>5. g \in Injection(1..MaxSnapshots, Newer(id)')
      BY <2>3, <2>4, Fun_IsInj
    <2>6. IsFiniteSet(Newer(id)')
      BY <1>15, <1>16, FS_Subset
    <2>7. Cardinality(1..MaxSnapshots) <= Cardinality(Newer(id)')
      BY <2>5, <2>6, FS_Injection
    <2>8. Cardinality(1..MaxSnapshots) = MaxSnapshots
      BY <1>1, FS_Interval
    <2>9. Cardinality(Newer(id)') \in Nat
      BY <2>6, FS_CardinalityType
    <2> QED
      BY <1>1, <2>7, <2>8, <2>9
  <1>18. ASSUME NEW id \in 1..next_id', id \notin Snapshots!Kept' \cup deleted'
         PROVE  Cardinality(Newer(id)') >= MaxSnapshots /\ \A k \in Snapshots!Kept' : k > id
    <2>1. CASE e = 0
      <3>1. Snapshots!Kept' = Snapshots!Kept \cup {next_id + 1}
        <4>1. \A i \in 1..n : s[i].id = snapshots[i].id
          BY <1>5
        <4>2. Snapshots!Kept = {s[i].id : i \in 1..n}
          BY <1>4, <4>1 DEF Snapshots!Kept
        <4>3. s[n + 1].id = next_id + 1
          BY <1>2, <1>5
        <4>4. (e + 1)..(n + 1) = (1..n) \cup {n + 1}
          BY <2>1
        <4> QED
          BY <1>13, <4>2, <4>3, <4>4
      <3>2. id \in 1..next_id /\ id \notin Snapshots!Kept \cup deleted
        BY <1>1, <1>18, <3>1
      <3>3. Cardinality(Newer(id)) >= MaxSnapshots /\ \A k \in Snapshots!Kept : k > id
        BY <3>2 DEF SnapshotInv, PushedOutIsOlder
      <3>4. Newer(id) \in SUBSET Newer(id)'
        BY <1>1, <3>1 DEF Newer
      <3>5. IsFiniteSet(Newer(id)')
        BY <1>15, <1>16, FS_Subset
      <3>6. Cardinality(Newer(id)) <= Cardinality(Newer(id)')
        BY <3>4, <3>5, FS_Subset
      <3>7. Cardinality(Newer(id)) \in Nat /\ Cardinality(Newer(id)') \in Nat
        BY <3>5, NewerFinite, FS_CardinalityType
      <3> QED
        BY <1>1, <3>1, <3>2, <3>3, <3>6, <3>7
    <2>2. CASE e > 0
      <3>1. ASSUME NEW k \in Snapshots!Kept' PROVE k > id
        <4>1. PICK i \in (e + 1)..(n + 1) : k = s[i].id
          BY <1>13
        <4>2. CASE \E j \in 1..e : id = s[j].id
          <5>1. PICK j \in 1..e : id = s[j].id
            BY <4>2
          <5>2. j \in 1..(n + 1) /\ i \in 1..(n + 1) /\ j < i
            OBVIOUS
          <5> QED
            BY <1>10, <4>1, <5>1, <5>2
        <4>3. CASE ~\E j \in 1..e : id = s[j].id
          <5>1. id \notin {s[j].id : j \in 1..(n + 1)}
            <6>1. \A j \in 1..(n + 1) : j \in 1..e \/ j \in (e + 1)..(n + 1)
              OBVIOUS
            <6> QED
              BY <1>13, <1>18, <4>3, <6>1
          <5>2. id \notin Snapshots!Kept \cup deleted /\ id # next_id + 1
            <6>1. id \notin Snapshots!Kept
              BY <1>4, <1>5, <5>1 DEF Snapshots!Kept
            <6>2. id # next_id + 1
              BY <1>2, <1>5, <5>1
            <6> QED
              BY <1>1, <1>18, <6>1, <6>2
          <5>3. \A x \in Snapshots!Kept : x > id
            BY <1>1, <1>18, <5>2 DEF SnapshotInv, PushedOutIsOlder
          <5>4. k \in Snapshots!Kept \/ k = next_id + 1
            BY <1>2, <1>5, <1>10, <4>1
          <5> QED
            BY <1>1, <1>18, <5>2, <5>3, <5>4
        <4> QED
          BY <4>2, <4>3
      <3>2. id \in Nat
        BY <1>1
      <3> QED
        BY <1>17, <2>2, <3>1, <3>2
    <2> QED
      BY <2>1, <2>2
  <1>19. /\ snapshots' \in Seq([id : Nat, files : Snapshots!Files]) /\ next_id' \in Nat
         /\ Snapshots!Kept' \subseteq 1..next_id'
    BY <1>1, <1>8, <1>13 DEF Snapshot
  <1> QED
    <2>1. PushedOutIsOlder'
      BY <1>18 DEF PushedOutIsOlder, Newer
    <2> QED
      BY <1>12, <1>14, <1>19, <2>1 DEF SnapshotInv

LEMMA StepDelete ==
  ASSUME SnapshotInv, NEW id \in Snapshots!Kept, Snapshots!Delete(id)
  PROVE  SnapshotInv'
  <1> DEFINE Snapshot == [id : Nat, files : Snapshots!Files]
  <1>1. PICK k \in DOMAIN snapshots :
          snapshots[k].id = id /\ snapshots' = Snapshots!RemoveAt(snapshots, k)
    BY DEF Snapshots!Delete
  <1>2. deleted' = deleted \cup {id} /\ next_id' = next_id
    BY DEF Snapshots!Delete
  <1>3. snapshots \in Seq(Snapshot)
    BY DEF SnapshotInv
  <1> HIDE DEF Snapshot
  <1> PICK n \in Nat : n = Len(snapshots)
    BY <1>3, LenProperties
  <1>4. DOMAIN snapshots = 1..n /\ k \in 1..n
    BY <1>3, LenProperties
  <1>5. /\ snapshots' \in Seq(Snapshot) /\ Len(snapshots') = n - 1
        /\ \A j \in 1..(n - 1) : snapshots'[j] = IF j < k THEN snapshots[j] ELSE snapshots[j + 1]
    BY <1>1, <1>3, <1>4, WithoutOne DEF Snapshots!RemoveAt
  <1>6. DOMAIN snapshots' = 1..(n - 1)
    BY <1>5, LenProperties
  <1> DEFINE old(j) == IF j < k THEN j ELSE j + 1
  <1>7. /\ \A j \in 1..(n - 1) : snapshots'[j] = snapshots[old(j)]
        /\ \A j \in 1..(n - 1) : old(j) \in (1..n) \ {k}
        /\ \A i, j \in 1..(n - 1) : i < j => old(i) < old(j)
    BY <1>4, <1>5
  <1>8. \A m \in 1..n : m # k => \E j \in 1..(n - 1) : old(j) = m
    <2> SUFFICES ASSUME NEW m \in 1..n, m # k PROVE \E j \in 1..(n - 1) : old(j) = m
      OBVIOUS
    <2>1. CASE m < k
      <3>1. m \in 1..(n - 1) /\ old(m) = m
        BY <1>4, <2>1
      <3> QED
        BY <3>1
    <2>2. CASE m > k
      <3>1. m - 1 \in 1..(n - 1) /\ old(m - 1) = m
        BY <1>4, <2>2
      <3> QED
        BY <3>1
    <2> QED
      BY <1>4, <2>1, <2>2
  <1> HIDE DEF old
  <1>9. \A i, j \in 1..n : i < j => snapshots[i].id < snapshots[j].id
    BY <1>4 DEF SnapshotInv
  <1>10. \A i \in 1..n : snapshots[i].id \in Int
    BY <1>4 DEF SnapshotInv, Snapshots!Kept
  <1>11. \A m \in (1..n) \ {k} : snapshots[m].id # id
    <2> SUFFICES ASSUME NEW m \in 1..n, m # k PROVE snapshots[m].id # snapshots[k].id
      BY <1>1
    <2>1. m < k \/ k < m
      BY <1>4
    <2>2. /\ m < k => snapshots[m].id < snapshots[k].id
          /\ k < m => snapshots[k].id < snapshots[m].id
      BY <1>4, <1>9
    <2>3. snapshots[m].id \in Int /\ snapshots[k].id \in Int
      BY <1>4, <1>10
    <2> QED
      BY <2>1, <2>2, <2>3
  <1>12. Snapshots!Kept' = Snapshots!Kept \ {id}
    <2>1. ASSUME NEW x \in Snapshots!Kept' PROVE x \in Snapshots!Kept \ {id}
      <3>1. PICK j \in 1..(n - 1) : x = snapshots'[j].id
        BY <1>6 DEF Snapshots!Kept
      <3>2. x = snapshots[old(j)].id /\ old(j) \in (1..n) \ {k}
        BY <1>7, <3>1
      <3> QED
        BY <1>4, <1>11, <3>2 DEF Snapshots!Kept
    <2>2. ASSUME NEW x \in Snapshots!Kept, x # id PROVE x \in Snapshots!Kept'
      <3>1. PICK m \in 1..n : x = snapshots[m].id
        BY <1>4 DEF Snapshots!Kept
      <3>2. PICK j \in 1..(n - 1) : old(j) = m
        BY <1>1, <1>8, <2>2, <3>1
      <3>3. x = snapshots'[j].id
        BY <1>7, <3>1, <3>2
      <3> QED
        BY <1>6, <3>3 DEF Snapshots!Kept
    <2> QED
      BY <2>1, <2>2
  <1>13. \A i, j \in DOMAIN snapshots' : i < j => snapshots'[i].id < snapshots'[j].id
    BY <1>6, <1>7, <1>9
  <1>14. Snapshots!Kept' \cup deleted' = Snapshots!Kept \cup deleted
    BY <1>2, <1>12
  <1>15. \A x : Newer(x)' = Newer(x)
    BY <1>14 DEF Newer
  <1>16. PushedOutIsOlder'
    BY <1>2, <1>12, <1>14, <1>15 DEF SnapshotInv, PushedOutIsOlder, Newer
  <1>17. /\ next_id' \in Nat /\ deleted' \subseteq 1..next_id' /\ Snapshots!Kept' \subseteq 1..next_id'
    BY <1>2, <1>12 DEF SnapshotInv
  <1> QED
    BY <1>5, <1>13, <1>16, <1>17 DEF SnapshotInv, Snapshot

(* Whatever is created and deleted: an id finds its one snapshot until it  *)
(* is deleted or as many newer ones were kept as there is room for, and    *)
(* between any two each changed path is in the difference, and no other.   *)
THEOREM IdsFindTheirs == BookSpec => []SnapshotsAreFound
  <1>1. BookInit => SnapshotInv
    <2> SUFFICES ASSUME BookInit PROVE SnapshotInv
      OBVIOUS
    <2>1. snapshots = <<>> /\ next_id = 0 /\ deleted = {}
      BY DEF BookInit, Snapshots!Init
    <2> QED
      BY <2>1 DEF SnapshotInv, PushedOutIsOlder, Snapshots!Kept
  <1>2. SnapshotInv /\ [BookNext]_allVars => SnapshotInv'
    <2> SUFFICES ASSUME SnapshotInv, [BookNext]_allVars PROVE SnapshotInv'
      OBVIOUS
    <2>1. CASE UNCHANGED snapshotVars
      <3>1. snapshots' = snapshots /\ next_id' = next_id /\ deleted' = deleted
        BY <2>1 DEF snapshotVars
      <3>2. Snapshots!Kept' = Snapshots!Kept
        BY <3>1 DEF Snapshots!Kept
      <3>3. PushedOutIsOlder'
        BY <3>1, <3>2 DEF SnapshotInv, PushedOutIsOlder, Newer
      <3> QED
        BY <3>1, <3>2, <3>3 DEF SnapshotInv
    <2>2. CASE Snapshots!Next
      BY <2>2, StepCreate, StepDelete DEF Snapshots!Next
    <2> QED
      BY <2>1, <2>2, Parts
  <1>3. SnapshotInv => SnapshotsAreFound
    <2> SUFFICES ASSUME SnapshotInv PROVE SnapshotsAreFound
      OBVIOUS
    <2>1. \A i, j \in DOMAIN snapshots : i < j => snapshots[i].id < snapshots[j].id
      BY DEF SnapshotInv
    <2>2. ASSUME NEW id \in 1..next_id, id \notin Snapshots!Kept \cup deleted
          PROVE  Cardinality({j \in Snapshots!Kept \cup deleted : j > id}) >= MaxSnapshots
      BY <2>2 DEF SnapshotInv, PushedOutIsOlder, Newer
    <2>3. \A a, b \in Snapshots!Kept : LET d == Snapshots!Diff(a, b) IN
            \A p \in Paths : p \in d.added \cup d.removed \cup d.modified
                               <=> Snapshots!Get(a).files[p] # Snapshots!Get(b).files[p]
      BY Differ, Zenon
    <2>4. \A id \in 1..next_id : id \in Snapshots!Kept \cup deleted
            \/ Snapshots!Cardinality({j \in Snapshots!Kept \cup deleted : j > id}) >= MaxSnapshots
      BY <2>2, SameCardinality
    <2> QED
      BY <2>1, <2>3, <2>4, Zenon DEF SnapshotsAreFound, Snapshots!SnapshotsAreFound
  <1> QED
    BY <1>1, <1>2, <1>3, PTL DEF BookSpec

-----------------------------------------------------------------------------
(***************************************************************************)
(* CronManager.  A task that has run has the run after that one ahead of   *)
(* it, and the next of a daily one is the next time its hour strikes.      *)
(***************************************************************************)
LEMMA NextStriking ==
  ASSUME NEW t \in Nat, NEW hour \in Nat, hour < Day
  PROVE  LET r == Cron!NextDaily(hour, t)
         IN  /\ r \in Nat /\ r > t /\ r % Day = hour
             /\ \A h \in t + 1 .. r - 1 : h % Day # hour
  <1>1. Day \in Nat \ {0}
    BY BookAssumption, Zenon
  <1> DEFINE q == t \div Day
             r == Cron!NextDaily(hour, t)
  <1>2. t = Day * q + (t % Day) /\ t % Day \in 0..(Day - 1) /\ q \in Nat
    BY <1>1, DivMod
  <1>3. r = IF q * Day + hour <= t THEN q * Day + hour + Day ELSE q * Day + hour
    BY DEF Cron!NextDaily, Cron!Midnight
  <1> HIDE DEF q, r
  <1> PICK m \in Nat : m = Day * q
    BY <1>1, <1>2
  <1>4. q * Day = m /\ m <= t /\ t < m + Day /\ Day * (q + 1) = m + Day
    BY <1>1, <1>2
  <1>5. r = (IF m + hour <= t THEN m + hour + Day ELSE m + hour) /\ r \in Nat /\ r > t
    BY <1>1, <1>3, <1>4
  <1>6. hour \in 0..(Day - 1)
    BY <1>1
  <1>7. r % Day = hour
    <2>1. CASE m + hour <= t
      <3>1. PICK u \in Nat : u = q + 1
        BY <1>2
      <3>2. r = Day * u + hour
        BY <1>1, <1>2, <1>4, <1>5, <2>1, <3>1
      <3>3. r \in Nat
        BY <1>5
      <3>4. u \in Nat /\ Day \in Nat \ {0}
        BY <1>1
      <3> QED
        BY <1>6, <3>2, <3>3, <3>4, ModUnique
    <2>2. CASE ~(m + hour <= t)
      <3>1. r = Day * q + hour
        BY <1>5, <2>2
      <3> QED
        BY <1>1, <1>2, <1>5, <1>6, <3>1, ModUnique
    <2> QED
      BY <2>1, <2>2
  <1>8. ASSUME NEW h \in t + 1 .. r - 1, h % Day = hour PROVE FALSE
    <2>1. h \in Nat /\ t < h /\ h < r
      BY <1>5, <1>8
    <2> DEFINE p == h \div Day
    <2>2. h = Day * p + hour /\ p \in Nat
      BY <1>1, <1>8, <2>1, DivMod
    <2> HIDE DEF p
    <2> PICK x \in Nat : x = Day * p
      BY <1>1, <2>2
    <2>3. h = x + hour
      BY <2>2
    (* Midnights are a day apart. *)
    <2>4. p = q => x = m
      OBVIOUS
    <2>5. p < q => x + Day <= m
      BY <1>1, <1>2, <2>2, Multiples
    <2>6. q < p => m + Day <= x
      BY <1>1, <1>2, <2>2, Multiples
    <2>7. CASE m + hour <= t
      <3>1. r = m + hour + Day
        BY <1>5, <2>7
      <3>2. m < x /\ x < m + Day
        BY <1>1, <2>1, <2>3, <2>7, <3>1
      <3> QED
        BY <1>1, <1>2, <2>2, <2>4, <2>5, <2>6, <3>2
    <2>8. CASE ~(m + hour <= t)
      <3>1. r = m + hour
        BY <1>5, <2>8
      <3>2. x < m /\ m < x + Day
        BY <1>1, <1>4, <2>1, <2>3, <3>1
      <3> QED
        BY <1>1, <1>2, <2>2, <2>4, <2>5, <2>6, <3>2
    <2> QED
      BY <2>7, <2>8
  <1> QED
    BY <1>5, <1>7, <1>8 DEF r

CronTask ==
  [schedule : [kind : {"daily", "interval", "session"}, n : Nat], last_run : Nat \cup {Cron!Never},
   next_run : Nat, enabled : BOOLEAN]

(* The next run is the one calculated when the task last ran. *)
Calculated(t) ==
  t.last_run # Cron!Never =>
    /\ t.last_run \in Nat /\ t.last_run <= now
    /\ t.next_run = Cron!CalculateNextRun(t.schedule, t.last_run)

CronInv ==
  /\ now \in Nat
  /\ crontab \in [CronNames -> CronTask \cup {Cron!Absent}]
  /\ \A n \in Cron!Known : Calculated(crontab[n])

LEMMA CronConstants ==
  /\ Schedules \subseteq [kind : {"daily", "interval", "session"}, n : Nat]
  /\ Day \in Nat \ {0} /\ FirstNow \in Nat
  <1>1. Schedules \subseteq [kind : {"daily", "interval", "session"}, n : Nat]
    BY BookAssumption, Zenon
  <1>2. Day \in Nat \ {0}
    BY BookAssumption, Zenon
  <1>3. FirstNow \in Nat
    BY BookAssumption, Zenon
  <1> QED
    BY <1>1, <1>2, <1>3

LEMMA CronAbsent == \A t \in CronTask : t # Cron!Absent
  BY DEF CronTask, Cron!Absent

LEMMA CronKnown ==
  ASSUME crontab \in [CronNames -> CronTask \cup {Cron!Absent}]
  PROVE  \A n \in CronNames : n \in Cron!Known <=> crontab[n] \in CronTask
  BY CronAbsent DEF Cron!Known

LEMMA NextRunType ==
  ASSUME NEW s \in [kind : {"daily", "interval", "session"}, n : Nat], NEW t \in Nat
  PROVE  Cron!CalculateNextRun(s, t) \in Nat
  <1>1. s.n \in Nat /\ s.kind \in {"daily", "interval", "session"}
    OBVIOUS
  <1>2. Day \in Nat \ {0}
    BY CronConstants
  <1>3. CASE s.kind = "daily"
    <2>1. t \div Day \in Nat
      BY <1>2, DivMod
    <2>2. (t \div Day) * Day \in Nat
      BY <1>2, <2>1
    <2>3. Cron!NextDaily(s.n, t) \in Nat
      BY <1>1, <1>2, <2>2 DEF Cron!NextDaily, Cron!Midnight
    <2> QED
      BY <1>3, <2>3 DEF Cron!CalculateNextRun
  <1>4. CASE s.kind = "interval"
    BY <1>1, <1>4 DEF Cron!CalculateNextRun
  <1>5. CASE s.kind = "session"
    BY <1>1, <1>2, <1>5 DEF Cron!CalculateNextRun, Cron!year
  <1> QED
    BY <1>1, <1>3, <1>4, <1>5

LEMMA StepCron ==
  ASSUME CronInv, Cron!Next \/ UNCHANGED cronVars
  PROVE  CronInv'
  <1> USE DEF CronInv
  <1>1. \A n \in CronNames : n \in Cron!Known <=> crontab[n] \in CronTask
    BY CronKnown
  <1>2. Schedules \subseteq [kind : {"daily", "interval", "session"}, n : Nat] /\ FirstNow \in Nat
    BY CronConstants
  (* What sets one task and leaves the time alone. *)
  <1>3. ASSUME NEW n \in CronNames, NEW t \in CronTask \cup {Cron!Absent},
               now' = now, crontab' = [crontab EXCEPT ![n] = t],
               t \in CronTask => Calculated(t)
        PROVE  CronInv'
    <2>1. crontab' \in [CronNames -> CronTask \cup {Cron!Absent}]
      BY <1>3
    <2>2. \A k \in CronNames : k \in Cron!Known' <=> crontab'[k] \in CronTask
      BY <2>1, CronAbsent DEF Cron!Known
    <2>3. ASSUME NEW k \in Cron!Known' PROVE Calculated(crontab'[k])
      <3>1. k \in CronNames /\ crontab'[k] \in CronTask
        BY <2>2 DEF Cron!Known
      <3>2. CASE k = n
        BY <1>3, <3>1, <3>2
      <3>3. CASE k # n
        <4>1. crontab'[k] = crontab[k] /\ k \in Cron!Known
          BY <1>1, <1>3, <3>1, <3>3
        <4> QED
          BY <4>1
      <3> QED
        BY <3>2, <3>3
    <2> QED
      BY <1>3, <2>1, <2>3 DEF Calculated
  <1>4. CASE UNCHANGED cronVars
    BY <1>4 DEF cronVars, Cron!Known, Calculated
  <1>5. ASSUME NEW n \in CronNames, NEW s \in Schedules, Cron!Add(n, s)
        PROVE  CronInv'
    <2> DEFINE t == [schedule |-> s, last_run |-> Cron!Never, next_run |-> now, enabled |-> TRUE]
    <2>1. t \in CronTask /\ Calculated(t)
      BY <1>2 DEF CronTask, Calculated
    <2>2. now' = now /\ crontab' = [crontab EXCEPT ![n] = t]
      BY <1>5 DEF Cron!Add
    <2> HIDE DEF t
    <2> QED
      BY <1>3, <2>1, <2>2
  <1>6. ASSUME NEW n \in CronNames, Cron!Remove(n)
        PROVE  CronInv'
    <2>1. Cron!Absent \notin CronTask
      BY CronAbsent
    <2>2. now' = now /\ crontab' = [crontab EXCEPT ![n] = Cron!Absent]
      BY <1>6 DEF Cron!Remove
    <2> QED
      BY <1>3, <2>1, <2>2
  <1>7. ASSUME NEW n \in CronNames, Cron!MarkCompleted(n)
        PROVE  CronInv'
    <2> DEFINE t == [crontab[n] EXCEPT !.last_run = now,
                                       !.next_run = Cron!CalculateNextRun(crontab[n].schedule, now)]
    <2>1. crontab[n] \in CronTask
      BY <1>1, <1>7 DEF Cron!MarkCompleted
    <2>2. crontab[n].schedule \in [kind : {"daily", "interval", "session"}, n : Nat]
      BY <2>1 DEF CronTask
    <2>3. Cron!CalculateNextRun(crontab[n].schedule, now) \in Nat
      BY <2>2, NextRunType
    <2>4. t \in CronTask
      BY <2>1, <2>3 DEF CronTask
    <2>5. /\ t.last_run = now /\ t.schedule = crontab[n].schedule
          /\ t.next_run = Cron!CalculateNextRun(crontab[n].schedule, now)
      BY <2>1 DEF CronTask
    <2>6. now' = now /\ crontab' = [crontab EXCEPT ![n] = t]
      BY <1>7 DEF Cron!MarkCompleted
    <2> HIDE DEF t
    <2>7. Calculated(t)
      BY <2>5 DEF Calculated
    <2> QED
      BY <1>3, <2>4, <2>6, <2>7
  <1>8. ASSUME NEW n \in CronNames, NEW on \in BOOLEAN, Cron!SetEnabled(n, on)
        PROVE  CronInv'
    <2> DEFINE t == [crontab[n] EXCEPT !.enabled = on]
    <2>1. crontab[n] \in CronTask /\ n \in Cron!Known
      BY <1>1, <1>8 DEF Cron!SetEnabled
    <2>2. /\ t \in CronTask /\ t.last_run = crontab[n].last_run
          /\ t.schedule = crontab[n].schedule /\ t.next_run = crontab[n].next_run
      BY <2>1 DEF CronTask
    <2>3. now' = now /\ crontab' = [crontab EXCEPT ![n] = t]
      BY <1>8 DEF Cron!SetEnabled
    <2> HIDE DEF t
    <2>4. Calculated(t)
      BY <2>1, <2>2 DEF Calculated
    <2> QED
      BY <1>3, <2>2, <2>3, <2>4
  <1>9. CASE Cron!Tick
    <2>1. now' = now + 1 /\ crontab' = crontab
      BY <1>9 DEF Cron!Tick
    <2>2. ASSUME NEW n \in Cron!Known PROVE Calculated(crontab[n])'
      <3>1. Calculated(crontab[n])
        OBVIOUS
      <3> QED
        BY <2>1, <3>1 DEF Calculated
    <2> QED
      BY <2>1, <2>2 DEF Cron!Known
  <1> QED
    BY <1>4, <1>5, <1>6, <1>7, <1>8, <1>9 DEF Cron!Next

(* A daily task that has run is due when, and only when, its hour has      *)
(* struck since, whenever it is completed, enabled and disabled.           *)
THEOREM EveryStrikingOnce == BookSpec => []DueOncePerStriking
  <1>1. BookInit => CronInv
    <2> SUFFICES ASSUME BookInit PROVE CronInv
      OBVIOUS
    <2>1. now = FirstNow /\ crontab = [n \in CronNames |-> Cron!Absent]
      BY DEF BookInit, Cron!Init
    <2>2. Cron!Known = {}
      BY <2>1 DEF Cron!Known
    <2> QED
      BY <2>1, <2>2, CronConstants DEF CronInv
  <1>2. CronInv /\ [BookNext]_allVars => CronInv'
    BY Parts, StepCron
  <1>3. CronInv => DueOncePerStriking
    <2> SUFFICES ASSUME CronInv, NEW n \in Cron!Known, crontab[n].enabled,
                        crontab[n].last_run # Cron!Never, crontab[n].schedule.kind = "daily",
                        crontab[n].schedule.n < Day
                 PROVE  n \in Cron!DueTasks <=>
                          \E h \in crontab[n].last_run + 1 .. now : h % Day = crontab[n].schedule.n
      BY DEF DueOncePerStriking, Cron!DueOncePerStriking
    <2> DEFINE ran == crontab[n].last_run  hour == crontab[n].schedule.n
               r == Cron!NextDaily(hour, ran)
    <2>1. /\ ran \in Nat /\ ran <= now /\ now \in Nat
          /\ crontab[n].next_run = Cron!CalculateNextRun(crontab[n].schedule, ran)
      BY DEF CronInv, Calculated
    <2>2. crontab[n].next_run = r
      BY <2>1 DEF Cron!CalculateNextRun
    <2>3. crontab[n] \in CronTask
      BY CronKnown DEF CronInv, Cron!Known
    <2>4. hour \in Nat
      BY <2>3 DEF CronTask
    <2>5. n \in Cron!DueTasks <=> r <= now
      BY <2>2 DEF Cron!DueTasks
    <2> HIDE DEF ran, hour
    <2>6. hour < Day
      BY DEF hour
    <2>7. r \in Nat /\ r > ran /\ r % Day = hour /\ \A h \in ran + 1 .. r - 1 : h % Day # hour
      BY <2>1, <2>4, <2>6, NextStriking
    <2> HIDE DEF r
    <2>8. r <= now <=> \E h \in ran + 1 .. now : h % Day = hour
      <3>1. ASSUME r <= now PROVE \E h \in ran + 1 .. now : h % Day = hour
        <4>1. r \in ran + 1 .. now
          BY <2>1, <2>7, <3>1
        <4> QED
          BY <2>7, <4>1
      <3>2. ASSUME NEW h \in ran + 1 .. now, h % Day = hour PROVE r <= now
        <4>1. h \notin ran + 1 .. r - 1
          BY <2>7, <3>2
        <4> QED
          BY <2>1, <2>7, <4>1
      <3> QED
        BY <3>1, <3>2
    <2> QED
      BY <2>5, <2>8 DEF ran, hour
  <1> QED
    BY <1>1, <1>2, <1>3, PTL DEF BookSpec

-----------------------------------------------------------------------------
(***************************************************************************)
(* AgeIndex and LogArchiver: running totals against the sums of what is    *)
(* there.                                                                  *)
(***************************************************************************)
Sized == [p \in Paths |-> files[p].size]

AgeInv ==
  /\ files \in [Paths -> Ages!File \cup {Ages!Absent}]
  /\ IsFiniteSet(Ages!Known)
  /\ total_size = SumOver(Sized, Ages!Known)

LEMMA SizesAreNumbers ==
  \A f \in Ages!File \cup {Ages!Absent} : f.size \in Nat
  <1>1. FileSizes \subseteq Nat
    BY BookAssumption, Zenon
  <1>2. \A f \in Ages!File : f.size \in FileSizes
    BY DEF Ages!File
  <1>3. Ages!Absent.size = 0
    BY DEF Ages!Absent
  <1>4. \A f \in Ages!File : f.size \in Nat
    BY <1>1, <1>2, Zenon
  <1>5. Ages!Absent.size \in Nat
    BY <1>3
  <1> QED
    BY <1>4, <1>5, Zenon

LEMMA BytesAreASum ==
  ASSUME NEW S, S \subseteq Paths
  PROVE  Ages!Bytes(S) = SumOver(Sized, S)
  <1> DEFINE E(g) == [s \in SUBSET S |-> IF s = {} THEN 0 ELSE files[Some(s)].size + g[s \ {Some(s)}]]
             F(g) == [s \in SUBSET S |-> IF s = {} THEN 0 ELSE Sized[Some(s)] + g[s \ {Some(s)}]]
  <1>1. Ages!Bytes(S) = (CHOOSE g : g = E(g))[S]
    BY Zenon DEF Ages!Bytes, Ages!MapThenSumSet, Ages!MapThenFoldSet, Some
  <1>2. SumOver(Sized, S) = (CHOOSE g : g = F(g))[S]
    BY Zenon DEF SumOver, MapThenSumSet, MapThenFoldSet, Some
  <1>3. ASSUME NEW g PROVE E(g) = F(g)
    <2>1. ASSUME NEW s \in SUBSET S, s # {} PROVE files[Some(s)].size = Sized[Some(s)]
      <3>1. Some(s) \in s
        BY <2>1, Zenon DEF Some
      <3> QED
        BY <3>1 DEF Sized
    <2> QED
      BY <2>1
  <1> HIDE DEF E, F
  <1>4. (CHOOSE g : g = E(g)) = (CHOOSE g : g = F(g))
    BY <1>3, Zenon
  <1> QED
    BY <1>1, <1>2, <1>4

(* The total without p's share is the sum over the others, indexed or not. *)
LEMMA WithoutShare ==
  ASSUME AgeInv, NEW p \in Paths
  PROVE  /\ IsFiniteSet(Ages!Known \ {p})
         /\ SumOver(Sized, Ages!Known \ {p}) \in Nat
         /\ Ages!Saturating(total_size, files[p].size) = SumOver(Sized, Ages!Known \ {p})
  <1> DEFINE K == Ages!Known  R == Ages!Known \ {p}
  <1>1. IsFiniteSet(K) /\ IsFiniteSet(R) /\ R \subseteq K
    BY FS_Subset DEF AgeInv
  <1>2. \A x \in Paths : Sized[x] \in Nat /\ files[x].size = Sized[x]
    BY SizesAreNumbers DEF AgeInv, Sized
  <1>3. K \subseteq Paths
    BY DEF Ages!Known
  <1>4. SumOver(Sized, R) \in Nat /\ SumOver(Sized, K) \in Nat
    <2>1. \A x \in K : Sized[x] \in Nat
      BY <1>2, <1>3
    <2> HIDE DEF K, R
    <2> QED
      BY <1>1, <2>1, SumGrows
  <1>5. total_size = Sized[p] + SumOver(Sized, R)
    <2>1. CASE p \in K
      <3>1. \A x \in K : Sized[x] \in Int
        BY <1>2, <1>3
      <3> HIDE DEF K
      <3>2. SumOver(Sized, K) = Sized[p] + SumOver(Sized, K \ {p})
        BY <1>1, <2>1, <3>1, SumTakes
      <3> QED
        BY <3>2 DEF AgeInv, K
    <2>2. CASE p \notin K
      <3>1. Sized[p] = 0
        BY <2>2 DEF Sized, Ages!Known, Ages!Absent
      <3>2. R = K
        BY <2>2
      <3> HIDE DEF K, R
      <3> QED
        BY <1>4, <3>1, <3>2 DEF AgeInv, K
    <2> QED
      BY <2>1, <2>2
  <1>6. files[p].size = Sized[p] /\ Sized[p] \in Nat
    BY <1>2
  <1> HIDE DEF R
  <1>7. Ages!Saturating(total_size, files[p].size) = SumOver(Sized, R)
    BY <1>4, <1>5, <1>6 DEF Ages!Saturating
  <1> QED
    BY <1>1, <1>4, <1>7 DEF R

LEMMA StepAges ==
  ASSUME AgeInv, Ages!Next \/ UNCHANGED ageVars
  PROVE  AgeInv'
  <1>1. CASE UNCHANGED ageVars
    BY <1>1 DEF ageVars, AgeInv, Ages!Known, Sized
  <1>2. ASSUME NEW p \in Paths, Ages!Remove(p) PROVE AgeInv'
    <2> DEFINE R == Ages!Known \ {p}
    <2>1. /\ files' = [files EXCEPT ![p] = Ages!Absent]
          /\ total_size' = SumOver(Sized, R)
      BY <1>2, WithoutShare DEF Ages!Remove
    <2>2. files' \in [Paths -> Ages!File \cup {Ages!Absent}]
      BY <2>1 DEF AgeInv
    <2>3. Ages!Known' = R
      BY <2>1 DEF AgeInv, Ages!Known
    <2>4. SumOver(Sized, R) = SumOver(Sized', R)
      <3>1. IsFiniteSet(R)
        BY WithoutShare
      <3>2. \A x \in R : Sized[x] = Sized'[x]
        BY <2>1 DEF Sized, AgeInv, Ages!Known
      <3> HIDE DEF R
      <3> QED
        BY <3>1, <3>2, SumIsOfValues
    <2> QED
      BY <2>1, <2>2, <2>3, <2>4, WithoutShare DEF AgeInv
  <1>3. ASSUME NEW p \in Paths, NEW f \in Ages!File, Ages!Index(p, f) PROVE AgeInv'
    <2> DEFINE R == Ages!Known \ {p}  K == R \cup {p}
    <2>1. /\ files' = [files EXCEPT ![p] = f]
          /\ total_size' = SumOver(Sized, R) + f.size
      BY <1>3, WithoutShare DEF Ages!Index
    <2>2. files' \in [Paths -> Ages!File \cup {Ages!Absent}]
      BY <2>1 DEF AgeInv
    <2>3. Ages!Known' = K
      <3>1. f # Ages!Absent
        BY DEF Ages!File, Ages!Absent
      <3> QED
        BY <2>1, <3>1 DEF AgeInv, Ages!Known
    <2>4. IsFiniteSet(R) /\ IsFiniteSet(K) /\ SumOver(Sized, R) \in Nat
      BY WithoutShare, FS_AddElement
    <2>5. SumOver(Sized, R) = SumOver(Sized', R)
      <3>1. \A x \in R : Sized[x] = Sized'[x]
        BY <2>1 DEF Sized, AgeInv, Ages!Known
      <3> HIDE DEF R
      <3> QED
        BY <2>4, <3>1, SumIsOfValues
    <2>6. Sized'[p] = f.size /\ \A x \in Paths : Sized'[x] \in Nat
      BY <2>1, <2>2, SizesAreNumbers DEF AgeInv, Sized
    <2>7. SumOver(Sized', K) = Sized'[p] + SumOver(Sized', K \ {p})
      <3>1. \A x \in K : Sized'[x] \in Int
        BY <2>6 DEF Ages!Known
      <3>2. p \in K
        OBVIOUS
      <3> DEFINE h == Sized'
      <3> HIDE DEF K, h
      <3> QED
        BY <2>4, <3>1, <3>2, SumTakes DEF h
    <2>8. K \ {p} = R
      OBVIOUS
    <2>9. f.size \in Nat
      BY SizesAreNumbers
    <2> DEFINE r == SumOver(Sized, R)  s == SumOver(Sized', K)
    <2>10. total_size' = r + f.size /\ s = f.size + r /\ r \in Nat
      <3> HIDE DEF R, K
      <3> QED
        BY <2>1, <2>4, <2>5, <2>6, <2>7, <2>8, Zenon
    <2> HIDE DEF r, s
    <2>11. total_size' = s
      BY <2>9, <2>10
    <2> QED
      BY <2>2, <2>3, <2>4, <2>11 DEF AgeInv, s
  <1> QED
    BY <1>1, <1>2, <1>3 DEF Ages!Next

LEMMA AgesAgree ==
  ASSUME AgeInv
  PROVE  Ages!TotalsAgree
  <1>1. /\ Ages!Known \subseteq Paths /\ \A x \in Ages!Known : Sized[x] \in Nat
        /\ \A x \in Ages!Known : files[x] \in Ages!File
    BY BookAssumption DEF AgeInv, Sized, Ages!File, Ages!Absent, Ages!Known
  <1>2. total_size = Ages!Bytes(Ages!Known)
    BY <1>1, BytesAreASum DEF AgeInv
  <1>3. ASSUME NEW d \in 0..Today
        PROVE  /\ Ages!Stale(d) \subseteq Ages!NotAccessedSince(d) \cap Ages!NotModifiedSince(d)
               /\ Ages!StaleBytes(d) <= total_size
    <2>1. \A x \in Ages!Known : Ages!Age(files[x].atime) \in Int /\ Ages!Age(files[x].mtime) \in Int
      BY <1>1, BookAssumption DEF Ages!File, Ages!Age
    <2>2. Ages!Stale(d) \subseteq Ages!NotAccessedSince(d) \cap Ages!NotModifiedSince(d)
      BY <2>1 DEF Ages!Stale, Ages!NotAccessedSince, Ages!NotModifiedSince
    <2>3. Ages!Stale(d) \in SUBSET Ages!Known
      BY DEF Ages!Stale
    <2>4. SumOver(Sized, Ages!Stale(d)) <= SumOver(Sized, Ages!Known)
      BY <1>1, <2>3, SumGrows DEF AgeInv
    <2>5. Ages!StaleBytes(d) = SumOver(Sized, Ages!Stale(d))
      BY <1>1, <2>3, BytesAreASum DEF Ages!StaleBytes
    <2> QED
      BY <2>2, <2>4, <2>5 DEF AgeInv
  <1> QED
    BY <1>2, <1>3 DEF Ages!TotalsAgree

OpStates == {"Queued", "Running", "Completed", "Failed"}

LogOp == [state : OpStates, original_size : LogSizes, archived_size : LogSizes \cup {0}]

Originals == [i \in Ids |-> ops[i].original_size]

Done == Archiver!InState("Completed")

UsedOnce == \A i \in Ids : queuings[i] <= 1

(* While no id is used twice, an id owes a report just while it runs, so   *)
(* that each completes once.                                               *)
ArchiveInv ==
  /\ ops \in [Ids -> LogOp \cup {Archiver!Absent}]
  /\ IsFiniteSet(Archiver!Known)
  /\ owed \in [Ids -> Nat] /\ queuings \in [Ids -> Nat]
  /\ total_bytes_archived \in Nat /\ total_bytes_saved \in Nat
  /\ \A i \in Ids : ops[i] = Archiver!Absent => owed[i] = 0
  /\ \A i \in Ids : ops[i] # Archiver!Absent => queuings[i] > 0
  /\ UsedOnce =>
       /\ \A i \in Archiver!Known : owed[i] = IF ops[i].state = "Running" THEN 1 ELSE 0
       /\ total_bytes_saved <= SumOver(Originals, Done)
       /\ total_bytes_saved + total_bytes_archived >= SumOver(Originals, Done)

LEMMA LogSizesAreNumbers ==
  /\ \A s \in LogSizes : s \in Nat
  /\ \A op \in LogOp : op.original_size \in Nat /\ op # Archiver!Absent
  <1>1. LogSizes \subseteq Nat
    BY BookAssumption, Zenon
  <1>2. \A op \in LogOp : op.original_size \in LogSizes /\ op.state \in OpStates
    BY DEF LogOp
  <1>3. Archiver!Absent.state \notin OpStates
    BY DEF Archiver!Absent, OpStates
  <1> QED
    BY <1>1, <1>2, <1>3, Zenon

LEMMA CompletedAreASum ==
  Archiver!CompletedBytes = SumOver(Originals, Done)
  <1> DEFINE S == Done
             E(g) == [s \in SUBSET S |-> IF s = {} THEN 0 ELSE ops[Some(s)].original_size + g[s \ {Some(s)}]]
             F(g) == [s \in SUBSET S |-> IF s = {} THEN 0 ELSE Originals[Some(s)] + g[s \ {Some(s)}]]
  <1>1. Archiver!CompletedBytes = (CHOOSE g : g = E(g))[S]
    BY Zenon DEF Archiver!CompletedBytes, Archiver!MapThenSumSet, Archiver!MapThenFoldSet, Some, Done
  <1>2. SumOver(Originals, S) = (CHOOSE g : g = F(g))[S]
    BY Zenon DEF SumOver, MapThenSumSet, MapThenFoldSet, Some
  <1>3. ASSUME NEW g PROVE E(g) = F(g)
    <2>1. ASSUME NEW s \in SUBSET S, s # {} PROVE ops[Some(s)].original_size = Originals[Some(s)]
      <3>1. Some(s) \in s
        BY <2>1, Zenon DEF Some
      <3>2. S \subseteq Ids
        BY DEF Done, Archiver!InState, Archiver!Known
      <3> HIDE DEF S
      <3> QED
        BY <3>1, <3>2 DEF Originals
    <2> HIDE DEF S
    <2> QED
      BY <2>1
  <1> HIDE DEF E, F
  <1>4. (CHOOSE g : g = E(g)) = (CHOOSE g : g = F(g))
    BY <1>3, Zenon
  <1> QED
    BY <1>1, <1>2, <1>4

LEMMA OnesDone ==
  ASSUME ArchiveInv
  PROVE  /\ Done \subseteq Archiver!Known /\ Archiver!Known \subseteq Ids /\ IsFiniteSet(Done)
         /\ \A i \in Archiver!Known : ops[i] \in LogOp /\ Originals[i] \in Nat
         /\ SumOver(Originals, Done) \in Nat
  <1>1. Done \subseteq Archiver!Known /\ Archiver!Known \subseteq Ids /\ IsFiniteSet(Done)
    <2>1. Done \subseteq Archiver!Known /\ Archiver!Known \subseteq Ids
      BY DEF Done, Archiver!InState, Archiver!Known
    <2> QED
      BY <2>1, FS_Subset DEF ArchiveInv
  <1>2. \A i \in Archiver!Known : ops[i] \in LogOp /\ Originals[i] \in Nat
    BY LogSizesAreNumbers DEF ArchiveInv, Archiver!Known, Originals
  <1>3. \A i \in Done : Originals[i] \in Nat
    BY <1>1, <1>2
  <1>4. SumOver(Originals, Done) \in Nat
    BY <1>1, <1>3, SumGrows
  <1> QED
    BY <1>1, <1>2, <1>4

(* An operation that neither was nor is completed changes no sum.          *)
LEMMA SumStays ==
  ASSUME ArchiveInv, Done' = Done, \A i \in Done : ops'[i].original_size = ops[i].original_size
  PROVE  SumOver(Originals, Done)' = SumOver(Originals, Done)
  <1> DEFINE D == Done  h == Originals'
  <1>1. IsFiniteSet(D)
    BY OnesDone
  <1>2. \A i \in D : Originals[i] = h[i]
    BY OnesDone DEF Originals
  <1>3. SumOver(Originals', Done') = SumOver(h, D)
    OBVIOUS
  <1> HIDE DEF D, h
  <1>4. SumOver(Originals, D) = SumOver(h, D)
    BY <1>1, <1>2, SumIsOfValues
  <1> QED
    BY <1>3, <1>4 DEF D

LEMMA StepQueueLog ==
  ASSUME ArchiveInv, NEW i \in Ids, NEW s \in LogSizes, Archiver!Queue(i, s)
  PROVE  ArchiveInv'
  <1> DEFINE op == [state |-> "Queued", original_size |-> s, archived_size |-> 0]
  <1>1. /\ ops' = [ops EXCEPT ![i] = op]
        /\ queuings' = [queuings EXCEPT ![i] = @ + 1] /\ owed' = owed
        /\ total_bytes_archived' = total_bytes_archived /\ total_bytes_saved' = total_bytes_saved
    BY DEF Archiver!Queue
  <1>2. op \in LogOp /\ op # Archiver!Absent /\ op.state = "Queued"
    <2>1. op \in LogOp
      BY DEF LogOp, OpStates
    <2> QED
      BY <2>1, LogSizesAreNumbers
  <1> HIDE DEF op
  <1>3. /\ ops' \in [Ids -> LogOp \cup {Archiver!Absent}]
        /\ owed' \in [Ids -> Nat] /\ queuings' \in [Ids -> Nat]
        /\ total_bytes_archived' \in Nat /\ total_bytes_saved' \in Nat
        /\ \A j \in Ids : ops'[j] = Archiver!Absent => owed'[j] = 0
        /\ \A j \in Ids : ops'[j] # Archiver!Absent => queuings'[j] > 0
    BY <1>1, <1>2 DEF ArchiveInv
  <1>4. Archiver!Known' = Archiver!Known \cup {i} /\ IsFiniteSet(Archiver!Known')
    <2>1. Archiver!Known' = Archiver!Known \cup {i}
      BY <1>1, <1>2 DEF ArchiveInv, Archiver!Known
    <2> QED
      BY <2>1, FS_AddElement DEF ArchiveInv
  <1>5. ASSUME UsedOnce'
        PROVE  /\ UsedOnce /\ ops[i] = Archiver!Absent
               /\ Done' = Done /\ \A j \in Done : ops'[j].original_size = ops[j].original_size
    <2>1. queuings[i] = 0 /\ UsedOnce
      BY <1>1, <1>5 DEF ArchiveInv, UsedOnce
    <2>2. ops[i] = Archiver!Absent
      BY <2>1 DEF ArchiveInv
    <2>3. i \notin Archiver!Known
      BY <2>2 DEF Archiver!Known
    <2>4. Done' = Done
      BY <1>1, <1>2, <1>4, <2>3 DEF ArchiveInv, Done, Archiver!InState, Archiver!Known
    <2>5. \A j \in Done : ops'[j].original_size = ops[j].original_size
      BY <1>1, <2>3, OnesDone DEF ArchiveInv
    <2> QED
      BY <2>1, <2>2, <2>4, <2>5
  <1>6. ASSUME UsedOnce'
        PROVE  /\ \A j \in Archiver!Known' : owed'[j] = IF ops'[j].state = "Running" THEN 1 ELSE 0
               /\ total_bytes_saved' <= SumOver(Originals, Done)'
               /\ total_bytes_saved' + total_bytes_archived' >= SumOver(Originals, Done)'
    <2>1. SumOver(Originals, Done)' = SumOver(Originals, Done)
      BY <1>5, <1>6, SumStays
    <2>2. ASSUME NEW j \in Archiver!Known'
          PROVE owed'[j] = IF ops'[j].state = "Running" THEN 1 ELSE 0
      <3>1. CASE j = i
        BY <1>1, <1>2, <1>5, <1>6, <3>1 DEF ArchiveInv
      <3>2. CASE j # i
        BY <1>1, <1>4, <1>5, <1>6, <3>2, OnesDone DEF ArchiveInv
      <3> QED
        BY <3>1, <3>2
    <2>3. /\ total_bytes_saved <= SumOver(Originals, Done)
          /\ total_bytes_saved + total_bytes_archived >= SumOver(Originals, Done)
      BY <1>5, <1>6 DEF ArchiveInv
    <2> QED
      BY <1>1, <2>1, <2>2, <2>3
  <1> QED
    BY <1>3, <1>4, <1>6 DEF ArchiveInv

(* What start and fail have in common: the state of one operation that is  *)
(* not completed changes, and what it owes with it.                        *)
LEMMA StepState ==
  ASSUME ArchiveInv, NEW i \in Archiver!Known, NEW n \in Nat,
         NEW state \in {"Running", "Failed"},
         ops' = [ops EXCEPT ![i].state = state], owed' = [owed EXCEPT ![i] = n],
         UNCHANGED <<total_bytes_archived, total_bytes_saved, queuings>>,
         UsedOnce => ops[i].state # "Completed" /\ n = IF state = "Running" THEN 1 ELSE 0
  PROVE  ArchiveInv'
  <1> DEFINE op == [ops[i] EXCEPT !.state = state]
  <1>1. i \in Ids /\ ops[i] \in LogOp
    BY OnesDone
  <1>2. op \in LogOp /\ op.state = state /\ op.original_size = ops[i].original_size
    BY <1>1 DEF LogOp, OpStates
  <1>3. op # Archiver!Absent /\ ops[i] # Archiver!Absent
    BY <1>1, <1>2, LogSizesAreNumbers
  <1>4. ops' = [ops EXCEPT ![i] = op]
    BY DEF ArchiveInv
  <1> HIDE DEF op
  <1>5. /\ ops' \in [Ids -> LogOp \cup {Archiver!Absent}]
        /\ owed' \in [Ids -> Nat] /\ queuings' \in [Ids -> Nat]
        /\ total_bytes_archived' \in Nat /\ total_bytes_saved' \in Nat
    BY <1>1, <1>2, <1>4 DEF ArchiveInv
  <1>6. /\ \A j \in Ids : ops'[j] = Archiver!Absent => owed'[j] = 0
        /\ \A j \in Ids : ops'[j] # Archiver!Absent => queuings'[j] > 0
    BY <1>1, <1>3, <1>4 DEF ArchiveInv
  <1>7. Archiver!Known' = Archiver!Known /\ IsFiniteSet(Archiver!Known')
    BY <1>1, <1>3, <1>4 DEF ArchiveInv, Archiver!Known
  <1>8. ASSUME UsedOnce'
        PROVE  /\ \A j \in Archiver!Known' : owed'[j] = IF ops'[j].state = "Running" THEN 1 ELSE 0
               /\ total_bytes_saved' <= SumOver(Originals, Done)'
               /\ total_bytes_saved' + total_bytes_archived' >= SumOver(Originals, Done)'
    <2>1. UsedOnce
      BY <1>8 DEF UsedOnce
    <2>2. i \notin Done
      BY <2>1 DEF Done, Archiver!InState
    <2>3. Done' = Done
      BY <1>1, <1>2, <1>4, <1>7, <2>2 DEF ArchiveInv, Done, Archiver!InState
    <2>4. \A j \in Done : ops'[j].original_size = ops[j].original_size
      BY <1>4, <2>2, OnesDone DEF ArchiveInv
    <2>5. SumOver(Originals, Done)' = SumOver(Originals, Done)
      BY <2>3, <2>4, SumStays
    <2>6. ASSUME NEW j \in Archiver!Known
          PROVE owed'[j] = IF ops'[j].state = "Running" THEN 1 ELSE 0
      <3>1. owed[j] = IF ops[j].state = "Running" THEN 1 ELSE 0
        BY <2>1 DEF ArchiveInv
      <3>2. CASE j = i
        BY <1>1, <1>2, <1>4, <2>1, <3>2 DEF ArchiveInv
      <3>3. CASE j # i
        BY <1>4, <3>1, <3>3, OnesDone DEF ArchiveInv
      <3> QED
        BY <3>2, <3>3
    <2>7. /\ total_bytes_saved <= SumOver(Originals, Done)
          /\ total_bytes_saved + total_bytes_archived >= SumOver(Originals, Done)
      BY <2>1 DEF ArchiveInv
    <2> QED
      BY <1>7, <2>5, <2>6, <2>7
  <1> QED
    BY <1>5, <1>6, <1>7, <1>8 DEF ArchiveInv

(* Who owes a report is known, and while no id is used twice it is running. *)
LEMMA Owing ==
  ASSUME ArchiveInv, NEW i \in Ids, owed[i] > 0
  PROVE  /\ i \in Archiver!Known
         /\ UsedOnce => ops[i].state = "Running" /\ owed[i] = 1
  <1>1. i \in Archiver!Known
    BY DEF ArchiveInv, Archiver!Known
  <1>2. ASSUME UsedOnce PROVE owed[i] = IF ops[i].state = "Running" THEN 1 ELSE 0
    BY <1>1, <1>2 DEF ArchiveInv
  <1> QED
    BY <1>1, <1>2

LEMMA StepCompleteLog ==
  ASSUME ArchiveInv, NEW i \in Ids, NEW archived \in LogSizes, Archiver!Complete(i, archived)
  PROVE  ArchiveInv'
  <1> DEFINE op == [ops[i] EXCEPT !.state = "Completed", !.archived_size = archived]
             n == owed[i] - 1
             saving == IF ops[i].original_size > archived THEN ops[i].original_size - archived ELSE 0
  <1>1. /\ owed[i] > 0 /\ owed' = [owed EXCEPT ![i] = n] /\ queuings' = queuings
        /\ ops' = [ops EXCEPT ![i].state = "Completed", ![i].archived_size = archived]
        /\ total_bytes_archived' = total_bytes_archived + archived
        /\ total_bytes_saved' = total_bytes_saved + saving
    BY DEF Archiver!Complete, ArchiveInv
  <1>2. i \in Archiver!Known /\ ops[i] \in LogOp
    BY <1>1, Owing, OnesDone
  <1>3. op \in LogOp /\ op.state = "Completed" /\ op.original_size = ops[i].original_size
    BY <1>2 DEF LogOp, OpStates
  <1>4. op # Archiver!Absent /\ ops[i] # Archiver!Absent
    BY <1>2, <1>3, LogSizesAreNumbers
  <1>5. ops' = [ops EXCEPT ![i] = op]
    BY <1>1 DEF ArchiveInv
  <1>6. archived \in Nat /\ ops[i].original_size \in Nat /\ saving \in Nat /\ n \in Nat
    <2>1. archived \in Nat /\ ops[i].original_size \in Nat
      BY <1>2, LogSizesAreNumbers
    <2>2. n \in Nat
      BY <1>1 DEF ArchiveInv
    <2> QED
      BY <2>1, <2>2
  <1> HIDE DEF op, n
  <1>7. /\ ops' \in [Ids -> LogOp \cup {Archiver!Absent}]
        /\ owed' \in [Ids -> Nat] /\ queuings' \in [Ids -> Nat]
    BY <1>1, <1>3, <1>5, <1>6 DEF ArchiveInv
  <1>8. total_bytes_archived' \in Nat /\ total_bytes_saved' \in Nat
    <2> HIDE DEF saving
    <2> QED
      BY <1>1, <1>6 DEF ArchiveInv
  <1>9. /\ \A j \in Ids : ops'[j] = Archiver!Absent => owed'[j] = 0
        /\ \A j \in Ids : ops'[j] # Archiver!Absent => queuings'[j] > 0
    BY <1>1, <1>4, <1>5 DEF ArchiveInv
  <1>10. Archiver!Known' = Archiver!Known /\ IsFiniteSet(Archiver!Known')
    BY <1>4, <1>5 DEF ArchiveInv, Archiver!Known
  <1>11. ASSUME UsedOnce'
         PROVE  /\ \A j \in Archiver!Known' : owed'[j] = IF ops'[j].state = "Running" THEN 1 ELSE 0
                /\ total_bytes_saved' <= SumOver(Originals, Done)'
                /\ total_bytes_saved' + total_bytes_archived' >= SumOver(Originals, Done)'
    <2>1. UsedOnce
      BY <1>1, <1>11 DEF UsedOnce
    <2>2. ops[i].state = "Running" /\ owed[i] = 1
      BY <1>1, <2>1, Owing
    <2>3. i \notin Done /\ IsFiniteSet(Done) /\ SumOver(Originals, Done) \in Nat
      BY <2>2, OnesDone DEF Done, Archiver!InState
    <2> DEFINE D == Done \cup {i}  h == Originals'
    <2>4. Done' = D
      BY <1>2, <1>3, <1>5, <1>10 DEF ArchiveInv, Done, Archiver!InState, Archiver!Known
    <2>5. /\ \A j \in Done : h[j] = Originals[j]
          /\ h[i] = ops[i].original_size
      <3>1. \A j \in Ids : ops'[j].original_size = ops[j].original_size
        BY <1>3, <1>5 DEF ArchiveInv
      <3> QED
        BY <3>1, OnesDone DEF Originals
    <2>6. \A j \in D : h[j] \in Int
      <3>1. \A j \in Done : Originals[j] \in Nat
        BY OnesDone
      <3> HIDE DEF h
      <3> QED
        BY <2>5, <3>1, <1>6
    <2>7. IsFiniteSet(D) /\ D \ {i} = Done /\ i \in D
      BY <2>3, FS_AddElement
    <2>8. SumOver(Originals, Done)' = SumOver(h, D)
      BY <2>4
    <2> HIDE DEF D, h
    <2>9. SumOver(h, D) = h[i] + SumOver(h, Done)
      BY <2>6, <2>7, SumTakes
    <2>10. SumOver(h, Done) = SumOver(Originals, Done)
      BY <2>3, <2>5, SumIsOfValues
    <2> DEFINE r == SumOver(Originals, Done)  t == SumOver(Originals, Done)'
    <2>11. t = ops[i].original_size + r /\ r \in Nat
      BY <2>3, <2>5, <2>8, <2>9, <2>10, Zenon
    <2>12. /\ total_bytes_saved <= r /\ total_bytes_saved + total_bytes_archived >= r
           /\ total_bytes_saved \in Nat /\ total_bytes_archived \in Nat
      BY <2>1 DEF ArchiveInv
    <2> HIDE DEF r, t
    <2>13. total_bytes_saved' <= t /\ total_bytes_saved' + total_bytes_archived' >= t
      BY <1>1, <1>6, <2>11, <2>12
    <2>14. ASSUME NEW j \in Archiver!Known
           PROVE owed'[j] = IF ops'[j].state = "Running" THEN 1 ELSE 0
      <3>1. owed[j] = IF ops[j].state = "Running" THEN 1 ELSE 0
        BY <2>1 DEF ArchiveInv
      <3>2. CASE j = i
        BY <1>1, <1>3, <1>5, <2>2, <3>2 DEF ArchiveInv, n
      <3>3. CASE j # i
        BY <1>1, <1>5, <3>1, <3>3, OnesDone DEF ArchiveInv
      <3> QED
        BY <3>2, <3>3
    <2> QED
      BY <1>10, <2>13, <2>14 DEF t
  <1> QED
    BY <1>7, <1>8, <1>9, <1>10, <1>11 DEF ArchiveInv

LEMMA StepArchiver ==
  ASSUME ArchiveInv, Archiver!Next \/ UNCHANGED archiverVars
  PROVE  ArchiveInv'
  <1>1. CASE UNCHANGED archiverVars
    <2>1. /\ ops' = ops /\ owed' = owed /\ queuings' = queuings
          /\ total_bytes_archived' = total_bytes_archived /\ total_bytes_saved' = total_bytes_saved
      BY <1>1 DEF archiverVars
    <2> QED
      BY <2>1 DEF ArchiveInv, Archiver!Known, UsedOnce, Originals, Done, Archiver!InState
  <1>2. ASSUME NEW i \in Ids, Archiver!Start(i) PROVE ArchiveInv'
    <2>1. /\ i \in Archiver!Known /\ ops[i].state = "Queued"
          /\ ops' = [ops EXCEPT ![i].state = "Running"] /\ owed' = [owed EXCEPT ![i] = owed[i] + 1]
          /\ UNCHANGED <<total_bytes_archived, total_bytes_saved, queuings>>
      BY <1>2 DEF Archiver!Start, Archiver!Begin, Archiver!InState
    <2>2. owed[i] + 1 \in Nat
      BY DEF ArchiveInv
    <2>3. UsedOnce => owed[i] + 1 = 1
      <3>1. ASSUME UsedOnce PROVE owed[i] = IF ops[i].state = "Running" THEN 1 ELSE 0
        BY <2>1, <3>1 DEF ArchiveInv
      <3> QED
        BY <2>1, <3>1
    <2> DEFINE n == owed[i] + 1
    <2> HIDE DEF n
    <2>4. owed' = [owed EXCEPT ![i] = n] /\ n \in Nat /\ (UsedOnce => n = 1)
      BY <2>1, <2>2, <2>3 DEF n
    <2> QED
      BY <2>1, <2>4, StepState
  <1>3. ASSUME NEW i \in Ids, Archiver!Fail(i) PROVE ArchiveInv'
    <2> DEFINE n == owed[i] - 1
    <2>1. /\ owed[i] > 0
          /\ ops' = [ops EXCEPT ![i].state = "Failed"] /\ owed' = [owed EXCEPT ![i] = n]
          /\ UNCHANGED <<total_bytes_archived, total_bytes_saved, queuings>>
      BY <1>3 DEF Archiver!Fail
    <2>2. n \in Nat
      BY <2>1 DEF ArchiveInv
    <2>3. i \in Archiver!Known /\ (UsedOnce => ops[i].state = "Running" /\ n = 0)
      BY <2>1, Owing
    <2> HIDE DEF n
    <2> QED
      BY <2>1, <2>2, <2>3, StepState
  <1> QED
    BY <1>1, <1>2, <1>3, StepQueueLog, StepCompleteLog DEF Archiver!Next

(* After any sequence of calls the totals kept call by call are the sums   *)
(* of what is there: the indexed size that of the index, and the savings   *)
(* a part of what was completed, if no id is used twice.                   *)
THEOREM TotalsAreSums == BookSpec => []RunningTotalsHold
  <1>1. BookInit => AgeInv /\ ArchiveInv
    <2> SUFFICES ASSUME BookInit PROVE AgeInv /\ ArchiveInv
      OBVIOUS
    <2>1. files = [p \in Paths |-> Ages!Absent] /\ total_size = 0
      BY DEF BookInit, Ages!Init
    <2>2. Ages!Known = {}
      BY <2>1 DEF Ages!Known
    <2>3. AgeInv
      BY <2>1, <2>2, FS_EmptySet, SumOfNone DEF AgeInv
    <2>4. /\ ops = [i \in Ids |-> Archiver!Absent]
          /\ total_bytes_archived = 0 /\ total_bytes_saved = 0
          /\ owed = [i \in Ids |-> 0] /\ queuings = [i \in Ids |-> 0]
      BY DEF BookInit, Archiver!Init
    <2>5. Archiver!Known = {} /\ Done = {}
      BY <2>4 DEF Archiver!Known, Archiver!InState, Done
    <2>6. ArchiveInv
      BY <2>4, <2>5, FS_EmptySet, SumOfNone DEF ArchiveInv
    <2> QED
      BY <2>3, <2>6
  <1>2. (AgeInv /\ ArchiveInv) /\ [BookNext]_allVars => (AgeInv /\ ArchiveInv)'
    BY Parts, StepAges, StepArchiver
  <1>3. AgeInv /\ ArchiveInv => RunningTotalsHold
    <2> SUFFICES ASSUME AgeInv, ArchiveInv PROVE RunningTotalsHold
      OBVIOUS
    <2>1. Archiver!SavingIsAFraction
      BY CompletedAreASum DEF ArchiveInv, UsedOnce, Archiver!SavingIsAFraction
    <2> QED
      BY <2>1, AgesAgree DEF RunningTotalsHold
  <1> QED
    BY <1>1, <1>2, <1>3, PTL DEF BookSpec
=============================================================================
