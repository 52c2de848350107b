----------------------------- MODULE WipeQueue -----------------------------
(***************************************************************************)
(* wipe_targets::WipeQueue (src/wipe_targets.rs): targets by id. Workers   *)
(* share the queue: each starts a target, wipes the file, and reports what *)
(* became of it. Between its calls the others' calls come, and those of    *)
(* whoever enqueues and cancels.                                           *)
(***************************************************************************)
EXTENDS Integers, Sequences, SequencesExt

CONSTANTS Ids, MaxEnqueues

VARIABLES
  targets,     (* id -> target, or Absent                                  *)
  enqueued,    (* ghost: id -> how often it was enqueued                   *)
  working,     (* ghost: <<id, n>> for each worker at the nth target of id *)
  wiped,       (* ghost: the targets that were wiped                       *)
  cancelled,   (* ghost: the targets whose cancel returned true            *)
  replaced     (* ghost: the ids enqueued again with a worker at them      *)

vars == <<targets, enqueued, working, wiped, cancelled, replaced>>

Absent == [state |-> "Absent"]

Known == {i \in Ids : targets[i] # Absent}
InState(s) == {i \in Known : targets[i].state = s}

TypeOK ==
  /\ \A i \in Known : targets[i] \in
       [state : {"Queued", "InProgress", "Completed", "Failed", "Cancelled"},
        completed_at : BOOLEAN, error : BOOLEAN]
  /\ enqueued \in [Ids -> 0..MaxEnqueues]
  /\ replaced \subseteq Ids

Init ==
  /\ targets = [i \in Ids |-> Absent]
  /\ enqueued = [i \in Ids |-> 0]
  /\ working = <<>> /\ wiped = {} /\ cancelled = {} /\ replaced = {}

WorkingOn(i) == {k \in DOMAIN working : working[k][1] = i}

(* A target of the same id is replaced, whatever state it is in. *)
Enqueue(i) ==
  /\ enqueued[i] < MaxEnqueues
  /\ targets' = [targets EXCEPT ![i] = [state |-> "Queued", completed_at |-> FALSE, error |-> FALSE]]
  /\ enqueued' = [enqueued EXCEPT ![i] = @ + 1]
  /\ replaced' = IF WorkingOn(i) = {} THEN replaced ELSE replaced \cup {i}
  /\ UNCHANGED <<working, wiped, cancelled>>

Cancel(i) ==
  /\ i \in InState("Queued")
  /\ targets' = [targets EXCEPT ![i].state = "Cancelled"]
  /\ cancelled' = cancelled \cup {<<i, enqueued[i]>>}
  /\ UNCHANGED <<enqueued, working, wiped, replaced>>

Begin(i) ==
  /\ targets' = [targets EXCEPT ![i].state = "InProgress"]
  /\ working' = Append(working, <<i, enqueued[i]>>)
  /\ UNCHANGED <<enqueued, wiped, cancelled, replaced>>

(* Slip: start does not look at the state. *)
StartAnyway(i) == i \in Known /\ Len(working) < 2 /\ Begin(i)

(* The worker may have been shown the target long ago: only the state says *)
(* whether it may still be started.                                        *)
Start(i) == i \in InState("Queued") /\ Begin(i)

(* complete and fail do not look at the state they leave. *)
Complete(k) ==
  LET i == working[k][1] IN
  /\ targets' = [targets EXCEPT ![i].state = "Completed", ![i].completed_at = TRUE]
  /\ wiped' = wiped \cup {working[k]}
  /\ working' = RemoveAt(working, k)
  /\ UNCHANGED <<enqueued, cancelled, replaced>>

Fail(k) ==
  LET i == working[k][1] IN
  /\ targets' = [targets EXCEPT ![i].state = "Failed", ![i].error = TRUE, ![i].completed_at = TRUE]
  /\ working' = RemoveAt(working, k)
  /\ UNCHANGED <<enqueued, wiped, cancelled, replaced>>

Next ==
  \/ \E i \in Ids : Enqueue(i) \/ Cancel(i) \/ Start(i)
  \/ \E k \in DOMAIN working : Complete(k) \/ Fail(k)

-----------------------------------------------------------------------------
(* Whoever looked first and whoever reported last: no two workers are at   *)
(* the same target, nobody wipes what was successfully cancelled, and what *)
(* is called completed was wiped and what is called failed was not. The    *)
(* last part is true of an id only while it is not used again with a       *)
(* worker still at it: complete and fail would report on the newcomer.     *)
WipedAtMostOnce ==
  /\ \A j, k \in DOMAIN working : working[j] = working[k] => j = k
  /\ \A k \in DOMAIN working : working[k] \notin cancelled \cup wiped
  /\ wiped \cap cancelled = {}
  /\ \A i \in Known \ replaced :
       /\ targets[i].state = "Completed" <=> <<i, enqueued[i]>> \in wiped
       /\ targets[i].state = "InProgress" <=> WorkingOn(i) # {}
       /\ targets[i].error <=> targets[i].state = "Failed"
=============================================================================
