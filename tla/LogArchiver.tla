---------------------------- MODULE LogArchiver ----------------------------
(***************************************************************************)
(* log_archiver::LogArchiver (src/log_archiver.rs): archive operations by  *)
(* id, and running totals. Callers start an operation, archive the log,    *)
(* and report each start that succeeded once.                              *)
(***************************************************************************)
EXTENDS Integers, FiniteSetsExt

CONSTANTS
  Ids,
  Sizes,       (* of logs, and of the archives they become                 *)
  MaxQueued

VARIABLES
  ops,                    (* id -> operation, or Absent                    *)
  total_bytes_archived,
  total_bytes_saved,
  owed,                   (* ghost: id -> reports still to come            *)
  queuings                (* ghost: id -> how often it was queued          *)

vars == <<ops, total_bytes_archived, total_bytes_saved, owed, queuings>>

Absent == [state |-> "Absent"]

Known == {i \in Ids : ops[i] # Absent}
InState(s) == {i \in Known : ops[i].state = s}

TypeOK ==
  /\ \A i \in Known : ops[i] \in [state : {"Queued", "Running", "Completed", "Failed"},
                                  original_size : Sizes, archived_size : Sizes \cup {0}]
  /\ total_bytes_archived \in Nat /\ total_bytes_saved \in Nat
  /\ owed \in [Ids -> Nat] /\ queuings \in [Ids -> 0..MaxQueued]

Init ==
  /\ ops = [i \in Ids |-> Absent]
  /\ total_bytes_archived = 0 /\ total_bytes_saved = 0
  /\ owed = [i \in Ids |-> 0] /\ queuings = [i \in Ids |-> 0]

(* An operation of that id is replaced; the totals keep what it added. *)
Queue(i, size) ==
  /\ queuings[i] < MaxQueued
  /\ ops' = [ops EXCEPT ![i] = [state |-> "Queued", original_size |-> size, archived_size |-> 0]]
  /\ queuings' = [queuings EXCEPT ![i] = @ + 1]
  /\ UNCHANGED <<total_bytes_archived, total_bytes_saved, owed>>

Begin(i) ==
  /\ ops' = [ops EXCEPT ![i].state = "Running"]
  /\ owed' = [owed EXCEPT ![i] = @ + 1]
  /\ UNCHANGED <<total_bytes_archived, total_bytes_saved, queuings>>

(* Slip: start does not look at the state. *)
StartAnyway(i) == i \in Known /\ owed[i] < 2 /\ Begin(i)

Start(i) == i \in InState("Queued") /\ Begin(i)

(* complete adds to the totals whatever state it finds. An archive larger  *)
(* than its log saves nothing.                                             *)
Complete(i, archived) ==
  /\ owed[i] > 0
  /\ ops' = [ops EXCEPT ![i].state = "Completed", ![i].archived_size = archived]
  /\ total_bytes_archived' = total_bytes_archived + archived
  /\ total_bytes_saved' = total_bytes_saved +
       (IF ops[i].original_size > archived THEN ops[i].original_size - archived ELSE 0)
  /\ owed' = [owed EXCEPT ![i] = @ - 1]
  /\ UNCHANGED queuings

Fail(i) ==
  /\ owed[i] > 0
  /\ ops' = [ops EXCEPT ![i].state = "Failed"]
  /\ owed' = [owed EXCEPT ![i] = @ - 1]
  /\ UNCHANGED <<total_bytes_archived, total_bytes_saved, queuings>>

Next ==
  \/ \E i \in Ids, s \in Sizes : Queue(i, s) \/ Complete(i, s)
  \/ \E i \in Ids : Start(i) \/ Fail(i)

(* compression_ratio divides total_bytes_saved by this. *)
CompletedBytes == MapThenSumSet(LAMBDA i : ops[i].original_size, InState("Completed"))

-----------------------------------------------------------------------------
(* The fraction of bytes saved is a fraction: the completed operations are *)
(* what the savings were made on, and what was not saved was archived. It  *)
(* takes that no id is used twice; see section 3 of the README for what    *)
(* happens when one is.                                                    *)
SavingIsAFraction ==
  (\A i \in Ids : queuings[i] <= 1) =>
    /\ total_bytes_saved <= CompletedBytes
    /\ total_bytes_saved + total_bytes_archived >= CompletedBytes
=============================================================================
