---------------------------- MODULE PurgeDaemon ----------------------------
(***************************************************************************)
(* daemon::PurgeDaemon (src/daemon.rs): four kinds of cleanup, each with   *)
(* an interval; the daemon says which is due and keeps when each last ran  *)
(* and a bounded history. Its callers either run what next_action_due      *)
(* names, or one batch of everything overdue. The clock never goes back    *)
(* while an action runs; between actions it may.                           *)
(***************************************************************************)
EXTENDS Integers, Sequences

CONSTANTS
  interval,    (* the configured hours of each kind                        *)
  max_history,
  Times        (* hours the clock may show                                 *)

VARIABLES
  last,        (* when each kind last ran                                  *)
  history,     (* the actions recorded, oldest first                       *)
  passed       (* ghost: t -> u -> how often u ran while t was due, since  *)
               (* t last ran                                               *)

vars == <<last, history, passed>>

Kinds == <<"BrowserClean", "SystemClean", "DedupScan", "PrivacyAudit">>
KindSet == {Kinds[i] : i \in DOMAIN Kinds}

Never == 0

MaxPassed == 2

(* A kind that never ran has been due since the epoch. *)
Deadline(k) == IF last[k] = Never THEN Never ELSE last[k] + interval[k]

Overdue(k, now) == now >= Deadline(k)

(* Slip: the kind with the shortest interval, of those overdue. *)
MostFrequentDue ==
  Kinds[CHOOSE i \in DOMAIN Kinds : \A j \in DOMAIN Kinds :
          \/ interval[Kinds[i]] < interval[Kinds[j]]
          \/ interval[Kinds[i]] = interval[Kinds[j]] /\ i <= j]

(* min_by_key: the earliest deadline, the first candidate on a tie. *)
NextActionDue ==
  Kinds[CHOOSE i \in DOMAIN Kinds : \A j \in DOMAIN Kinds :
          \/ Deadline(Kinds[i]) < Deadline(Kinds[j])
          \/ Deadline(Kinds[i]) = Deadline(Kinds[j]) /\ i <= j]

OverdueActions(now) == {k \in KindSet : Overdue(k, now)}

TypeOK ==
  /\ last \in [KindSet -> Times \cup {Never}]
  /\ history \in Seq([kind : KindSet, started_at : Times])
  /\ passed \in [KindSet -> [KindSet -> 0..MaxPassed]]

Init ==
  /\ last = [k \in KindSet |-> Never]
  /\ history = <<>>
  /\ passed = [t \in KindSet |-> [u \in KindSet |-> 0]]

(* The history keeps its newest max_history entries. *)
Evicted(h) == IF Len(h) > max_history THEN SubSeq(h, Len(h) - max_history + 1, Len(h)) ELSE h

(* record_action for each of ks in the order of Kinds, all within the hour *)
(* `at`.                                                                   *)
RecordActions(ks, at) ==
  /\ last' = [k \in KindSet |-> IF k \in ks THEN at ELSE last[k]]
  /\ history' = LET s == SelectSeq(Kinds, LAMBDA k : k \in ks)
                IN Evicted(history \o [i \in DOMAIN s |-> [kind |-> s[i], started_at |-> at]])

(* Those of ks that run while t still waits pass it. *)
Pass(ks, now) ==
  passed' = [t \in KindSet |-> [u \in KindSet |->
    IF t \in ks THEN 0
    ELSE IF u \in ks /\ Overdue(t, now) /\ passed[t][u] < MaxPassed THEN passed[t][u] + 1
    ELSE passed[t][u]]]

RunNext(now, done) ==
  /\ now <= done
  /\ Overdue(NextActionDue, now)
  /\ RecordActions({NextActionDue}, done)
  /\ Pass({NextActionDue}, now)

RunOverdue(now, done) ==
  /\ now <= done
  /\ OverdueActions(now) # {}
  /\ RecordActions(OverdueActions(now), done)
  /\ Pass(OverdueActions(now), now)

Next == \E now, done \in Times : RunNext(now, done) \/ RunOverdue(now, done)

-----------------------------------------------------------------------------
(* While a kind of cleanup is due, no other kind runs twice before it,     *)
(* whether callers take one action at a time or all that are overdue.      *)
NobodyPassedTwice == \A t, u \in KindSet : passed[t][u] <= 1
=============================================================================
