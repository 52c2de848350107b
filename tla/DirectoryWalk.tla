--------------------------- MODULE DirectoryWalk ---------------------------
(***************************************************************************)
(* Erasing a directory tree: destroyer::secure_delete_directory            *)
(* (src/destroyer.rs 125-165), Shredder::shred_directory and its preview   *)
(* dry_run (src/shredder.rs 241-287, 309-350).                             *)
(*                                                                         *)
(* Both walk with walkdir, contents first.  A directory's listing is taken *)
(* when it is opened; entries it cannot be read from are dropped silently; *)
(* regular files are erased, symlinks and special files are passed over,   *)
(* and the first error ends the call.  The erasure of one file is the      *)
(* subject of SecureDelete and Shredder: here it is the rename to a random *)
(* name, which other walks can come across, and the unlink.                *)
(***************************************************************************)
EXTENDS Sequences, FiniteSets, Integers

CONSTANTS
  Walks,       (* the calls                                                *)
  Nodes,       (* files, directories and other things the tree may hold    *)
  Root,        (* the directory the calls are given                        *)
  Kind,        (* node -> "dir", "file" or "other"                         *)
  Parent,      (* node other than the root -> its directory                *)
  Late,        (* nodes that are not there at first                        *)
  Backfill,    (* walk -> Shredder::backfill                               *)
  NoFile

(* Every way up ends at the root: the directories form a tree. *)
ASSUME TreeAssumption ==
  /\ Root \in Nodes /\ Kind[Root] = "dir"
  /\ Kind \in [Nodes -> {"dir", "file", "other"}]
  /\ Parent \in [Nodes \ {Root} -> {n \in Nodes : Kind[n] = "dir"}]
  /\ \A S \in SUBSET (Nodes \ {Root}) : S # {} => \E n \in S : Parent[n] \notin S
  /\ Late \subseteq Nodes \ {Root}
  /\ Backfill \in [Walks -> BOOLEAN]
  /\ Walks \cap {"absent", "own", "gone"} = {}
  /\ NoFile \notin Nodes

VARIABLES
  name,       (* node -> not there yet, under its own name, under a random *)
              (* name given by a walk, or gone                             *)
  filler,     (* directories that hold a backfill placeholder              *)
  pc, stack,  (* walk -> where it is; the directories it has open          *)
  left,       (* walk -> open directory -> the listed entries to come      *)
  at,         (* walk -> the file being erased                             *)
  seen,       (* walk -> the name that file was listed under               *)
  erased,     (* walk -> the files it has counted as deleted               *)
  preview,    (* walk -> the files of its dry run                          *)
  current,    (* history: the tree is still what the preview found         *)
  disturbed   (* history: somebody else changed the tree during the call,  *)
              (* or one of its system calls failed                         *)

treeVars == <<name, filler>>
walkVars == <<pc, stack, left, at, seen>>
historyVars == <<current, disturbed>>
vars == <<treeVars, walkVars, erased, preview, historyVars>>

Files == {n \in Nodes : Kind[n] = "file"}
Names == {"own"} \cup Walks
Entries == Nodes \X Names

There(n) == name[n] \in Names
Content(d) == {n \in Nodes \ {Root} : Parent[n] = d /\ There(n)}
Listing(d) == {<<n, name[n]>> : n \in Content(d)}
Empty(d) == Content(d) = {} /\ d \notin filler

Done == {"ok", "error"}
Running(w) == pc[w] \notin Done \cup {"idle"}
Top(w) == stack[w][Len(stack[w])]

TypeOK ==
  /\ name \in [Nodes -> Names \cup {"absent", "gone"}]
  /\ filler \subseteq Nodes
  /\ pc \in [Walks -> {"idle", "walk", "rename", "unlink"} \cup Done]
  /\ stack \in [Walks -> Seq(Nodes)]
  /\ left \in [Walks -> [Nodes -> SUBSET Entries]]
  /\ at \in [Walks -> Nodes \cup {NoFile}]
  /\ seen \in [Walks -> Names]
  /\ erased \in [Walks -> SUBSET Files]
  /\ preview \in [Walks -> SUBSET Files]
  /\ current \in [Walks -> BOOLEAN]
  /\ disturbed \in [Walks -> BOOLEAN]

NothingLeft == [n \in Nodes |-> {}]

(* A late directory is late with everything in it. *)
Init ==
  /\ name \in [Nodes -> {"absent", "own"}]
  /\ \A n \in Nodes : name[n] = "absent" =>
       n \in Late /\ \A m \in Nodes \ {Root} : Parent[m] = n => name[m] = "absent"
  /\ filler = {}
  /\ pc = [w \in Walks |-> "idle"]
  /\ stack = [w \in Walks |-> <<>>]
  /\ left = [w \in Walks |-> NothingLeft]
  /\ at = [w \in Walks |-> NoFile]
  /\ seen = [w \in Walks |-> "own"]
  /\ erased = [w \in Walks |-> {}]
  /\ preview = [w \in Walks |-> {}]
  /\ current = [w \in Walks |-> FALSE]
  /\ disturbed = [w \in Walks |-> FALSE]

Goto(w, stage) == pc' = [pc EXCEPT ![w] = stage]

(* A change to the tree that is not v's own, for every v among others.     *)
Disturb(others) ==
  /\ disturbed' = [v \in Walks |-> disturbed[v] \/ (v \in others /\ Running(v))]
  /\ current' = [v \in Walks |-> current[v] /\ v \notin others]

Push(w, d, listing) ==
  /\ stack' = [stack EXCEPT ![w] = Append(@, d)]
  /\ left' = [left EXCEPT ![w][d] = listing]

Pop(w) ==
  /\ stack' = [stack EXCEPT ![w] = SubSeq(@, 1, Len(@) - 1)]
  /\ UNCHANGED left

(* The call returns; its walk goes with it. *)
Return(w, outcome) ==
  /\ Goto(w, outcome)
  /\ stack' = [stack EXCEPT ![w] = <<>>]
  /\ left' = [left EXCEPT ![w] = NothingLeft]
  /\ at' = [at EXCEPT ![w] = NoFile]
  /\ seen' = [seen EXCEPT ![w] = "own"]

(***************************************************************************)
(* The preview.  What has a name has all its directories, so the files a   *)
(* walk from the root comes to are those that have one.                    *)
(***************************************************************************)
DryRun(w) ==
  /\ pc[w] = "idle"
  /\ There(Root)
  /\ preview' = [preview EXCEPT ![w] = {n \in Files : There(n)}]
  /\ current' = [current EXCEPT ![w] = TRUE]
  /\ UNCHANGED <<treeVars, walkVars, erased, disturbed>>

(***************************************************************************)
(* The walk.                                                               *)
(***************************************************************************)
Begin(w) ==
  /\ pc[w] = "idle"
  /\ There(Root)
  /\ Goto(w, "walk")
  /\ Push(w, Root, Listing(Root))
  /\ UNCHANGED <<treeVars, at, seen, erased, preview, historyVars>>

Refuse(w) ==
  /\ pc[w] = "idle"
  /\ ~There(Root)
  /\ Return(w, "error")
  /\ UNCHANGED <<treeVars, erased, preview, historyVars>>

Upcoming(w) == IF pc[w] = "walk" THEN left[w][Top(w)] ELSE {}

(* Slip: contents_first left out, a directory is removed when come upon. *)
EnterRemoving(w, e) ==
  /\ e \in Upcoming(w) /\ Kind[e[1]] = "dir"
  /\ IF There(e[1]) /\ Empty(e[1]) THEN Push(w, e[1], {}) /\ UNCHANGED <<pc, at, seen>>
     ELSE Return(w, "error")
  /\ UNCHANGED <<treeVars, erased, preview, historyVars>>

(* A directory that has been removed since opens to an error, which        *)
(* filter_map drops: it looks empty.                                       *)
EnterDirectory(w, e) ==
  /\ e \in Upcoming(w) /\ Kind[e[1]] = "dir"
  /\ stack' = [stack EXCEPT ![w] = Append(@, e[1])]
  /\ left' = [left EXCEPT ![w][Top(w)] = @ \ {e},
                          ![w][e[1]] = IF There(e[1]) THEN Listing(e[1]) ELSE {}]
  /\ UNCHANGED <<treeVars, pc, at, seen, erased, preview, historyVars>>

PassOver(w, e) ==
  /\ e \in Upcoming(w) /\ Kind[e[1]] = "other"
  /\ left' = [left EXCEPT ![w][Top(w)] = @ \ {e}]
  /\ UNCHANGED <<treeVars, pc, stack, at, seen, erased, preview, historyVars>>

(* Slip: whatever is not a directory is taken for a file. *)
StartAnything(w, e) ==
  /\ e \in Upcoming(w) /\ Kind[e[1]] # "dir"
  /\ left' = [left EXCEPT ![w][Top(w)] = @ \ {e}]
  /\ at' = [at EXCEPT ![w] = e[1]]
  /\ seen' = [seen EXCEPT ![w] = e[2]]
  /\ Goto(w, "rename")
  /\ UNCHANGED <<treeVars, stack, erased, preview, historyVars>>

StartFile(w, e) ==
  /\ e \in Upcoming(w) /\ Kind[e[1]] = "file"
  /\ left' = [left EXCEPT ![w][Top(w)] = @ \ {e}]
  /\ at' = [at EXCEPT ![w] = e[1]]
  /\ seen' = [seen EXCEPT ![w] = e[2]]
  /\ Goto(w, "rename")
  /\ UNCHANGED <<treeVars, stack, erased, preview, historyVars>>

RenameFile(w) ==
  /\ pc[w] = "rename"
  /\ name[at[w]] = seen[w]
  /\ name' = [name EXCEPT ![at[w]] = w]
  /\ Goto(w, "unlink")
  /\ Disturb(Walks \ {w})
  /\ UNCHANGED <<filler, stack, left, at, seen, erased, preview>>

(* Opening or renaming a name that is no longer there. *)
RenameFails(w) ==
  /\ pc[w] = "rename"
  /\ name[at[w]] # seen[w]
  /\ Return(w, "error")
  /\ UNCHANGED <<treeVars, erased, preview, historyVars>>

Counted(w) ==
  /\ erased' = [erased EXCEPT ![w] = @ \cup {at[w]}]
  /\ filler' = IF Backfill[w] THEN filler \cup {Parent[at[w]]} ELSE filler
  /\ at' = [at EXCEPT ![w] = NoFile]
  /\ seen' = [seen EXCEPT ![w] = "own"]
  /\ Goto(w, "walk")
  /\ Disturb(Walks \ {w})
  /\ UNCHANGED <<stack, left, preview>>

(* Slip: the result of remove_file is not looked at. *)
UnlinkUnchecked(w) ==
  /\ pc[w] = "unlink"
  /\ name' = IF name[at[w]] = w THEN [name EXCEPT ![at[w]] = "gone"] ELSE name
  /\ Counted(w)

UnlinkFile(w) ==
  /\ pc[w] = "unlink"
  /\ name[at[w]] = w
  /\ name' = [name EXCEPT ![at[w]] = "gone"]
  /\ Counted(w)

UnlinkFails(w) ==
  /\ pc[w] = "unlink"
  /\ name[at[w]] # w
  /\ Return(w, "error")
  /\ UNCHANGED <<treeVars, erased, preview, historyVars>>

Exhausted(w) == pc[w] = "walk" /\ left[w][Top(w)] = {}

(* Slip: remove_dir_all. *)
RemoveDirectoryAll(w) ==
  /\ Exhausted(w)
  /\ There(Top(w))
  /\ name' = [name EXCEPT ![Top(w)] = "gone"]
  /\ Disturb(Walks \ {w})
  /\ IF Top(w) = Root THEN Return(w, "ok")
     ELSE Pop(w) /\ UNCHANGED <<pc, at, seen>>
  /\ UNCHANGED <<filler, erased, preview>>

RemoveDirectory(w) ==
  /\ Exhausted(w)
  /\ There(Top(w)) /\ Empty(Top(w))
  /\ name' = [name EXCEPT ![Top(w)] = "gone"]
  /\ Disturb(Walks \ {w})
  /\ IF Top(w) = Root THEN Return(w, "ok")
     ELSE Pop(w) /\ UNCHANGED <<pc, at, seen>>
  /\ UNCHANGED <<filler, erased, preview>>

(* Slip: a directory that is not empty is gone through once more. *)
RemoveRelisting(w) ==
  /\ Exhausted(w)
  /\ ~(There(Top(w)) /\ Empty(Top(w)))
  /\ IF There(Top(w))
       THEN /\ left' = [left EXCEPT ![w][Top(w)] = Listing(Top(w))]
            /\ UNCHANGED <<pc, stack, at, seen>>
       ELSE Return(w, "error")
  /\ UNCHANGED <<treeVars, erased, preview, historyVars>>

RemoveFails(w) ==
  /\ Exhausted(w)
  /\ ~(There(Top(w)) /\ Empty(Top(w)))
  /\ Return(w, "error")
  /\ UNCHANGED <<treeVars, erased, preview, historyVars>>

(* A system call fails, or the process dies. *)
Fault(w) ==
  /\ Running(w)
  /\ Return(w, "error")
  /\ disturbed' = [disturbed EXCEPT ![w] = TRUE]
  /\ UNCHANGED <<treeVars, erased, preview, current>>

(***************************************************************************)
(* Other programs create entries, or take regular files away.              *)
(***************************************************************************)
Meddle(n, new) ==
  /\ name' = [name EXCEPT ![n] = new]
  /\ Disturb(Walks)
  /\ UNCHANGED <<filler, walkVars, erased, preview>>

Create(n) == name[n] = "absent" /\ There(Parent[n]) /\ Meddle(n, "own")
Remove(n) == name[n] = "own" /\ Meddle(n, "gone")

Step(w) ==
  \/ \E e \in Upcoming(w) : EnterDirectory(w, e) \/ PassOver(w, e) \/ StartFile(w, e)
  \/ RenameFile(w) \/ RenameFails(w) \/ UnlinkFile(w) \/ UnlinkFails(w)
  \/ RemoveDirectory(w) \/ RemoveFails(w)

Next ==
  \/ \E w \in Walks : DryRun(w) \/ Begin(w) \/ Refuse(w) \/ Step(w) \/ Fault(w)
  \/ \E n \in Late : Create(n)
  \/ \E n \in Files : Remove(n)

(* A call that has begun keeps running; nobody has to begin one. *)
Spec == Init /\ [][Next]_vars /\ \A w \in Walks : WF_vars(Step(w))

-----------------------------------------------------------------------------
(* files_deleted: two walks on one tree never both count the same file,    *)
(* though each may list a file under the random name the other gave it.    *)
EachFileCountedOnce ==
  \A v, w \in Walks : v # w => erased[v] \cap erased[w] = {}

(* dry_run: what a preview listed is what an undisturbed call then erases. *)
PreviewIsWhatIsErased ==
  \A w \in Walks :
    pc[w] = "ok" /\ current[w] => erased[w] = preview[w]

(* test_shred_directory: a call that no other program and no failing       *)
(* system call disturbs leaves no directory behind, unless the tree holds  *)
(* something that is not a regular file.  This includes a tree that        *)
(* earlier calls, failed or killed, have left half erased.                 *)
UndisturbedCallSucceeds ==
  \A w \in Walks :
    pc[w] = "error" /\ There(Root) /\ ~disturbed[w] =>
      \E n \in Nodes : Kind[n] = "other" /\ There(n)

(* What has a name has a directory: no walk removes a directory under an   *)
(* entry that another walk or program has just put there.                  *)
NoEntryCutOff == \A n \in Nodes \ {Root} : There(n) => There(Parent[n])

(* A walk comes to an end whatever is done to the tree meanwhile.          *)
EveryWalkEnds == \A w \in Walks : Running(w) ~> ~Running(w)
=============================================================================
