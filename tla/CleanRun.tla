------------------------------ MODULE CleanRun ------------------------------
(***************************************************************************)
(* One run of a cleaner over the tree: discover, scan, and, unless it is a *)
(* dry run, clean. SystemCleaner and BrowserCleaner do the same here and   *)
(* differ in their rules: `listed` is what theirs list for the tree as it  *)
(* stands. Discovery and scan, which only read, are a step each; so is the *)
(* erasure of a file, and the removal of a directory. secure_delete erases *)
(* a directory with all that lies below it, in a walk of many such steps.  *)
(***************************************************************************)
EXTENDS CleanTree

CONSTANTS Requests       (* the [categories, dry] a run is started with    *)

VARIABLES
  listed,
  phase,      (* "idle", "found", "cleaning" or "done"                     *)
  request,
  targets,
  report,
  todo,       (* the paths still to visit, target by target                *)
  walk,       (* the directory it is erasing, or NoWalk                    *)
  erased,     (* ghost: <<path, node>> of all this run has erased          *)
  entered,    (* ghost: the same of the directories it set out to erase    *)
  refused     (* ghost: where secure_delete failed                         *)

vars == <<tree, phase, request, targets, report, todo, walk, erased, entered, refused>>

NoWalk == <<>>

NoRequest == [categories |-> {}, dry |-> TRUE]
NoReport == [total |-> 0, by_category |-> <<>>]

Init ==
  /\ phase = "idle" /\ request = NoRequest
  /\ targets = <<>> /\ report = NoReport /\ todo = <<>> /\ walk = NoWalk
  /\ erased = {} /\ entered = {} /\ refused = {}

Discover(req) ==
  /\ phase = "idle"
  /\ phase' = "found" /\ request' = req
  /\ targets' = listed
  /\ UNCHANGED <<tree, report, todo, walk, erased, entered, refused>>

(* Sizes that are known already are not looked up again. *)
Sized(list) ==
  [i \in DOMAIN list |->
    IF list[i].size # Unsized THEN list[i]
    ELSE [list[i] EXCEPT !.size = MapThenSumSet(PathSize, list[i].paths)]]

Categories(list) == {list[i].category : i \in DOMAIN list}

TotalOf(list, cats) ==
  FoldLeftDomain(LAMBDA sum, i : IF list[i].category \in cats THEN sum + list[i].size ELSE sum,
                 0, list)

BuildReport(list) ==
  [total |-> TotalOf(list, Categories(list)),
   by_category |-> [c \in Categories(list) |-> TotalOf(list, {c})]]

(* The report is about all categories, and is what clean will return.      *)
Reported == BuildReport(Sized(targets))

ToVisit ==
  FlattenSeq([i \in DOMAIN targets |->
    IF targets[i].category \in request.categories THEN <<targets[i].paths>> ELSE <<>>])

Scan ==
  /\ phase = "found"
  /\ targets' = Sized(targets) /\ report' = Reported
  /\ IF request.dry THEN phase' = "done" /\ UNCHANGED todo
                    ELSE phase' = "cleaning" /\ todo' = ToVisit
  /\ UNCHANGED <<tree, request, walk, erased, entered, refused>>

Visited(p) == IF Head(todo) = {p} THEN Tail(todo) ELSE [todo EXCEPT ![1] = @ \ {p}]

Pending(p) == phase = "cleaning" /\ walk = NoWalk /\ todo # <<>> /\ p \in Head(todo)

Take(p) ==
  /\ tree' = [q \in DOMAIN tree \ {p} |-> tree[q]]
  /\ erased' = erased \cup {<<p, tree[p]>>}

(* secure_delete takes a plain file away. *)
Erase(p) ==
  /\ Pending(p) /\ Is(p, {"file"})
  /\ Take(p)
  /\ todo' = Visited(p)
  /\ UNCHANGED <<phase, request, targets, report, walk, entered, refused>>

Fails(p, rest) ==
  /\ Pending(p) /\ IsFile(p)
  /\ refused' = refused \cup {p}
  /\ todo' = rest
  /\ UNCHANGED <<tree, phase, request, targets, report, walk, erased, entered>>

(* Slip: a failure ends the loop. *)
EraseFailsForGood(p) == Fails(p, <<>>)

(* It fails on a link, and on a plain file for want of a permission or for *)
(* an I/O error: the failure is logged, and the run goes on.               *)
EraseFails(p) == Fails(p, Visited(p))

(* What is not there any more is skipped. *)
Skip(p) ==
  /\ Pending(p) /\ ~Exists(p)
  /\ todo' = Visited(p)
  /\ UNCHANGED <<tree, phase, request, targets, report, walk, erased, entered, refused>>

(* Of a directory it erases all files below, and then the directory.       *)
Enter(p) ==
  /\ Pending(p) /\ IsDir(p)
  /\ walk' = p
  /\ entered' = entered \cup {<<p, tree[p]>>}
  /\ UNCHANGED <<tree, phase, request, targets, report, todo, erased, refused>>

InWalk(q) == walk # NoWalk /\ q \in DOMAIN tree /\ IsPrefix(walk, q)

Stops == walk' = NoWalk /\ todo' = Visited(walk)

(* The walk comes to the files and directories in any order that leaves a  *)
(* directory for last, and follows no link.                                *)
WalkErases(q) ==
  /\ InWalk(q) /\ Is(q, {"file"})
  /\ Take(q)
  /\ UNCHANGED <<phase, request, targets, report, todo, walk, entered, refused>>

WalkRemoves(q) ==
  /\ InWalk(q) /\ IsDir(q) /\ Inside(q) = {}
  /\ Take(q)
  /\ IF q = walk THEN Stops ELSE UNCHANGED <<todo, walk>>
  /\ UNCHANGED <<phase, request, targets, report, entered, refused>>

(* The first failure ends the walk, half done: a file that cannot be       *)
(* erased, a directory that cannot be removed, since it is not empty (a    *)
(* link stays) or for want of a permission, or, in directory q, an entry   *)
(* that was listed and is gone.                                            *)
WalkFails(q) ==
  /\ InWalk(q) /\ Is(q, {"file", "dir"})
  /\ refused' = refused \cup {q}
  /\ Stops
  /\ UNCHANGED <<tree, phase, request, targets, report, erased, entered>>

(* Somebody else took the whole directory. *)
WalkIsLost ==
  /\ walk # NoWalk /\ ~Exists(walk)
  /\ Stops
  /\ UNCHANGED <<tree, phase, request, targets, report, erased, entered, refused>>

Finish ==
  /\ phase = "cleaning" /\ todo = <<>>
  /\ phase' = "done"
  /\ UNCHANGED <<tree, request, targets, report, todo, walk, erased, entered, refused>>

Visit(p) == Erase(p) \/ EraseFails(p) \/ Skip(p) \/ Enter(p)

Walk ==
  \/ \E q \in DOMAIN tree : WalkErases(q) \/ WalkRemoves(q) \/ WalkFails(q)
  \/ WalkIsLost

Next ==
  \/ \E req \in Requests : Discover(req)
  \/ Scan
  \/ \E p \in UNION {todo[i] : i \in DOMAIN todo} : Visit(p)
  \/ Walk
  \/ Finish

-----------------------------------------------------------------------------
Freed == MapThenSumSet(LAMBDA e : e[2].size, {e \in erased : e[2].kind = "file"})

(* If nobody else touches the tree: of what its rules list for the chosen  *)
(* categories a finished run has left nothing, but where secure_delete     *)
(* failed on it or on something below it.                                  *)
Thorough ==
  phase = "done" /\ ~request.dry =>
    \A i \in DOMAIN listed : listed[i].category \in request.categories =>
      \A p \in listed[i].paths : Exists(p) => \E q \in refused : IsPrefix(p, q)

ListedPaths == UNION {targets[i].paths : i \in DOMAIN targets}

ListedOnce ==
  /\ \A i, j \in DOMAIN targets : i # j => targets[i].paths \cap targets[j].paths = {}
  /\ \A p, q \in ListedPaths : ~IsStrictPrefix(p, q)

(* If nobody else touches the tree, but the other run, which has erased    *)
(* what is in others: a run frees no more than it reports, and no less if  *)
(* what it lists is listed once and apart, is of a chosen category, was    *)
(* erased, and nothing of it by the other. A dry run frees nothing.        *)
FreesWhatItReports(others) ==
  phase = "done" =>
    /\ Freed <= report.total
    /\ request.dry => Freed = 0
    /\ /\ ListedOnce
       /\ Categories(targets) \subseteq request.categories /\ ~request.dry
       /\ ListedPaths \subseteq {e[1] : e \in erased}
       /\ \A p \in ListedPaths, e \in others : ~IsPrefix(p, e[1])
       => Freed = report.total
=============================================================================
