-------------------------- MODULE DuplicateCatalogs --------------------------
(***************************************************************************)
(* The two catalogs that say which files to do without:                    *)
(* duplicates::DuplicateDetector (src/duplicates.rs), which keeps the      *)
(* first file added of each content, and content_dedup::ContentDedup       *)
(* (src/content_dedup.rs), which keeps the oldest. Both only ever grow,    *)
(* and are told of a file's content and time by their caller, who also     *)
(* deletes what they suggest. Here both are told of the same files, and    *)
(* the caller follows one of them.                                         *)
(***************************************************************************)
EXTENDS Integers, Sequences, FiniteSets, FiniteSetsExt

CONSTANTS Paths, Contents, Times, MaxEntries, MaxEdits

VARIABLES
  disk,        (* path -> [content, modified], or Nothing                  *)
  entries,     (* the files added: [path, content_hash, modified_at]       *)
  follows,     (* "DuplicateDetector" or "ContentDedup"                    *)
  edits,
  stale        (* ghost: a path was written to after it had been added      *)

vars == <<disk, entries, follows, edits, stale>>

Nothing == [content |-> "nothing", modified |-> 0]
File == [content : Contents, modified : Times]

TypeOK ==
  /\ disk \in [Paths -> File \cup {Nothing}]
  /\ entries \in Seq([path : Paths, content_hash : Contents, modified_at : Times])
  /\ follows \in {"DuplicateDetector", "ContentDedup"}
  /\ edits \in 0..MaxEdits /\ stale \in BOOLEAN

InitWith(d, catalog) ==
  /\ disk = d /\ entries = <<>> /\ follows = catalog
  /\ edits = 0 /\ stale = FALSE

Init == \E d \in [Paths -> File], catalog \in {"DuplicateDetector", "ContentDedup"} :
          InitWith(d, catalog)

Added == {entries[i].path : i \in DOMAIN entries}

(* A file may be added again: an entry is never replaced. *)
Add(p) ==
  /\ disk[p] # Nothing /\ Len(entries) < MaxEntries
  /\ entries' = Append(entries, [path |-> p, content_hash |-> disk[p].content,
                                 modified_at |-> disk[p].modified])
  /\ UNCHANGED <<disk, follows, edits, stale>>

Clear == entries' = <<>> /\ stale' = FALSE /\ UNCHANGED <<disk, follows, edits>>

(* The places of one content's entries, in the order they were added.      *)
Group(c) == {i \in DOMAIN entries : entries[i].content_hash = c}

DuplicateGroups == {c \in Contents : Cardinality(Group(c)) > 1}

PathsOf(group) == {entries[i].path : i \in group}

(* Slip: the group's list is not cut before it is returned. *)
AllOf(c) == PathsOf(Group(c))

ButTheFirst(c) == PathsOf(Group(c) \ {Min(Group(c))})

Oldest(c) ==
  {i \in Group(c) : \A j \in Group(c) : entries[i].modified_at <= entries[j].modified_at}

(* The first of the oldest entries. *)
Canonical(c) == entries[Min(Oldest(c))].path

ButCanonical(c) == PathsOf(Group(c)) \ {Canonical(c)}

Suggested ==
  UNION {IF follows = "ContentDedup" THEN ButCanonical(c) ELSE ButTheFirst(c) : c \in DuplicateGroups}

(* The caller deletes one of the suggested files, if it is still there.    *)
Delete(p) ==
  /\ p \in Suggested /\ disk[p] # Nothing
  /\ disk' = [disk EXCEPT ![p] = Nothing]
  /\ UNCHANGED <<entries, follows, edits, stale>>

Edit(p, f) ==
  /\ edits < MaxEdits /\ f # disk[p]
  /\ disk' = [disk EXCEPT ![p] = f]
  /\ edits' = edits + 1
  /\ stale' = (stale \/ p \in Added)
  /\ UNCHANGED <<entries, follows>>

Next ==
  \/ \E p \in Paths : Add(p) \/ Delete(p) \/ \E f \in File : Edit(p, f)
  \/ Clear

-----------------------------------------------------------------------------
AddedTwice ==
  \E i, j \in DOMAIN entries : i < j /\ entries[i].path = entries[j].path
                                     /\ entries[i].content_hash = entries[j].content_hash

(* Following the suggestions, in whatever order and as the catalog grows,  *)
(* leaves a copy of every content in it, if no path is written to once it  *)
(* was added, nor used again for another file: an entry outlives its file. *)
(* The detector must not be told of a file twice either: it would keep the *)
(* first mention and suggest the second, which is the same file.           *)
OneCopySurvives ==
  ~stale /\ (follows = "DuplicateDetector" => ~AddedTwice) =>
    \A i \in DOMAIN entries : \E p \in Added : disk[p].content = entries[i].content_hash

(* What duplicate_groups and reclaimable_bytes count, in files.            *)
Reclaimable == MapThenSumSet(LAMBDA c : Cardinality(Group(c)) - 1, DuplicateGroups)
=============================================================================
