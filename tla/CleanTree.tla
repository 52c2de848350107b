----------------------------- MODULE CleanTree -----------------------------
(***************************************************************************)
(* The file tree as the two cleaners look at it, and the helpers they      *)
(* share. A path is the sequence of its components. The tree lists the     *)
(* files, the links (to a plain file elsewhere) and the directories that   *)
(* matter; the directory of what is listed is listed too.                  *)
(***************************************************************************)
EXTENDS Integers, Sequences, SequencesExt, FiniteSetsExt

CONSTANTS
  Pieces,      (* file name -> the pieces of a name some rule looks for    *)
               (* that begin it, end it or occur in it, as the rule asks   *)
  Number       (* name made of digits -> the number                        *)

VARIABLE tree  (* path -> node                                             *)

(* mine: owned by the user who cleans; old: not modified for seven days.   *)
Node == [kind : {"file", "dir", "link"}, size : Nat, mine : BOOLEAN, old : BOOLEAN]

Has(p, piece) == Last(p) \in DOMAIN Pieces /\ piece \in Pieces[Last(p)]

Is(p, kinds) == p \in DOMAIN tree /\ tree[p].kind \in kinds

IsFile(p) == Is(p, {"file", "link"})
IsDir(p) == Is(p, {"dir"})
Exists(p) == p \in DOMAIN tree

Children(d) == {p \in DOMAIN tree : p # <<>> /\ Front(p) = d}

FilesIn(d) == {p \in Children(d) : IsFile(p)}

Inside(d) == {p \in DOMAIN tree : IsStrictPrefix(d, p)}

(* A walk does not follow links, and counts none. *)
FilesBelow(d) == {p \in Inside(d) : tree[p].kind = "file"}

SizeOf(paths) == MapThenSumSet(LAMBDA p : tree[p].size, paths)

(* Slip: of a directory, only what is directly in it is counted. *)
ShallowSize(p) == IF IsFile(p) THEN tree[p].size ELSE SizeOf(FilesIn(p))

PathSize(p) == IF IsFile(p) THEN tree[p].size ELSE SizeOf(FilesBelow(p))

-----------------------------------------------------------------------------
(* What a rule adds to the list of targets: nothing, or one target.        *)
Unsized == -1

Target(category, paths) ==
  IF paths = {} THEN <<>> ELSE <<[category |-> category, paths |-> paths, size |-> Unsized]>>

IfExists(category, p) == Target(category, {q \in {p} : Exists(q)})

Dirs(category, paths) == Target(category, {p \in paths : IsDir(p)})

(* One target for each path that exists, in the order of the list. *)
EachThatExists(category, base, names) ==
  FlattenSeq([i \in DOMAIN names |-> IfExists(category, base \o names[i])])

EachDir(category, paths) == FlattenSeq([i \in DOMAIN paths |-> Dirs(category, {paths[i]})])
=============================================================================
