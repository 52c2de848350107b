------------------------------ MODULE Erasure ------------------------------
(***************************************************************************)
(* What the erasure functions of PlausiDen-Purge promise, without passes,  *)
(* handles or locks: a file's user data leaves the device by being         *)
(* overwritten where it lies, and only a file with none left loses the     *)
(* name its user knows it by.  Blocks are never given back with user data  *)
(* still in them.                                                          *)
(***************************************************************************)
EXTENDS Integers

CONSTANTS Inodes, Chunks

VARIABLES
  held,    (* inode -> the chunks of it the device holds user data in      *)
  named,   (* the inodes that a user can reach by name                     *)
  leaked   (* the inodes whose blocks were freed with user data in them    *)

Init ==
  /\ held \in [Inodes -> SUBSET Chunks]
  /\ named \in SUBSET Inodes
  /\ leaked = {}

Overwrite(i) ==
  /\ \E rest \in SUBSET held[i] : held' = [held EXCEPT ![i] = rest]
  /\ UNCHANGED <<named, leaked>>

Forget(i) ==
  /\ held[i] = {}
  /\ named' = named \ {i}
  /\ UNCHANGED <<held, leaked>>

Next == \E i \in Inodes : Overwrite(i) \/ Forget(i)

Spec == Init /\ [][Next]_<<held, named, leaked>>
=============================================================================
