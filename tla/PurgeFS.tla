------------------------------ MODULE PurgeFS ------------------------------
(***************************************************************************)
(* The part of the kernel that the erasure code of PlausiDen-Purge works   *)
(* through: directory entries, inodes holding fixed-size chunks, the page  *)
(* cache and what has reached the disk, and advisory flock(2) locks.  No   *)
(* file under src/ implements it; each operator is what the calls in       *)
(* safety.rs, destroyer.rs and shredder.rs rely on.                        *)
(*                                                                         *)
(* A chunk is one 64 KiB step of the overwrite loops.  Its content is      *)
(* abstracted to the pattern it was last written with: "user" data, a pass *)
(* pattern, or "none" beyond the end of the file.                          *)
(***************************************************************************)
EXTENDS Integers

CONSTANTS
  Calls,     (* running invocations of an erasure function                 *)
  Writers,   (* other programs that lock a file before they write it       *)
  Paths,     (* names users know files by                                  *)
  Attic,     (* the name a rotated file is moved to                        *)
  Inodes,
  NoInode,
  NoOne,     (* the holder of a free lock                                  *)
  MaxLen,    (* chunks in the longest file                                 *)
  Kind,      (* inode -> "file", "symlink" or "special"                    *)
  LinkTo     (* where a symlink inode points                               *)

Chunks == 1..MaxLen
Patterns == {"zeros", "ones", "random", "other", "cipher"}
Content == Patterns \cup {"user", "none"}

(* A call renames its target to a random 64-bit name before unlinking it.  *)
(* Collisions are ignored: the random name drawn by call c is c itself.    *)
Names == Paths \cup Calls \cup {Attic}

ASSUME FSAssumption ==
  /\ MaxLen \in Nat
  /\ NoInode \notin Inodes
  /\ NoOne \notin Calls \cup Writers
  /\ Calls \cap Writers = {}
  /\ Calls \cap Paths = {}
  /\ Attic \notin Calls \cup Paths
  /\ Kind \in [Inodes -> {"file", "symlink", "special"}]
  /\ LinkTo \in [Inodes -> Paths]

VARIABLES
  dirent,    (* name -> the inode it is bound to                           *)
  len,       (* inode -> its length in chunks                              *)
  chunk,     (* inode -> chunk -> content as read and write see it         *)
  disk,      (* inode -> chunk -> content on the storage device            *)
  lock,      (* inode -> holder of its exclusive flock                     *)
  lost       (* history: inodes whose blocks went back to the free pool    *)
             (* while the device still held user data in them              *)

fsVars == <<dirent, len, chunk, disk, lock, lost>>

FSTypeOK ==
  /\ dirent \in [Names -> Inodes \cup {NoInode}]
  /\ len \in [Inodes -> 0..MaxLen]
  /\ chunk \in [Inodes -> [Chunks -> Content]]
  /\ disk \in [Inodes -> [Chunks -> Content]]
  /\ lock \in [Inodes -> Calls \cup Writers \cup {NoOne}]
  /\ lost \in SUBSET Inodes

(* Files whose every chunk is user data, under any binding of the known    *)
(* paths, hard links included, to the inodes of `linkable`. Symlinks and   *)
(* special files hold no data.                                             *)
FSInit(linkable) ==
  /\ \E d \in [Paths -> linkable \cup {NoInode}] :
        dirent = [n \in Names |-> IF n \in Paths THEN d[n] ELSE NoInode]
  /\ len \in [Inodes -> 0..MaxLen]
  /\ \A i \in Inodes : Kind[i] # "file" => len[i] = 0
  /\ chunk = [i \in Inodes |->
                [b \in Chunks |-> IF b <= len[i] THEN "user" ELSE "none"]]
  /\ disk = chunk
  /\ lock = [i \in Inodes |-> NoOne]
  /\ lost = {}

(***************************************************************************)
(* Reading the file system.                                                *)
(***************************************************************************)

(* stat(2) through a symlink, as Path::exists and fs::metadata do. *)
Resolve(n) ==
  LET i == dirent[n]
  IN  IF i # NoInode /\ Kind[i] = "symlink" THEN dirent[LinkTo[i]] ELSE i

Unlinked(i) == \A n \in Names : dirent[n] # i

(* Chunks of user data the device still holds for inode i. *)
Held(i) == {b \in Chunks : disk[i][b] = "user"}

(***************************************************************************)
(* Changing it.                                                            *)
(***************************************************************************)

(* write(2) of one chunk: page cache only; it extends the file if needed. *)
WriteAt(i, b, c) ==
  /\ chunk' = [chunk EXCEPT ![i][b] = c]
  /\ len' = [len EXCEPT ![i] = IF @ < b THEN b ELSE @]

(* fsync(2): everything written to the inode so far reaches the device. *)
SyncFile(i) == disk' = [disk EXCEPT ![i] = chunk[i]]

(* ftruncate(fd, 0): the blocks return to the free pool as they are. *)
TruncateFile(i) ==
  /\ len' = [len EXCEPT ![i] = 0]
  /\ chunk' = [chunk EXCEPT ![i] = [b \in Chunks |-> "none"]]
  /\ disk' = [disk EXCEPT ![i] = [b \in Chunks |-> "none"]]
  /\ lost' = IF Held(i) # {} THEN lost \cup {i} ELSE lost

(* rename(2) onto a name nothing is bound to. *)
RenameEntry(from, to) ==
  dirent' = [dirent EXCEPT ![to] = dirent[from], ![from] = NoInode]

(* unlink(2): the blocks are freed with the last name. *)
UnlinkEntry(n) ==
  LET i == dirent[n]
  IN  /\ dirent' = [dirent EXCEPT ![n] = NoInode]
      /\ lost' = IF Held(i) # {} /\ \A m \in Names \ {n} : dirent[m] # i
                 THEN lost \cup {i} ELSE lost

(* flock(2) LOCK_EX | LOCK_NB, and the release when the handle is dropped. *)
LockFree(i) == lock[i] = NoOne
TakeLock(i, c) == lock' = [lock EXCEPT ![i] = c]
DropLocks(c) == lock' = [i \in Inodes |-> IF lock[i] = c THEN NoOne ELSE lock[i]]

(***************************************************************************)
(* Other programs.                                                         *)
(***************************************************************************)

WriterLock(w, n) ==
  /\ dirent[n] # NoInode
  /\ Kind[dirent[n]] = "file"
  /\ LockFree(dirent[n])
  /\ \A i \in Inodes : lock[i] # w
  /\ TakeLock(dirent[n], w)
  /\ UNCHANGED <<dirent, len, chunk, disk, lost>>

(* A durable append under the writer's own lock. *)
WriterAppend(w, i) ==
  /\ lock[i] = w
  /\ len[i] < MaxLen
  /\ WriteAt(i, len[i] + 1, "user")
  /\ disk' = [disk EXCEPT ![i][len[i] + 1] = "user"]
  /\ UNCHANGED <<dirent, lock, lost>>

WriterUnlock(w) ==
  /\ \E i \in Inodes : lock[i] = w
  /\ DropLocks(w)
  /\ UNCHANGED <<dirent, len, chunk, disk, lost>>

(* A program that knows nothing of flock writes a chunk in place. *)
Scribble(i, b) ==
  /\ b <= len[i]
  /\ WriteAt(i, b, "user")
  /\ disk' = [disk EXCEPT ![i][b] = "user"]
  /\ UNCHANGED <<dirent, lock, lost>>

(* A log rotator moves the file aside and binds the name to a spare inode: *)
(* a new regular file, or a symlink.  The attic holds one file: one        *)
(* rotation per behaviour.                                                 *)
Rotate(n, j) ==
  /\ dirent[Attic] = NoInode
  /\ dirent[n] # NoInode
  /\ Unlinked(j)
  /\ dirent' = [dirent EXCEPT ![Attic] = dirent[n], ![n] = j]
  /\ UNCHANGED <<len, chunk, disk, lock, lost>>
=============================================================================
