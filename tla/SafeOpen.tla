------------------------------ MODULE SafeOpen ------------------------------
(***************************************************************************)
(* safety::safe_open_rw (src/safety.rs 73-146) and what its callers do with *)
(* the handle it returns: open(2) with O_NOFOLLOW, fstat of the type, a     *)
(* bounded number of non-blocking flock attempts; the flock goes with the   *)
(* handle.  SecureDelete and Shredder make their steps from these.          *)
(***************************************************************************)
EXTENDS PurgeFS

CONSTANT FlockAttempts   (* tries of flock before safe_open_rw gives up     *)

ASSUME FlockAssumption == FlockAttempts \in Nat \ {0}

VARIABLES
  pc,      (* where the call is                                            *)
  fd,      (* the inode its open handle is on                              *)
  tries    (* failed flock attempts on that handle                         *)

(* How a call ends: with Ok, with an error, with a failed verification, or *)
(* killed.                                                                 *)
Done == {"ok", "error", "mismatch", "dead"}
Running(c) == pc[c] \notin Done \cup {"idle"}

HandleInit ==
  /\ pc = [c \in Calls |-> "idle"]
  /\ fd = [c \in Calls |-> NoInode]
  /\ tries = [c \in Calls |-> 0]

Goto(c, stage) == pc' = [pc EXCEPT ![c] = stage]

(* safe_symlink_metadata: the name itself is a regular file. *)
Openable(n) == dirent[n] # NoInode /\ Kind[dirent[n]] = "file"

HandleOpened(c, i) ==
  /\ fd' = [fd EXCEPT ![c] = i]
  /\ tries' = [tries EXCEPT ![c] = 0]
  /\ Goto(c, "flock")
  /\ UNCHANGED fsVars

(* Slip: LOCK_SH, which other shared holders do not refuse. *)
FlockShared(c) == fd[c] \in Inodes

FlockFree(c) == LockFree(fd[c])

(* Slip: the result of flock is not looked at. *)
HandleUnlocked(c, stage) ==
  /\ pc[c] = "flock"
  /\ Goto(c, stage)
  /\ UNCHANGED <<fsVars, fd, tries>>

HandleLocked(c, stage) ==
  /\ pc[c] = "flock"
  /\ FlockFree(c)
  /\ TakeLock(fd[c], c)
  /\ Goto(c, stage)
  /\ UNCHANGED <<dirent, len, chunk, disk, lost, fd, tries>>

(* Slip: the retry loop does not count its attempts. *)
HandleSpins(c) ==
  /\ pc[c] = "flock"
  /\ ~FlockFree(c)
  /\ UNCHANGED <<fsVars, pc, fd, tries>>

HandleRetries(c) ==
  /\ pc[c] = "flock"
  /\ ~FlockFree(c)
  /\ tries[c] + 1 < FlockAttempts
  /\ tries' = [tries EXCEPT ![c] = @ + 1]
  /\ UNCHANGED <<fsVars, pc, fd>>

FlockExhausted(c) ==
  /\ pc[c] = "flock"
  /\ ~FlockFree(c)
  /\ tries[c] + 1 = FlockAttempts

(* Drop the handle, and its flock with it. *)
CloseHandle(c) == DropLocks(c) /\ fd' = [fd EXCEPT ![c] = NoInode]

(* Return (or die) from wherever the call is. *)
Leave(c, outcome) ==
  /\ Goto(c, outcome)
  /\ CloseHandle(c)
  /\ UNCHANGED <<dirent, len, chunk, disk, lost, tries>>

(* Every running call dies and the page cache is gone. *)
LosePower ==
  /\ \E c \in Calls : Running(c)
  /\ pc' = [c \in Calls |-> IF Running(c) THEN "dead" ELSE pc[c]]
  /\ fd' = [c \in Calls |-> NoInode]
  /\ lock' = [i \in Inodes |-> NoOne]
  /\ chunk' = disk
  /\ UNCHANGED <<dirent, len, disk, lost, tries>>
=============================================================================
