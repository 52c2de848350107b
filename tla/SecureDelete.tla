---------------------------- MODULE SecureDelete ----------------------------
(***************************************************************************)
(* destroyer::secure_delete on a regular file (src/destroyer.rs 42-116).   *)
(*                                                                         *)
(* Several calls run at once, each against the name it was given.  A call  *)
(* looks its name up again for every overwrite pass, every verification,   *)
(* the truncation and the rename; it holds the flock only while one of     *)
(* these handles is open.  Between two of its steps any other call, any    *)
(* other program, an I/O error, a kill or a power loss may come.           *)
(***************************************************************************)
EXTENDS SafeOpen

CONSTANTS
  Request,        (* call -> the path it was asked to destroy              *)
  Passes,         (* call -> number of overwrite passes                    *)
  Verify,         (* call -> read every pass back?                         *)
  Spare           (* inodes a rotator may bind a name to                   *)

(* No pass at all would free the data as it is: the properties below are   *)
(* about calls that overwrite at least once.                               *)
ASSUME CallAssumption ==
  /\ Request \in [Calls -> Paths]
  /\ Passes \in [Calls -> Nat \ {0}]
  /\ Verify \in [Calls -> BOOLEAN]
  /\ Spare \subseteq Inodes

VARIABLES
  use,     (* what the handle being opened is for                          *)
  size,    (* file_size, taken from the first stat and never again         *)
  pass,    (* the loop counter of the passes                               *)
  off      (* chunks written or read back through the open handle          *)

callVars == <<pc, use, size, pass, off, fd, tries>>
vars == <<fsVars, callVars>>

Touching == {"write", "read", "truncate"}
Stages == {"idle", "open", "flock", "measure", "rename", "unlink"}
            \cup Touching \cup Done
Uses == {"overwrite", "verify", "truncate"}

TypeOK ==
  /\ FSTypeOK
  /\ pc \in [Calls -> Stages]
  /\ use \in [Calls -> Uses]
  /\ size \in [Calls -> 0..MaxLen]
  /\ pass \in [Calls -> Nat]
  /\ off \in [Calls -> 0..MaxLen]
  /\ fd \in [Calls -> Inodes \cup {NoInode}]
  /\ tries \in [Calls -> 0..FlockAttempts]

Init ==
  /\ FSInit(Inodes \ Spare)
  /\ HandleInit
  /\ use = [c \in Calls |-> "overwrite"]
  /\ size = [c \in Calls |-> 0]
  /\ pass = [c \in Calls |-> 0]
  /\ off = [c \in Calls |-> 0]

(* Passes cycle through zeros, ones and random bytes. *)
Pattern(k) == CASE k % 3 = 0 -> "zeros" [] k % 3 = 1 -> "ones" [] OTHER -> "random"

(* Open the name again for the given use. *)
Reopen(c, u) == Goto(c, "open") /\ use' = [use EXCEPT ![c] = u]

(* Slip: the loop ends one pass early. *)
NextPassShort(c, k) ==
  /\ pass' = [pass EXCEPT ![c] = k]
  /\ Reopen(c, IF k + 1 < Passes[c] THEN "overwrite" ELSE "truncate")

(* Slip: the name is hidden first and the data is dealt with after. *)
NextPassRenameFirst(c, k) ==
  /\ pass' = [pass EXCEPT ![c] = k]
  /\ Goto(c, "rename")
  /\ UNCHANGED use

(* Pass k comes next, or the truncation when all passes are done. *)
NextPass(c, k) ==
  /\ pass' = [pass EXCEPT ![c] = k]
  /\ Reopen(c, IF k < Passes[c] THEN "overwrite" ELSE "truncate")

Return(c, outcome) == Leave(c, outcome) /\ UNCHANGED <<use, size, pass, off>>

(***************************************************************************)
(* Entry checks.                                                           *)
(***************************************************************************)

(* exists() follows a symlink; the type tests are on the name itself. *)
Destroyable(n) == Resolve(n) # NoInode /\ Kind[dirent[n]] = "file"

Admit(c) ==
  /\ pc[c] = "idle"
  /\ Destroyable(Request[c])
  /\ size' = [size EXCEPT ![c] = len[dirent[Request[c]]]]
  /\ NextPass(c, 0)
  /\ UNCHANGED <<fsVars, off, fd, tries>>

Refuse(c) ==
  /\ pc[c] = "idle"
  /\ ~Destroyable(Request[c])
  /\ Return(c, "error")

(***************************************************************************)
(* safe_open_rw: open with O_NOFOLLOW, fstat, flock with retries.          *)
(***************************************************************************)

(* Slip: open(2) without O_NOFOLLOW. *)
OpenFollowing(c) ==
  /\ pc[c] = "open"
  /\ Resolve(Request[c]) # NoInode
  /\ HandleOpened(c, Resolve(Request[c]))
  /\ UNCHANGED <<use, size, pass, off>>

OpenFile(c) ==
  /\ pc[c] = "open"
  /\ Openable(Request[c])
  /\ HandleOpened(c, dirent[Request[c]])
  /\ UNCHANGED <<use, size, pass, off>>

OpenRefused(c) ==
  /\ pc[c] = "open"
  /\ ~Openable(Request[c])
  /\ Return(c, "error")

StageOf(u) == CASE u = "overwrite" -> "write" [] u = "verify" -> "read" [] OTHER -> "truncate"

FlockTaken(c) ==
  /\ HandleLocked(c, StageOf(use[c]))
  /\ off' = [off EXCEPT ![c] = 0]
  /\ UNCHANGED <<use, size, pass>>

FlockRetry(c) == HandleRetries(c) /\ UNCHANGED <<use, size, pass, off>>

FlockGiveUp(c) == FlockExhausted(c) /\ Return(c, "error")

(***************************************************************************)
(* overwrite_file: one write per chunk, fsync, drop the handle.            *)
(***************************************************************************)

(* Slip: <= for < in the write loop. *)
WriteChunkPastEnd(c) ==
  /\ pc[c] = "write"
  /\ off[c] <= size[c]
  /\ WriteAt(fd[c], off[c] + 1, Pattern(pass[c]))
  /\ off' = [off EXCEPT ![c] = @ + 1]
  /\ UNCHANGED <<dirent, disk, lock, lost, pc, use, size, pass, fd, tries>>

WriteChunk(c) ==
  /\ pc[c] = "write"
  /\ off[c] < size[c]
  /\ WriteAt(fd[c], off[c] + 1, Pattern(pass[c]))
  /\ off' = [off EXCEPT ![c] = @ + 1]
  /\ UNCHANGED <<dirent, disk, lock, lost, pc, use, size, pass, fd, tries>>

(* What follows a pass: random bytes cannot be compared, only measured. *)
AfterOverwrite(c) ==
  IF Verify[c]
    THEN /\ IF Pattern(pass[c]) = "random"
              THEN Goto(c, "measure") /\ UNCHANGED use
              ELSE Reopen(c, "verify")
         /\ UNCHANGED pass
    ELSE NextPass(c, pass[c] + 1)

(* Slip: sync_all left out. *)
EndOverwriteUnsynced(c) ==
  /\ pc[c] = "write"
  /\ off[c] = size[c]
  /\ CloseHandle(c)
  /\ AfterOverwrite(c)
  /\ UNCHANGED <<dirent, len, chunk, disk, lost, size, off, tries>>

EndOverwrite(c) ==
  /\ pc[c] = "write"
  /\ off[c] = size[c]
  /\ SyncFile(fd[c])
  /\ CloseHandle(c)
  /\ AfterOverwrite(c)
  /\ UNCHANGED <<dirent, len, chunk, lost, size, off, tries>>

(***************************************************************************)
(* verify_overwrite: length only after a random pass (through a path       *)
(* lookup that takes no lock), byte by byte after a fixed one.             *)
(***************************************************************************)

LengthAsExpected(c) ==
  LET i == Resolve(Request[c]) IN i # NoInode /\ len[i] = size[c]

Measure(c) ==
  /\ pc[c] = "measure"
  /\ LengthAsExpected(c)
  /\ NextPass(c, pass[c] + 1)
  /\ UNCHANGED <<fsVars, size, off, fd, tries>>

MeasureMismatch(c) ==
  /\ pc[c] = "measure"
  /\ ~LengthAsExpected(c)
  /\ Return(c, IF Resolve(Request[c]) = NoInode THEN "error" ELSE "mismatch")

NextChunkMatches(c) ==
  /\ off[c] < len[fd[c]]
  /\ chunk[fd[c]][off[c] + 1] = Pattern(pass[c])

ReadChunk(c) ==
  /\ pc[c] = "read"
  /\ off[c] < size[c]
  /\ NextChunkMatches(c)
  /\ off' = [off EXCEPT ![c] = @ + 1]
  /\ UNCHANGED <<fsVars, pc, use, size, pass, fd, tries>>

ReadMismatch(c) ==
  /\ pc[c] = "read"
  /\ off[c] < size[c]
  /\ ~NextChunkMatches(c)
  /\ Return(c, "mismatch")

EndVerify(c) ==
  /\ pc[c] = "read"
  /\ off[c] = size[c]
  /\ CloseHandle(c)
  /\ NextPass(c, pass[c] + 1)
  /\ UNCHANGED <<dirent, len, chunk, disk, lost, size, off, tries>>

(***************************************************************************)
(* Truncation under a fresh handle, then rename and unlink by name.        *)
(***************************************************************************)

Truncate(c) ==
  /\ pc[c] = "truncate"
  /\ TruncateFile(fd[c])
  /\ CloseHandle(c)
  /\ Goto(c, "rename")
  /\ UNCHANGED <<dirent, use, size, pass, off, tries>>

Rename(c) ==
  /\ pc[c] = "rename"
  /\ dirent[Request[c]] # NoInode
  /\ RenameEntry(Request[c], c)
  /\ Goto(c, "unlink")
  /\ UNCHANGED <<len, chunk, disk, lock, lost, use, size, pass, off, fd, tries>>

RenameFails(c) ==
  /\ pc[c] = "rename"
  /\ dirent[Request[c]] = NoInode
  /\ Return(c, "error")

(* Slip: remove_file gets the old name, and its error is ignored. *)
UnlinkOldName(c) ==
  /\ pc[c] = "unlink"
  /\ Goto(c, "ok")
  /\ UNCHANGED <<fsVars, fd, tries, use, size, pass, off>>

Unlink(c) ==
  /\ pc[c] = "unlink"
  /\ UnlinkEntry(c)
  /\ Goto(c, "ok")
  /\ UNCHANGED <<len, chunk, disk, lock, use, size, pass, off, fd, tries>>

(***************************************************************************)
(* What can befall a call.                                                 *)
(***************************************************************************)

(* Any system call of a running call may fail: `?` returns at once. *)
Fault(c) == Running(c) /\ Return(c, "error")

(* The process is killed; the kernel closes its handle. *)
Kill(c) == Running(c) /\ Return(c, "dead")

PowerLoss == LosePower /\ UNCHANGED <<use, size, pass, off>>

(***************************************************************************)
(* The specifications.                                                     *)
(***************************************************************************)

(* The statements of a call in execution. *)
Step(c) ==
  \/ OpenFile(c) \/ OpenRefused(c)
  \/ FlockTaken(c) \/ FlockRetry(c) \/ FlockGiveUp(c)
  \/ WriteChunk(c) \/ EndOverwrite(c)
  \/ Measure(c) \/ MeasureMismatch(c)
  \/ ReadChunk(c) \/ ReadMismatch(c) \/ EndVerify(c)
  \/ Truncate(c) \/ Rename(c) \/ RenameFails(c) \/ Unlink(c)

Next ==
  \/ \E c \in Calls : Admit(c) \/ Refuse(c) \/ Step(c) \/ Fault(c) \/ Kill(c)
  \/ PowerLoss

(* Any number of calls, and nothing else writes to these files. *)
Spec == Init /\ [][Next]_vars

(* Other programs lock, append and rotate under the same names. *)
Environment ==
  /\ \/ \E w \in Writers, n \in Paths : WriterLock(w, n)
     \/ \E w \in Writers, i \in Inodes : WriterAppend(w, i)
     \/ \E w \in Writers : WriterUnlock(w)
     \/ \E n \in Paths, j \in Spare : Rotate(n, j)
  /\ UNCHANGED callVars

OpenNext == Next \/ Environment

(* A call that runs is scheduled until it returns.  Nothing is assumed of  *)
(* the other programs: a writer may keep its lock forever.                 *)
OpenSpec == Init /\ [][OpenNext]_vars /\ \A c \in Calls : WF_vars(Step(c))

-----------------------------------------------------------------------------
(* No truncation and no unlink gives blocks back to the free pool while    *)
(* the device still holds user data in them: a pass has been written to    *)
(* the end and synced first (overwrite_file, sync_all, set_len).           *)
NoDataReleased == lost = {}

Named(i) == \E n \in Paths : dirent[n] = i

(* A file that still holds user data on the device keeps a name its user   *)
(* knows, whatever fails or dies and whenever: an interrupted call can     *)
(* always be repeated on the same path.                                    *)
NeverOrphansData ==
  [][\A i \in Inodes : Named(i) /\ (Held(i) # {})' => Named(i)']_vars

(* Ok(()) means the path and the random name are both unbound, also when   *)
(* several calls destroy the same path at once.                            *)
OkMeansGone ==
  \A c \in Calls : pc[c] = "ok" => dirent[Request[c]] = NoInode /\ dirent[c] = NoInode

(* A handle is written, read back or truncated only under its exclusive    *)
(* flock, so two calls never overwrite the same file at the same time.     *)
LockedWhileTouching ==
  \A c \in Calls : pc[c] \in Touching => fd[c] \in Inodes /\ lock[fd[c]] = c

Requested == {Request[c] : c \in Calls}

(* A path no call was given stays bound to its inode, and no call writes,   *)
(* truncates or unlinks that inode: not even when the requested name is    *)
(* turned into a symlink to it between two steps of a call.                *)
BystanderUntouched ==
  [][Next => \A n \in Paths \ Requested :
       /\ dirent'[n] = dirent[n]
       /\ dirent[n] \in Inodes =>
            chunk'[dirent[n]] = chunk[dirent[n]] /\ len'[dirent[n]] = len[dirent[n]]]_vars

(* Every call that was admitted returns, even when another program never   *)
(* lets go of its lock: the flock retries are bounded.                     *)
EveryCallReturns == \A c \in Calls : Running(c) ~> ~Running(c)

-----------------------------------------------------------------------------
(* The calls together implement the abstract promise of erasure.           *)
Promise == INSTANCE Erasure WITH
  held <- [i \in Inodes |-> Held(i)],
  named <- {i \in Inodes : Named(i)},
  leaked <- lost

(* Seen from the user's side, every step of every call either removes user *)
(* data from the device by overwriting it or takes the name of a file      *)
(* whose data is already gone.                                             *)
ImplementsErasure == Promise!Spec
=============================================================================
