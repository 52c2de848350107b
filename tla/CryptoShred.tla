----------------------------- MODULE CryptoShred -----------------------------
(***************************************************************************)
(* crypto_shred_with_progress (src/crypto_shred.rs 109-287): every chunk   *)
(* of a file is replaced by ciphertext under a key made for this call, the *)
(* file is synced, truncated and unlinked as the options say, and the key  *)
(* is zeroized.  One handle, no flock; the open follows symlinks.  A UI    *)
(* thread watches the call's progress handle and may cancel it.            *)
(***************************************************************************)
EXTENDS PurgeFS, PurgeProgress

CONSTANTS
  Request,       (* call -> the path                                       *)
  Truncates,     (* call -> options.truncate_after                         *)
  Unlinks,       (* call -> options.unlink_after                           *)
  FsyncEach,     (* call -> options.fsync_each_chunk                       *)
  PrePass,       (* call -> options.pre_random_pass                        *)
  Handle         (* call -> its progress handle                            *)

ASSUME OptionsAssumption ==
  /\ Request \in [Calls -> Paths]
  /\ Truncates \in [Calls -> BOOLEAN]
  /\ Unlinks \in [Calls -> BOOLEAN]
  /\ FsyncEach \in [Calls -> BOOLEAN]
  /\ PrePass \in [Calls -> BOOLEAN]
  /\ Handle \in [Calls -> Handles]

VARIABLES
  pc,     (* where the call is                                             *)
  fd,     (* the inode its handle is on                                    *)
  size,   (* original_size                                                 *)
  off,    (* chunks of the current pass done                               *)
  key,    (* the ephemeral key: not made, in memory, or zeroized           *)
  late    (* history: chunks written since the cancel flag was set         *)

callVars == <<pc, fd, size, off, key, late>>
vars == <<fsVars, progressVars, callVars>>

Done == {"ok", "error", "cancelled", "dead"}
Stages == {"idle", "open", "total", "plan", "prepoll", "prewrite", "presync", "key", "poll",
           "read", "write", "sync", "truncate", "scrub", "unlink"} \cup Done
Running(c) == pc[c] \notin Done \cup {"idle"}

(* Counting late chunks stops here: two is one too many already. *)
MaxLate == 2

TypeOK ==
  /\ FSTypeOK
  /\ ProgressTypeOK
  /\ pc \in [Calls -> Stages]
  /\ fd \in [Calls -> Inodes \cup {NoInode}]
  /\ size \in [Calls -> 0..MaxLen]
  /\ off \in [Calls -> 0..MaxLen]
  /\ key \in [Calls -> {"none", "live", "zeroized"}]
  /\ late \in [Calls -> 0..MaxLate]

Init ==
  /\ FSInit(Inodes)
  /\ ProgressInit
  /\ pc = [c \in Calls |-> "idle"]
  /\ fd = [c \in Calls |-> NoInode]
  /\ size = [c \in Calls |-> 0]
  /\ off = [c \in Calls |-> 0]
  /\ key = [c \in Calls |-> "none"]
  /\ late = [c \in Calls |-> 0]

Goto(c, stage) == pc' = [pc EXCEPT ![c] = stage]
CloseHandle(c) == fd' = [fd EXCEPT ![c] = NoInode]
Zeroize(c) == key' = [key EXCEPT ![c] = "zeroized"]
Polled(c) == cancel[Handle[c]]

Return(c, outcome) ==
  /\ Goto(c, outcome)
  /\ CloseHandle(c)
  /\ UNCHANGED <<fsVars, progressVars, size, off, late>>

(***************************************************************************)
(* Entry: exists, is_file and open all follow a symlink.                   *)
(***************************************************************************)
Shreddable(n) == Resolve(n) # NoInode /\ Kind[Resolve(n)] = "file"

Admit(c) ==
  /\ pc[c] = "idle"
  /\ Shreddable(Request[c])
  /\ Goto(c, "open")
  /\ UNCHANGED <<fsVars, progressVars, fd, size, off, key, late>>

Refuse(c) ==
  /\ pc[c] = "idle"
  /\ ~Shreddable(Request[c])
  /\ Return(c, "error")
  /\ UNCHANGED key

OpenFile(c) ==
  /\ pc[c] = "open"
  /\ Resolve(Request[c]) # NoInode
  /\ fd' = [fd EXCEPT ![c] = Resolve(Request[c])]
  /\ size' = [size EXCEPT ![c] = len[Resolve(Request[c])]]
  /\ Goto(c, "total")
  /\ UNCHANGED <<fsVars, progressVars, off, key, late>>

OpenFails(c) ==
  /\ pc[c] = "open"
  /\ Resolve(Request[c]) = NoInode
  /\ Return(c, "error")
  /\ UNCHANGED key

PassCount(c) == IF PrePass[c] THEN 2 ELSE 1

(* Slip: the random pass is not counted in the bytes to come. *)
StoreTotalOfOnePass(c) ==
  /\ pc[c] = "total"
  /\ SeedTotal(Handle[c], size[c])
  /\ Goto(c, "plan")
  /\ UNCHANGED <<fsVars, written, completed, planned, cancel, snapVars, fd, size, off, key, late>>

StoreTotal(c) ==
  /\ pc[c] = "total"
  /\ SeedTotal(Handle[c], size[c] * PassCount(c))
  /\ Goto(c, "plan")
  /\ UNCHANGED <<fsVars, written, completed, planned, cancel, snapVars, fd, size, off, key, late>>

StorePlan(c) ==
  /\ pc[c] = "plan"
  /\ SeedPlanned(Handle[c], PassCount(c))
  /\ Goto(c, IF PrePass[c] /\ size[c] > 0 THEN "prepoll" ELSE "key")
  /\ UNCHANGED <<fsVars, total, written, completed, cancel, snapVars, fd, size, off, key, late>>

(***************************************************************************)
(* The random pre-pass.                                                    *)
(***************************************************************************)
(* Write the next chunk and count it, for the UI and for the history. *)
PutChunk(c, content) ==
  /\ WriteAt(fd[c], off[c] + 1, content)
  /\ off' = [off EXCEPT ![c] = @ + 1]
  /\ CountChunk(Handle[c])
  /\ late' = [late EXCEPT ![c] = IF Polled(c) /\ @ < MaxLate THEN @ + 1 ELSE @]
  /\ UNCHANGED <<dirent, lock, lost, total, completed, planned, cancel, snapVars, fd, size, key>>

PrePoll(c) ==
  /\ pc[c] = "prepoll"
  /\ off[c] < size[c] => ~Polled(c)
  /\ Goto(c, IF off[c] < size[c] THEN "prewrite" ELSE "presync")
  /\ UNCHANGED <<fsVars, progressVars, fd, size, off, key, late>>

PreCancel(c) ==
  /\ pc[c] = "prepoll"
  /\ off[c] < size[c] /\ Polled(c)
  /\ Return(c, "cancelled")
  /\ UNCHANGED key

PreWrite(c) ==
  /\ pc[c] = "prewrite"
  /\ PutChunk(c, "random")
  /\ Goto(c, "prepoll")
  /\ UNCHANGED disk

PreSync(c) ==
  /\ pc[c] = "presync"
  /\ SyncFile(fd[c])
  /\ CountPass(Handle[c])
  /\ off' = [off EXCEPT ![c] = 0]
  /\ Goto(c, "key")
  /\ UNCHANGED <<dirent, len, chunk, lock, lost, total, written, planned, cancel, snapVars,
                 fd, size, key, late>>

(***************************************************************************)
(* The cipher pass.                                                        *)
(***************************************************************************)
MakeKey(c) ==
  /\ pc[c] = "key"
  /\ key' = [key EXCEPT ![c] = "live"]
  /\ Goto(c, "poll")
  /\ UNCHANGED <<fsVars, progressVars, fd, size, off, late>>

(* Slip: the flag is looked at before the pass only. *)
PollOnce(c) ==
  /\ pc[c] = "poll" /\ off[c] < size[c]
  /\ off[c] = 0 => ~Polled(c)
  /\ Goto(c, "read")
  /\ UNCHANGED <<fsVars, progressVars, fd, size, off, key, late>>

Poll(c) ==
  /\ pc[c] = "poll" /\ off[c] < size[c]
  /\ ~Polled(c)
  /\ Goto(c, "read")
  /\ UNCHANGED <<fsVars, progressVars, fd, size, off, key, late>>

Cancel(c) ==
  /\ pc[c] = "poll" /\ off[c] < size[c]
  /\ Polled(c)
  /\ Zeroize(c)
  /\ Return(c, "cancelled")

ReadChunk(c) ==
  /\ pc[c] = "read"
  /\ off[c] < len[fd[c]]
  /\ Goto(c, "write")
  /\ UNCHANGED <<fsVars, progressVars, fd, size, off, key, late>>

WriteChunk(c) ==
  /\ pc[c] = "write"
  /\ PutChunk(c, "cipher")
  /\ disk' = IF FsyncEach[c]
               THEN [disk EXCEPT ![fd[c]] = [chunk[fd[c]] EXCEPT ![off[c] + 1] = "cipher"]]
               ELSE disk
  /\ Goto(c, "poll")

(* The loop ends with the last chunk, or at an end of file that somebody   *)
(* has moved forward; either way the pass counts as completed.             *)
EndPass(c) ==
  /\ \/ pc[c] = "poll" /\ off[c] = size[c]
     \/ pc[c] = "read" /\ off[c] >= len[fd[c]]
  /\ CountPass(Handle[c])
  /\ Goto(c, "sync")
  /\ UNCHANGED <<fsVars, total, written, planned, cancel, snapVars, fd, size, off, key, late>>

AfterSync(c) == Goto(c, IF Truncates[c] THEN "truncate" ELSE "scrub")

(* Slip: sync_all left out. *)
SyncSkipped(c) ==
  /\ pc[c] = "sync"
  /\ AfterSync(c)
  /\ UNCHANGED <<fsVars, progressVars, fd, size, off, key, late>>

Sync(c) ==
  /\ pc[c] = "sync"
  /\ SyncFile(fd[c])
  /\ AfterSync(c)
  /\ UNCHANGED <<dirent, len, chunk, lock, lost, progressVars, fd, size, off, key, late>>

Truncate(c) ==
  /\ pc[c] = "truncate"
  /\ TruncateFile(fd[c])
  /\ Goto(c, "scrub")
  /\ UNCHANGED <<dirent, lock, progressVars, fd, size, off, key, late>>

(* Drop the file, then zeroize. *)
Scrub(c) ==
  /\ pc[c] = "scrub"
  /\ CloseHandle(c)
  /\ Zeroize(c)
  /\ Goto(c, IF Unlinks[c] THEN "unlink" ELSE "ok")
  /\ UNCHANGED <<fsVars, progressVars, size, off, late>>

Unlink(c) ==
  /\ pc[c] = "unlink"
  /\ dirent[Request[c]] # NoInode
  /\ UnlinkEntry(Request[c])
  /\ Goto(c, "ok")
  /\ UNCHANGED <<len, chunk, disk, lock, progressVars, fd, size, off, key, late>>

UnlinkFails(c) ==
  /\ pc[c] = "unlink"
  /\ dirent[Request[c]] = NoInode
  /\ Return(c, "error")
  /\ UNCHANGED key

(***************************************************************************)
(* What can befall a call.                                                 *)
(***************************************************************************)
(* `?` on any system call: nothing on this path touches the key. *)
Fault(c) == Running(c) /\ Return(c, "error") /\ UNCHANGED key

(* The key goes with the process's memory. *)
Kill(c) == Running(c) /\ Return(c, "dead") /\ key' = [key EXCEPT ![c] = "none"]

PowerLoss ==
  /\ \E c \in Calls : Running(c)
  /\ pc' = [c \in Calls |-> IF Running(c) THEN "dead" ELSE pc[c]]
  /\ fd' = [c \in Calls |-> NoInode]
  /\ key' = [c \in Calls |-> "none"]
  /\ chunk' = disk
  /\ UNCHANGED <<dirent, len, disk, lock, lost, progressVars, size, off, late>>

Step(c) ==
  \/ OpenFile(c) \/ OpenFails(c) \/ StoreTotal(c) \/ StorePlan(c)
  \/ PrePoll(c) \/ PreCancel(c) \/ PreWrite(c) \/ PreSync(c)
  \/ MakeKey(c) \/ Poll(c) \/ Cancel(c) \/ ReadChunk(c) \/ WriteChunk(c) \/ EndPass(c)
  \/ Sync(c) \/ Truncate(c) \/ Scrub(c) \/ Unlink(c) \/ UnlinkFails(c)

Next ==
  \/ \E c \in Calls : Admit(c) \/ Refuse(c) \/ Step(c) \/ Fault(c) \/ Kill(c)
  \/ PowerLoss
  \/ \E h \in Watched : UI(h) /\ UNCHANGED <<fsVars, callVars>>

Spec == Init /\ [][Next]_vars

-----------------------------------------------------------------------------
(* Neither set_len(0) nor remove_file gives blocks back while the device   *)
(* holds plaintext in them, though other calls may be cancelled, fail or   *)
(* truncate the same file at any point.                                    *)
NoDataReleased == lost = {}

(* The key is zeroized only after the ciphertext has replaced all of the   *)
(* plaintext on the device, unless the call was cancelled.                 *)
KeyOutlivesPlaintext ==
  [][\A c \in Calls :
       key[c] = "live" /\ key'[c] = "zeroized" /\ pc'[c] # "cancelled" => Held(fd[c]) = {}]_vars

(* After the flag is set a call writes at most the chunk it had already    *)
(* polled for, in either pass.                                             *)
CancelStopsWriting == \A c \in Calls : late[c] <= 1

(* Every exit, as the module's documentation has it.                       *)
KeyGoneOnEveryExit == \A c \in Calls : pc[c] \in Done => key[c] # "live"

(* A finished snapshot never shows more than its operation has announced,  *)
(* however old the values are that its four relaxed loads return.          *)
SnapshotCoherent ==
  \A h \in Handles : loads[h] = Fields =>
    /\ snap[h]["planned"] > 0 => snap[h]["completed"] <= snap[h]["planned"]
    /\ snap[h]["total"] > 0 => snap[h]["written"] <= snap[h]["total"]

Named(i) == \E n \in Paths : dirent[n] = i

(* The calls together implement the abstract promise of erasure, though a  *)
(* symlink given to a call is followed by the open and unlinked itself.    *)
Promise == INSTANCE Erasure WITH
  held <- [i \in Inodes |-> Held(i)],
  named <- {i \in Inodes : Named(i)},
  leaked <- lost

(* Seen from the user's side, every step removes user data from the device *)
(* by overwriting it, or takes a name of a file or link that holds none.   *)
ImplementsErasure == Promise!Spec
=============================================================================
