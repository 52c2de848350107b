-------------------------- MODULE CryptoShredProofs --------------------------
(***************************************************************************)
(* Proofs about CryptoShred!Spec for any number of calls, paths, inodes    *)
(* (symlinks and hard links included), chunks, handles and options.        *)
(***************************************************************************)
EXTENDS CryptoShred, TLAPS

(* The ways a step of Next can end a call early all have the effect of     *)
(* Return; they differ in what becomes of the key.                         *)
Failures == {"error", "cancelled", "dead"}

End(c) ==
  /\ \E o \in Failures : Return(c, o)
  /\ \E k \in {key[c], "zeroized", "none"} : key' = [key EXCEPT ![c] = k]

Act(c) ==
  \/ End(c) \/ Admit(c) \/ OpenFile(c) \/ StoreTotal(c) \/ StorePlan(c)
  \/ PrePoll(c) \/ PreWrite(c) \/ PreSync(c)
  \/ MakeKey(c) \/ Poll(c) \/ ReadChunk(c) \/ WriteChunk(c) \/ EndPass(c)
  \/ Sync(c) \/ Truncate(c) \/ Scrub(c) \/ Unlink(c)

Watch == \E h \in Watched : UI(h) /\ UNCHANGED <<fsVars, callVars>>

LEMMA NextCases ==
  ASSUME TypeOK, Next
  PROVE  PowerLoss \/ Watch \/ \E c \in Calls : Act(c)
  <1> USE DEF Failures
  <1>1. ASSUME NEW c \in Calls,
               Refuse(c) \/ OpenFails(c) \/ PreCancel(c) \/ UnlinkFails(c) \/ Fault(c)
        PROVE  End(c)
    <2>1. key' = [key EXCEPT ![c] = key[c]]
      BY <1>1 DEF Refuse, OpenFails, PreCancel, UnlinkFails, Fault, TypeOK
    <2> QED
      BY <1>1, <2>1, Zenon DEF End, Refuse, OpenFails, PreCancel, UnlinkFails, Fault
  <1>2. ASSUME NEW c \in Calls, Cancel(c) \/ Kill(c) PROVE End(c)
    BY <1>2, Zenon DEF End, Cancel, Zeroize, Kill
  <1> QED
    BY <1>1, <1>2, Zenon DEF Next, Step, Act, Watch

-----------------------------------------------------------------------------
(***************************************************************************)
(* Type correctness.                                                       *)
(***************************************************************************)
LEMMA InitTypeOK == Init => TypeOK
  <1> SUFFICES ASSUME Init PROVE TypeOK
    OBVIOUS
  <1> USE FSAssumption, OptionsAssumption
  <1>1. FSTypeOK
    <2>1. PICK d \in [Paths -> Inodes \cup {NoInode}] :
            dirent = [n \in Names |-> IF n \in Paths THEN d[n] ELSE NoInode]
      BY DEF Init, FSInit
    <2>2. dirent \in [Names -> Inodes \cup {NoInode}]
      BY <2>1
    <2>3. chunk \in [Inodes -> [Chunks -> Content]]
      BY DEF Init, FSInit, Content
    <2> QED
      BY <2>2, <2>3 DEF Init, FSInit, FSTypeOK
  <1>2. ProgressTypeOK
    BY DEF Init, ProgressInit, ProgressTypeOK
  <1> QED
    BY <1>1, <1>2 DEF Init, TypeOK, Stages, MaxLate

(* The stages with an open handle.                                         *)
Opened == {"total", "plan", "prepoll", "prewrite", "presync", "key", "poll", "read",
           "write", "sync", "truncate", "scrub"}

(* From the open to the close the handle is on an inode; no pass goes past *)
(* the size taken at the open, and each starts at the front.               *)
HandleOK ==
  \A c \in Calls :
    /\ pc[c] \in Opened => fd[c] \in Inodes
    /\ off[c] <= size[c]
    /\ pc[c] \in {"prewrite", "read", "write"} => off[c] < size[c]
    /\ pc[c] \in {"idle", "open", "total", "plan", "key"} => off[c] = 0

LEMMA ResolveType ==
  ASSUME TypeOK, NEW n \in Names
  PROVE  Resolve(n) \in Inodes \cup {NoInode}
  BY FSAssumption DEF TypeOK, FSTypeOK, Resolve, Names

LEMMA PutChunkType ==
  ASSUME TypeOK, NEW c \in Calls, NEW p \in Patterns, PutChunk(c, p),
         fd[c] \in Inodes, off[c] < size[c]
  PROVE  /\ off[c] + 1 \in Chunks
         /\ len' \in [Inodes -> 0..MaxLen]
         /\ chunk' \in [Inodes -> [Chunks -> Content]]
         /\ off' \in [Calls -> 0..MaxLen]
         /\ written' \in [Handles -> Nat]
         /\ late' \in [Calls -> 0..MaxLate]
  <1> USE FSAssumption, OptionsAssumption DEF TypeOK, FSTypeOK
  <1>1. off[c] + 1 \in Chunks /\ off[c] + 1 \in 0..MaxLen
    BY DEF Chunks
  <1>2. chunk' = [chunk EXCEPT ![fd[c]] = [chunk[fd[c]] EXCEPT ![off[c] + 1] = p]]
    BY DEF PutChunk, WriteAt
  <1>3. chunk' \in [Inodes -> [Chunks -> Content]]
    BY <1>1, <1>2 DEF Content
  <1>4. len' \in [Inodes -> 0..MaxLen]
    BY <1>1 DEF PutChunk, WriteAt
  <1>5. off' \in [Calls -> 0..MaxLen]
    BY <1>1 DEF PutChunk
  <1>6. written' \in [Handles -> Nat]
    <2>1. Handle[c] \in Handles /\ written \in [Handles -> Nat]
      BY DEF ProgressTypeOK
    <2>2. written' = [written EXCEPT ![Handle[c]] = @ + 1]
      BY DEF PutChunk, CountChunk
    <2> QED
      BY <2>1, <2>2
  <1>7. late' \in [Calls -> 0..MaxLate]
    BY DEF PutChunk, MaxLate
  <1> QED
    BY <1>1, <1>3, <1>4, <1>5, <1>6, <1>7

LEMMA StepTypeOK ==
  ASSUME TypeOK, HandleOK, [Next]_vars
  PROVE  TypeOK'
  <1> USE FSAssumption, OptionsAssumption DEF TypeOK, FSTypeOK
  <1>1. CASE UNCHANGED vars
    BY <1>1 DEF vars, fsVars, progressVars, counterVars, snapVars, callVars, ProgressTypeOK
  <1>2. CASE PowerLoss
    BY <1>2 DEF PowerLoss, Stages, Done, progressVars, counterVars, snapVars, ProgressTypeOK
  <1>3. CASE Watch
    <2>1. PICK h \in Handles : UI(h) /\ UNCHANGED <<fsVars, callVars>>
      BY <1>3, WatchedAssumption DEF Watch
    <2>2. CASE RequestCancel(h)
      BY <2>1, <2>2 DEF RequestCancel, fsVars, callVars, counterVars, snapVars, ProgressTypeOK
    <2>3. ASSUME NEW f \in Fields, SnapshotLoad(h, f) PROVE TypeOK'
      <3>1. Counter(h, f) \in Nat
        BY DEF Counter, Fields, ProgressTypeOK
      <3>2. ProgressTypeOK'
        BY <2>3, <3>1 DEF SnapshotLoad, counterVars, ProgressTypeOK
      <3> QED
        BY <2>1, <3>2 DEF fsVars, callVars
    <2> QED
      BY <2>1, <2>2, <2>3 DEF UI
  <1>4. ASSUME NEW c \in Calls, End(c) PROVE TypeOK'
    <2>1. PICK o \in Failures : Return(c, o)
      BY <1>4 DEF End
    <2>2. PICK k \in {key[c], "zeroized", "none"} : key' = [key EXCEPT ![c] = k]
      BY <1>4 DEF End
    <2>3. o \in Stages
      BY DEF Failures, Stages, Done
    <2> QED
      BY <2>1, <2>2, <2>3 DEF Return, Goto, CloseHandle, fsVars, progressVars,
         counterVars, snapVars, ProgressTypeOK
  <1>5. ASSUME NEW c \in Calls,
               Admit(c) \/ PrePoll(c) \/ MakeKey(c) \/ Poll(c) \/ ReadChunk(c) \/ Scrub(c)
        PROVE  TypeOK'
    <2>1. ProgressTypeOK' /\ UNCHANGED <<fsVars, size, off, late>>
      BY <1>5 DEF Admit, PrePoll, MakeKey, Poll, ReadChunk, Scrub, progressVars,
         counterVars, snapVars, ProgressTypeOK
    <2>2. pc' \in [Calls -> Stages]
      <3>1. PICK s \in Stages : pc' = [pc EXCEPT ![c] = s]
        BY <1>5, Zenon DEF Admit, PrePoll, MakeKey, Poll, ReadChunk, Scrub, Goto, Stages, Done
      <3> QED
        BY <3>1
    <2>3. fd' \in [Calls -> Inodes \cup {NoInode}]
      BY <1>5 DEF Admit, PrePoll, MakeKey, Poll, ReadChunk, Scrub, CloseHandle
    <2>4. key' \in [Calls -> {"none", "live", "zeroized"}]
      BY <1>5 DEF Admit, PrePoll, MakeKey, Poll, ReadChunk, Scrub, Zeroize
    <2> QED
      BY <2>1, <2>2, <2>3, <2>4 DEF fsVars
  <1>6. ASSUME NEW c \in Calls, OpenFile(c) PROVE TypeOK'
    <2>1. Resolve(Request[c]) \in Inodes
      BY <1>6, ResolveType DEF OpenFile, Names
    <2> QED
      BY <1>6, <2>1 DEF OpenFile, Goto, Stages, fsVars, progressVars, counterVars,
         snapVars, ProgressTypeOK
  <1>7. ASSUME NEW c \in Calls, StoreTotal(c) \/ StorePlan(c) \/ EndPass(c) PROVE TypeOK'
    <2>1. PassCount(c) \in Nat /\ size[c] * PassCount(c) \in Nat
      BY DEF PassCount
    <2>2. pc' \in [Calls -> Stages]
      <3>1. PICK s \in Stages : pc' = [pc EXCEPT ![c] = s]
        BY <1>7, Zenon DEF StoreTotal, StorePlan, EndPass, Goto, Stages
      <3> QED
        BY <3>1
    <2>3. ProgressTypeOK'
      BY <1>7, <2>1 DEF StoreTotal, StorePlan, EndPass, SeedTotal, SeedPlanned,
         CountPass, snapVars, ProgressTypeOK
    <2> QED
      BY <1>7, <2>2, <2>3 DEF StoreTotal, StorePlan, EndPass, fsVars
  <1>8. ASSUME NEW c \in Calls, PreWrite(c) PROVE TypeOK'
    <2>1. PutChunk(c, "random") /\ fd[c] \in Inodes /\ off[c] < size[c]
      BY <1>8 DEF PreWrite, HandleOK, Opened
    <2>2. "random" \in Patterns
      BY DEF Patterns
    <2>3. pc' \in [Calls -> Stages]
      BY <1>8 DEF PreWrite, Goto, Stages
    <2>4. ProgressTypeOK'
      BY <2>1, <2>2, PutChunkType DEF PutChunk, snapVars, ProgressTypeOK
    <2> QED
      BY <1>8, <2>1, <2>2, <2>3, <2>4, PutChunkType DEF PreWrite, PutChunk
  <1>9. ASSUME NEW c \in Calls, WriteChunk(c) PROVE TypeOK'
    <2>1. PutChunk(c, "cipher") /\ fd[c] \in Inodes /\ off[c] < size[c]
      BY <1>9 DEF WriteChunk, HandleOK, Opened
    <2>2. "cipher" \in Patterns
      BY DEF Patterns
    <2>3. pc' \in [Calls -> Stages]
      BY <1>9 DEF WriteChunk, Goto, Stages
    <2>4. ProgressTypeOK'
      BY <2>1, <2>2, PutChunkType DEF PutChunk, snapVars, ProgressTypeOK
    <2>5. disk' \in [Inodes -> [Chunks -> Content]]
      <3>1. [chunk[fd[c]] EXCEPT ![off[c] + 1] = "cipher"] \in [Chunks -> Content]
        BY <2>1, <2>2 DEF Content
      <3> QED
        BY <1>9, <2>1, <3>1 DEF WriteChunk
    <2> QED
      BY <1>9, <2>1, <2>2, <2>3, <2>4, <2>5, PutChunkType DEF PutChunk
  <1>10. ASSUME NEW c \in Calls, PreSync(c) \/ Sync(c) PROVE TypeOK'
    <2>1. disk' \in [Inodes -> [Chunks -> Content]]
      BY <1>10 DEF PreSync, Sync, SyncFile
    <2>2. pc' \in [Calls -> Stages]
      <3>1. PICK s \in Stages : pc' = [pc EXCEPT ![c] = s]
        BY <1>10, Zenon DEF PreSync, Sync, AfterSync, Goto, Stages
      <3> QED
        BY <3>1
    <2>3. off' \in [Calls -> 0..MaxLen]
      <3>1. 0 \in 0..MaxLen /\ (off' = off \/ off' = [off EXCEPT ![c] = 0])
        BY <1>10 DEF PreSync, Sync
      <3> QED
        BY <3>1
    <2>4. ProgressTypeOK'
      <3>1. CASE PreSync(c)
        BY <3>1 DEF PreSync, CountPass, snapVars, ProgressTypeOK
      <3>2. CASE Sync(c)
        BY <3>2 DEF Sync, progressVars, counterVars, snapVars, ProgressTypeOK
      <3> QED
        BY <1>10, <3>1, <3>2
    <2> QED
      BY <1>10, <2>1, <2>2, <2>3, <2>4 DEF PreSync, Sync
  <1>11. ASSUME NEW c \in Calls, Truncate(c) PROVE TypeOK'
    <2> DEFINE empty == [b \in Chunks |-> "none"]
    <2>1. empty \in [Chunks -> Content]
      BY DEF Content
    <2>2. /\ chunk' = [chunk EXCEPT ![fd[c]] = empty]
          /\ disk' = [disk EXCEPT ![fd[c]] = empty]
          /\ len' = [len EXCEPT ![fd[c]] = 0]
      BY <1>11 DEF Truncate, TruncateFile
    <2>3. /\ chunk' \in [Inodes -> [Chunks -> Content]]
          /\ disk' \in [Inodes -> [Chunks -> Content]]
      BY <2>1, <2>2
    <2>4. len' \in [Inodes -> 0..MaxLen]
      <3>1. 0 \in 0..MaxLen
        OBVIOUS
      <3> QED
        BY <2>2, <3>1
    <2>5. lost' \in SUBSET Inodes
      <3>1. fd[c] \in Inodes /\ (lost' = lost \/ lost' = lost \cup {fd[c]})
        BY <1>11 DEF Truncate, TruncateFile, HandleOK, Opened
      <3> QED
        BY <3>1
    <2>6. pc' \in [Calls -> Stages] /\ ProgressTypeOK'
      BY <1>11 DEF Truncate, Goto, Stages, progressVars, counterVars, snapVars, ProgressTypeOK
    <2> QED
      BY <1>11, <2>3, <2>4, <2>5, <2>6 DEF Truncate
  <1>12. ASSUME NEW c \in Calls, Unlink(c) PROVE TypeOK'
    <2>1. dirent[Request[c]] \in Inodes
      BY <1>12 DEF Unlink, Names
    <2>2. lost' = lost \/ lost' = lost \cup {dirent[Request[c]]}
      BY <1>12 DEF Unlink, UnlinkEntry
    <2>3. dirent' \in [Names -> Inodes \cup {NoInode}] /\ pc' \in [Calls -> Stages]
      BY <1>12 DEF Unlink, UnlinkEntry, Goto, Stages, Done
    <2>4. ProgressTypeOK'
      BY <1>12 DEF Unlink, progressVars, counterVars, snapVars, ProgressTypeOK
    <2> QED
      BY <1>12, <2>1, <2>2, <2>3, <2>4 DEF Unlink
  <1> QED
    BY <1>1, <1>2, <1>3, <1>4, <1>5, <1>6, <1>7, <1>8, <1>9, <1>10, <1>11, <1>12,
       NextCases DEF Act

LEMMA InitHandleOK == Init => HandleOK
  <1>1. ASSUME Init, NEW c \in Calls
        PROVE  pc[c] = "idle" /\ off[c] = 0 /\ size[c] = 0
    BY <1>1 DEF Init
  <1>2. 0 <= 0
    OBVIOUS
  <1> QED
    BY <1>1, <1>2, Zenon DEF HandleOK, Opened

LEMMA StepHandleOK ==
  ASSUME TypeOK, HandleOK, [Next]_vars
  PROVE  HandleOK'
  <1> USE FSAssumption, OptionsAssumption DEF TypeOK, FSTypeOK, HandleOK, Opened
  <1>1. CASE UNCHANGED vars
    BY <1>1 DEF vars, callVars
  <1>2. CASE PowerLoss
    BY <1>2 DEF PowerLoss, Running, Done
  <1>3. CASE Watch
    BY <1>3 DEF Watch, callVars
  <1>4. ASSUME NEW c \in Calls, End(c) PROVE HandleOK'
    BY <1>4 DEF End, Return, Goto, CloseHandle, Failures
  <1>5. ASSUME NEW c \in Calls, Admit(c) \/ OpenFile(c) PROVE HandleOK'
    <2>1. CASE Admit(c)
      BY <2>1 DEF Admit, Goto
    <2>2. CASE OpenFile(c)
      <3>1. Resolve(Request[c]) \in Inodes
        BY <2>2, ResolveType DEF OpenFile, Names
      <3> QED
        BY <2>2, <3>1 DEF OpenFile, Goto
    <2> QED
      BY <1>5, <2>1, <2>2
  <1>6. ASSUME NEW c \in Calls, StoreTotal(c) \/ StorePlan(c) \/ EndPass(c) PROVE HandleOK'
    BY <1>6 DEF StoreTotal, StorePlan, EndPass, Goto
  <1>7. ASSUME NEW c \in Calls, PrePoll(c) \/ PreSync(c) PROVE HandleOK'
    BY <1>7 DEF PrePoll, PreSync, Goto
  <1>8. ASSUME NEW c \in Calls, PreWrite(c) \/ WriteChunk(c) PROVE HandleOK'
    BY <1>8 DEF PreWrite, WriteChunk, PutChunk, Goto
  <1>9. ASSUME NEW c \in Calls, MakeKey(c) \/ Poll(c) \/ ReadChunk(c) PROVE HandleOK'
    BY <1>9 DEF MakeKey, Poll, ReadChunk, Goto
  <1>10. ASSUME NEW c \in Calls, Sync(c) \/ Truncate(c) \/ Scrub(c) \/ Unlink(c)
         PROVE  HandleOK'
    BY <1>10 DEF Sync, AfterSync, Truncate, Scrub, CloseHandle, Unlink, Goto
  <1> QED
    BY <1>1, <1>2, <1>3, <1>4, <1>5, <1>6, <1>7, <1>8, <1>9, <1>10, NextCases DEF Act

LEMMA TypeAndHandles == Spec => [](TypeOK /\ HandleOK)
  BY InitTypeOK, StepTypeOK, InitHandleOK, StepHandleOK, PTL DEF Spec

(* Every variable keeps its type in every behaviour of any set of calls.   *)
THEOREM TypeCorrect == Spec => []TypeOK
  BY TypeAndHandles, PTL

-----------------------------------------------------------------------------
(***************************************************************************)
(* The inductive invariant for the data.                                   *)
(*                                                                         *)
(* User data seen through the page cache is on the device too, lies within *)
(* the file, and only regular files hold any.                              *)
(***************************************************************************)
Clean(i) == \A b \in Chunks : disk[i][b] # "user"

CacheInv == \A i \in Inodes, b \in Chunks : chunk[i][b] = "user" => disk[i][b] = "user"
LengthInv == \A i \in Inodes, b \in Chunks : disk[i][b] = "user" => b <= len[i]
KindInv == \A i \in Inodes : Kind[i] # "file" => Clean(i)

(* The requested name, if still bound, leads to the handle's inode: it is  *)
(* bound to it or to a symlink.                                            *)
NameInv(c) ==
  pc[c] \in Opened => dirent[Request[c]] \in {NoInode, fd[c]}
                        \/ Kind[dirent[Request[c]]] = "symlink"

(* The size taken at the open still covers all user data. *)
SizeInv(c) ==
  pc[c] \in Opened => \A b \in Chunks : disk[fd[c]][b] = "user" => b <= size[c]

(* What the cipher pass has written is gone from the cache, after its end  *)
(* the whole file is.                                                      *)
WriteInv(c) ==
  \A b \in Chunks :
    \/ pc[c] \in {"poll", "read", "write"} /\ b <= off[c]
    \/ pc[c] = "sync"
    => chunk[fd[c]][b] # "user"

(* After the sync it is gone from the device, and whatever the name still  *)
(* leads to can be unlinked.                                               *)
WipedInv(c) ==
  /\ pc[c] \in {"truncate", "scrub"} => Clean(fd[c])
  /\ pc[c] = "unlink" /\ dirent[Request[c]] \in Inodes => Clean(dirent[Request[c]])

CallInv(c) == NameInv(c) /\ SizeInv(c) /\ WriteInv(c) /\ WipedInv(c)

IInv ==
  /\ TypeOK
  /\ HandleOK
  /\ CacheInv
  /\ LengthInv
  /\ KindInv
  /\ NoDataReleased
  /\ \A c \in Calls : CallInv(c)

(* What a step of call d leaves to the others: user data only ever shrinks,*)
(* a name only ever becomes unbound, and nothing else of theirs moves.     *)
Shrinks ==
  \A i \in Inodes, b \in Chunks :
    /\ disk'[i][b] = "user" => disk[i][b] = "user"
    /\ chunk'[i][b] = "user" => chunk[i][b] = "user"

PathsShrink == \A n \in Paths : dirent'[n] \in {dirent[n], NoInode}

Untouched(c) ==
  /\ pc'[c] = pc[c] /\ fd'[c] = fd[c] /\ size'[c] = size[c] /\ off'[c] = off[c]
  /\ late'[c] = late[c]

(* The steps that touch neither data nor names.                            *)
Quiet(d) ==
  \/ End(d) \/ Admit(d) \/ OpenFile(d) \/ StoreTotal(d) \/ StorePlan(d) \/ PrePoll(d)
  \/ MakeKey(d) \/ Poll(d) \/ ReadChunk(d) \/ EndPass(d) \/ Scrub(d)

LEMMA QuietFS == ASSUME NEW d \in Calls, Quiet(d) PROVE UNCHANGED fsVars
  BY DEF Quiet, End, Return, Admit, OpenFile, StoreTotal, StorePlan, PrePoll, MakeKey,
     Poll, ReadChunk, EndPass, Scrub

LEMMA ActShrinks ==
  ASSUME TypeOK, HandleOK, CacheInv, NEW d \in Calls, Act(d)
  PROVE  Shrinks /\ PathsShrink
  <1> USE FSAssumption, OptionsAssumption DEF TypeOK, FSTypeOK, Shrinks, PathsShrink
  <1>1. CASE Quiet(d)
    BY <1>1, QuietFS DEF fsVars
  <1>2. CASE PreWrite(d)
    <2>1. fd[d] \in Inodes /\ disk' = disk /\ dirent' = dirent
      BY <1>2 DEF PreWrite, PutChunk, HandleOK, Opened
    <2>2. \A i \in Inodes, b \in Chunks : chunk'[i][b] \in {chunk[i][b], "random"}
      BY <1>2, <2>1 DEF PreWrite, PutChunk, WriteAt
    <2> QED
      BY <2>1, <2>2
  <1>3. CASE WriteChunk(d)
    <2>1. fd[d] \in Inodes /\ dirent' = dirent
      BY <1>3 DEF WriteChunk, PutChunk, HandleOK, Opened
    <2>2. \A i \in Inodes, b \in Chunks : chunk'[i][b] \in {chunk[i][b], "cipher"}
      BY <1>3, <2>1 DEF WriteChunk, PutChunk, WriteAt
    <2>3. \A i \in Inodes, b \in Chunks :
            disk'[i][b] \in {disk[i][b], chunk[i][b], "cipher"}
      BY <1>3, <2>1 DEF WriteChunk
    <2> QED
      BY <2>1, <2>2, <2>3 DEF CacheInv
  <1>4. CASE PreSync(d) \/ Sync(d)
    <2>1. /\ UNCHANGED <<dirent, chunk>>
          /\ disk' = [disk EXCEPT ![fd[d]] = chunk[fd[d]]]
      BY <1>4 DEF PreSync, Sync, SyncFile
    <2> QED
      BY <2>1 DEF CacheInv
  <1>5. CASE Truncate(d)
    BY <1>5 DEF Truncate, TruncateFile
  <1>6. CASE Unlink(d)
    BY <1>6 DEF Unlink, UnlinkEntry, Names
  <1> QED
    BY <1>1, <1>2, <1>3, <1>4, <1>5, <1>6 DEF Act, Quiet

LEMMA ActOthers ==
  ASSUME TypeOK, NEW d \in Calls, Act(d), NEW c \in Calls, c # d
  PROVE  Untouched(c)
  <1> USE OptionsAssumption DEF TypeOK, Untouched
  <1>1. CASE End(d)
    BY <1>1 DEF End, Return, Goto, CloseHandle
  <1>2. CASE Admit(d) \/ OpenFile(d) \/ StoreTotal(d) \/ StorePlan(d) \/ PrePoll(d)
    BY <1>2 DEF Admit, OpenFile, StoreTotal, StorePlan, PrePoll, Goto
  <1>3. CASE PreWrite(d) \/ WriteChunk(d)
    BY <1>3 DEF PreWrite, WriteChunk, PutChunk, Goto
  <1>4. CASE PreSync(d) \/ MakeKey(d) \/ Poll(d) \/ ReadChunk(d) \/ EndPass(d)
    BY <1>4 DEF PreSync, MakeKey, Poll, ReadChunk, EndPass, Goto
  <1>5. CASE Sync(d) \/ Truncate(d) \/ Scrub(d) \/ Unlink(d)
    BY <1>5 DEF Sync, AfterSync, Truncate, Scrub, CloseHandle, Unlink, Goto
  <1> QED
    BY <1>1, <1>2, <1>3, <1>4, <1>5 DEF Act

(* Under these facts alone the invariant of another call survives.         *)
LEMMA OtherCallInv ==
  ASSUME TypeOK, HandleOK, Shrinks, PathsShrink, NEW c \in Calls, Untouched(c), CallInv(c)
  PROVE  CallInv(c)'
  <1> USE FSAssumption, OptionsAssumption DEF Untouched, PathsShrink
  <1>1. Request[c] \in Paths
    OBVIOUS
  <1>2. \A i \in Inodes : Clean(i) => Clean(i)'
    BY DEF Clean, Shrinks
  <1>3. NameInv(c)'
    BY <1>1 DEF CallInv, NameInv
  <1>4. SizeInv(c)'
    BY DEF CallInv, SizeInv, Shrinks, HandleOK
  <1>5. WriteInv(c)'
    BY DEF CallInv, WriteInv, Shrinks, HandleOK, Opened
  <1>6. WipedInv(c)'
    BY <1>1, <1>2 DEF CallInv, WipedInv, HandleOK, Opened
  <1> QED
    BY <1>3, <1>4, <1>5, <1>6 DEF CallInv

LEMMA ActData ==
  ASSUME TypeOK, HandleOK, CacheInv, LengthInv, KindInv, NEW d \in Calls, Act(d)
  PROVE  CacheInv' /\ LengthInv' /\ KindInv'
  <1> USE FSAssumption DEF TypeOK, FSTypeOK, CacheInv, LengthInv
  <1>1. KindInv'
    BY ActShrinks DEF KindInv, Clean, Shrinks
  <1>2. CASE Quiet(d) \/ Unlink(d)
    <2>1. chunk' = chunk /\ disk' = disk /\ len' = len
      BY <1>2, QuietFS DEF fsVars, Unlink
    <2> QED
      BY <1>1, <2>1
  <1>3. CASE PreWrite(d) \/ WriteChunk(d)
    <2>1. fd[d] \in Inodes /\ off[d] + 1 \in Chunks
      BY <1>3 DEF PreWrite, WriteChunk, HandleOK, Opened, Chunks
    <2>2. \A i \in Inodes : len[i] \in Int /\ len'[i] \in Int /\ len[i] <= len'[i]
      <3>1. len' = [len EXCEPT ![fd[d]] = IF @ < off[d] + 1 THEN off[d] + 1 ELSE @]
        BY <1>3, Zenon DEF PreWrite, WriteChunk, PutChunk, WriteAt
      <3> QED
        BY <2>1, <3>1 DEF Chunks
    <2>3. LengthInv'
      <3> SUFFICES ASSUME NEW i \in Inodes, NEW b \in Chunks, disk'[i][b] = "user"
                   PROVE  b <= len'[i]
        OBVIOUS
      <3>1. disk[i][b] = "user"
        BY ActShrinks DEF Shrinks
      <3>2. b <= len[i] /\ b \in Int
        BY <3>1 DEF Chunks
      <3> QED
        BY <2>2, <3>2
    <2>4. CacheInv'
      <3> SUFFICES ASSUME NEW i \in Inodes, NEW b \in Chunks, chunk'[i][b] = "user"
                   PROVE  disk'[i][b] = "user"
        OBVIOUS
      <3>1. chunk[i][b] = "user" /\ disk[i][b] = "user"
        BY ActShrinks DEF Shrinks
      <3>2. CASE i = fd[d] /\ WriteChunk(d)
        <4>1. chunk'[i] = [chunk[i] EXCEPT ![off[d] + 1] = "cipher"]
          BY <2>1, <3>2 DEF WriteChunk, PutChunk, WriteAt
        <4>2. b # off[d] + 1
          BY <2>1, <4>1
        <4>3. disk'[i] \in {disk[i], [chunk[i] EXCEPT ![off[d] + 1] = "cipher"]}
          BY <2>1, <3>2 DEF WriteChunk
        <4> QED
          BY <3>1, <4>2, <4>3
      <3>3. CASE ~(i = fd[d] /\ WriteChunk(d))
        <4>1. disk'[i] = disk[i]
          BY <1>3, <2>1, <3>3 DEF PreWrite, WriteChunk
        <4> QED
          BY <3>1, <4>1
      <3> QED
        BY <3>2, <3>3
    <2> QED
      BY <1>1, <2>3, <2>4
  <1>4. CASE PreSync(d) \/ Sync(d)
    <2>1. fd[d] \in Inodes /\ disk' = [disk EXCEPT ![fd[d]] = chunk[fd[d]]]
          /\ UNCHANGED <<len, chunk>>
      BY <1>4 DEF PreSync, Sync, SyncFile, HandleOK, Opened
    <2> QED
      BY <1>1, <2>1
  <1>5. CASE Truncate(d)
    BY <1>1, <1>5 DEF Truncate, TruncateFile
  <1> QED
    BY <1>2, <1>3, <1>4, <1>5 DEF Act, Quiet

(* The blocks that Truncate and Unlink free are clean.                     *)
LEMMA ActReleased ==
  ASSUME TypeOK, HandleOK, NoDataReleased, NEW d \in Calls, CallInv(d), Act(d)
  PROVE  NoDataReleased'
  <1> USE DEF NoDataReleased
  <1>1. CASE Quiet(d)
    BY <1>1, QuietFS DEF fsVars
  <1>2. CASE Truncate(d)
    <2>1. Held(fd[d]) = {}
      BY <1>2 DEF Truncate, CallInv, WipedInv, Clean, Held
    <2> QED
      BY <1>2, <2>1 DEF Truncate, TruncateFile
  <1>3. CASE Unlink(d)
    <2>1. dirent[Request[d]] \in Inodes
      BY <1>3, OptionsAssumption DEF Unlink, TypeOK, FSTypeOK, Names
    <2>2. Held(dirent[Request[d]]) = {}
      BY <1>3, <2>1 DEF Unlink, CallInv, WipedInv, Clean, Held
    <2> QED
      BY <1>3, <2>2 DEF Unlink, UnlinkEntry
  <1>4. CASE PreWrite(d) \/ WriteChunk(d) \/ PreSync(d) \/ Sync(d)
    BY <1>4 DEF PreWrite, WriteChunk, PutChunk, PreSync, Sync
  <1> QED
    BY <1>1, <1>2, <1>3, <1>4 DEF Act, Quiet

-----------------------------------------------------------------------------
(***************************************************************************)
(* What a step does to the invariant of the call that takes it.            *)
(***************************************************************************)
LEMMA OwnEntry ==
  ASSUME TypeOK, LengthInv, NEW c \in Calls, End(c) \/ Admit(c) \/ OpenFile(c)
  PROVE  CallInv(c)'
  <1> USE FSAssumption, OptionsAssumption DEF TypeOK, FSTypeOK
  <1>1. CASE End(c)
    BY <1>1 DEF End, Return, Goto, Failures, CallInv, NameInv, SizeInv, WriteInv,
       WipedInv, Opened
  <1>2. CASE Admit(c)
    BY <1>2 DEF Admit, Goto, CallInv, NameInv, SizeInv, WriteInv, WipedInv, Opened
  <1>3. CASE OpenFile(c)
    <2> DEFINE i == Resolve(Request[c])
    <2>1. /\ UNCHANGED fsVars /\ pc'[c] = "total" /\ fd'[c] = i /\ size'[c] = len[i]
          /\ i \in Inodes
      BY <1>3, ResolveType DEF OpenFile, Goto, Names
    <2>2. dirent[Request[c]] = i \/ Kind[dirent[Request[c]]] = "symlink"
      BY DEF Resolve
    <2> HIDE DEF i
    <2>3. NameInv(c)' /\ SizeInv(c)'
      BY <2>1, <2>2 DEF NameInv, SizeInv, LengthInv, fsVars
    <2>4. WriteInv(c)' /\ WipedInv(c)'
      BY <2>1 DEF WriteInv, WipedInv
    <2> QED
      BY <2>3, <2>4 DEF CallInv
  <1> QED
    BY <1>1, <1>2, <1>3

(* Steps inside the open handle that neither write nor end a pass.         *)
LEMMA OwnQuiet ==
  ASSUME TypeOK, HandleOK, NEW c \in Calls, CallInv(c),
         StoreTotal(c) \/ StorePlan(c) \/ PrePoll(c) \/ MakeKey(c) \/ Poll(c) \/ ReadChunk(c)
  PROVE  CallInv(c)'
  <1> USE FSAssumption, OptionsAssumption DEF TypeOK, FSTypeOK
  <1>1. /\ UNCHANGED fsVars /\ fd'[c] = fd[c] /\ size'[c] = size[c] /\ off'[c] = off[c]
        /\ pc[c] \in Opened
    BY DEF StoreTotal, StorePlan, PrePoll, MakeKey, Poll, ReadChunk, Opened
  <1>2. pc'[c] \in {"plan", "prepoll", "prewrite", "presync", "key", "poll", "read", "write"}
    BY DEF StoreTotal, StorePlan, PrePoll, MakeKey, Poll, ReadChunk, Goto
  <1>3. pc'[c] \in {"poll", "read", "write"} =>
          pc[c] \in {"poll", "read", "write"} \/ off[c] = 0
    BY DEF StoreTotal, StorePlan, PrePoll, MakeKey, Poll, ReadChunk, Goto, HandleOK
  <1>4. NameInv(c)' /\ SizeInv(c)'
    BY <1>1 DEF CallInv, NameInv, SizeInv, fsVars
  <1>5. WriteInv(c)'
    BY <1>1, <1>2, <1>3 DEF CallInv, WriteInv, fsVars, Chunks
  <1>6. WipedInv(c)'
    BY <1>2 DEF WipedInv
  <1> QED
    BY <1>4, <1>5, <1>6 DEF CallInv

LEMMA OwnWrite ==
  ASSUME TypeOK, HandleOK, CacheInv, NEW c \in Calls, CallInv(c), PreWrite(c) \/ WriteChunk(c)
  PROVE  CallInv(c)'
  <1> USE FSAssumption, OptionsAssumption DEF TypeOK, FSTypeOK
  <1>1. /\ dirent' = dirent /\ fd'[c] = fd[c] /\ size'[c] = size[c]
        /\ fd[c] \in Inodes /\ pc[c] \in Opened
    BY DEF PreWrite, WriteChunk, PutChunk, HandleOK, Opened
  <1>2. pc'[c] \in {"prepoll", "poll"} /\ (pc'[c] = "poll" => WriteChunk(c))
    BY DEF PreWrite, WriteChunk, Goto
  <1>3. NameInv(c)' /\ SizeInv(c)'
    BY <1>1, ActShrinks DEF CallInv, NameInv, SizeInv, Act, Shrinks
  <1>4. WriteInv(c)'
    <2> SUFFICES ASSUME WriteChunk(c), NEW b \in Chunks, b <= off'[c]
                 PROVE  chunk'[fd[c]][b] # "user"
      BY <1>1, <1>2 DEF WriteInv
    <2>1. /\ off'[c] = off[c] + 1 /\ pc[c] = "write" /\ off[c] + 1 \in Chunks
          /\ chunk'[fd[c]] = [chunk[fd[c]] EXCEPT ![off[c] + 1] = "cipher"]
      BY <1>1 DEF WriteChunk, PutChunk, WriteAt, HandleOK, Chunks
    <2>2. CASE b = off[c] + 1
      BY <1>1, <2>1, <2>2
    <2>3. CASE b # off[c] + 1
      <3>1. b <= off[c]
        BY <2>1, <2>3 DEF Chunks
      <3> QED
        BY <1>1, <2>1, <2>3, <3>1 DEF CallInv, WriteInv
    <2> QED
      BY <2>2, <2>3
  <1>5. WipedInv(c)'
    BY <1>2 DEF WipedInv
  <1> QED
    BY <1>3, <1>4, <1>5 DEF CallInv

LEMMA OwnPreSync ==
  ASSUME TypeOK, HandleOK, CacheInv, NEW c \in Calls, CallInv(c), PreSync(c)
  PROVE  CallInv(c)'
  <1> USE FSAssumption, OptionsAssumption DEF TypeOK, FSTypeOK
  <1>1. /\ dirent' = dirent /\ fd'[c] = fd[c] /\ size'[c] = size[c]
        /\ fd[c] \in Inodes /\ pc[c] \in Opened /\ pc'[c] = "key"
    BY DEF PreSync, Goto, HandleOK, Opened
  <1>2. NameInv(c)' /\ SizeInv(c)'
    BY <1>1, ActShrinks DEF CallInv, NameInv, SizeInv, Act, Shrinks
  <1>3. WriteInv(c)' /\ WipedInv(c)'
    BY <1>1 DEF WriteInv, WipedInv
  <1> QED
    BY <1>2, <1>3 DEF CallInv

(* The pass ends with every chunk of the file written over: either as many *)
(* as it had at the open, or up to where the file now ends.                *)
LEMMA OwnEndPass ==
  ASSUME TypeOK, HandleOK, CacheInv, LengthInv, NEW c \in Calls, CallInv(c), EndPass(c)
  PROVE  CallInv(c)'
  <1> USE FSAssumption, OptionsAssumption DEF TypeOK, FSTypeOK
  <1>1. /\ UNCHANGED fsVars /\ fd'[c] = fd[c] /\ size'[c] = size[c]
        /\ fd[c] \in Inodes /\ pc[c] \in Opened /\ pc'[c] = "sync"
        /\ pc[c] \in {"poll", "read"}
        /\ off[c] = size[c] \/ off[c] >= len[fd[c]]
    BY DEF EndPass, Goto, HandleOK, Opened
  <1>2. NameInv(c)' /\ SizeInv(c)'
    BY <1>1 DEF CallInv, NameInv, SizeInv, fsVars
  <1>3. WriteInv(c)'
    <2> SUFFICES ASSUME NEW b \in Chunks, chunk[fd[c]][b] = "user" PROVE FALSE
      BY <1>1 DEF WriteInv, fsVars
    <2>1. b > off[c]
      BY <1>1 DEF CallInv, WriteInv, Chunks
    <2>2. b <= size[c] /\ b <= len[fd[c]]
      BY <1>1 DEF CacheInv, LengthInv, CallInv, SizeInv
    <2> QED
      BY <1>1, <2>1, <2>2 DEF Chunks
  <1>4. WipedInv(c)'
    BY <1>1 DEF WipedInv
  <1> QED
    BY <1>2, <1>3, <1>4 DEF CallInv

LEMMA OwnSync ==
  ASSUME TypeOK, HandleOK, CacheInv, NEW c \in Calls, CallInv(c), Sync(c) \/ Truncate(c)
  PROVE  CallInv(c)'
  <1> USE FSAssumption, OptionsAssumption DEF TypeOK, FSTypeOK
  <1>1. /\ dirent' = dirent /\ fd'[c] = fd[c] /\ size'[c] = size[c]
        /\ fd[c] \in Inodes /\ pc[c] \in Opened /\ pc'[c] \in {"truncate", "scrub"}
    BY DEF Sync, AfterSync, Truncate, Goto, HandleOK, Opened
  <1>2. NameInv(c)' /\ SizeInv(c)'
    BY <1>1, ActShrinks DEF CallInv, NameInv, SizeInv, Act, Shrinks
  <1>3. WriteInv(c)'
    BY <1>1 DEF WriteInv
  <1>4. Clean(fd[c])'
    <2>1. CASE Sync(c)
      BY <1>1, <2>1 DEF Sync, SyncFile, CallInv, WriteInv, Clean
    <2>2. CASE Truncate(c)
      BY <1>1, <2>2 DEF Truncate, TruncateFile, Clean
    <2> QED
      BY <2>1, <2>2
  <1>5. WipedInv(c)'
    BY <1>1, <1>4 DEF WipedInv, Clean
  <1> QED
    BY <1>2, <1>3, <1>5 DEF CallInv

(* With the handle closed, the name leads to the file just wiped, or to a  *)
(* symlink, which holds no data.                                           *)
LEMMA OwnScrub ==
  ASSUME TypeOK, HandleOK, KindInv, NEW c \in Calls, CallInv(c), Scrub(c) \/ Unlink(c)
  PROVE  CallInv(c)'
  <1> USE FSAssumption, OptionsAssumption DEF TypeOK, FSTypeOK
  <1>1. pc'[c] \in {"unlink", "ok"}
    BY DEF Scrub, Unlink, Goto
  <1>2. NameInv(c)' /\ SizeInv(c)' /\ WriteInv(c)'
    BY <1>1 DEF NameInv, SizeInv, WriteInv, Opened
  <1>3. WipedInv(c)'
    <2>1. CASE Scrub(c)
      <3>1. Clean(fd[c]) /\ UNCHANGED fsVars /\ pc[c] = "scrub"
        BY <2>1 DEF Scrub, CallInv, WipedInv
      <3>2. dirent[Request[c]] \in Inodes => Clean(dirent[Request[c]])
        BY <3>1 DEF CallInv, NameInv, KindInv, Opened
      <3> QED
        BY <1>1, <3>1, <3>2 DEF WipedInv, Clean, fsVars
    <2>2. CASE Unlink(c)
      BY <2>2 DEF Unlink, Goto, WipedInv
    <2> QED
      BY <2>1, <2>2
  <1> QED
    BY <1>2, <1>3 DEF CallInv

-----------------------------------------------------------------------------
LEMMA InitIInv == Init => IInv
  <1> SUFFICES ASSUME Init PROVE IInv
    OBVIOUS
  <1> USE FSAssumption, OptionsAssumption
  <1>1. TypeOK /\ HandleOK
    BY InitTypeOK, InitHandleOK
  <1>2. CacheInv /\ LengthInv /\ NoDataReleased
    BY DEF Init, FSInit, CacheInv, LengthInv, NoDataReleased
  <1>3. KindInv
    <2> SUFFICES ASSUME NEW i \in Inodes, Kind[i] # "file", NEW b \in Chunks
                 PROVE  disk[i][b] # "user"
      BY DEF KindInv, Clean
    <2>1. ~(b <= len[i])
      BY DEF Init, FSInit, Chunks
    <2> QED
      BY <2>1 DEF Init, FSInit
  <1>4. ASSUME NEW c \in Calls PROVE CallInv(c)
    <2>1. pc[c] = "idle"
      BY DEF Init
    <2> QED
      BY <2>1 DEF CallInv, NameInv, SizeInv, WriteInv, WipedInv, Opened
  <1> QED
    BY <1>1, <1>2, <1>3, <1>4 DEF IInv

(* After a power loss the page cache is what the device holds and no call  *)
(* runs.                                                                   *)
LEMMA PowerLossIInv == ASSUME IInv, PowerLoss PROVE IInv'
  <1> USE FSAssumption, OptionsAssumption
  <1>1. TypeOK' /\ HandleOK'
    BY StepTypeOK, StepHandleOK DEF IInv, Next
  <1>2. CacheInv' /\ LengthInv' /\ KindInv' /\ NoDataReleased'
    BY DEF IInv, PowerLoss, CacheInv, LengthInv, KindInv, Clean, NoDataReleased
  <1>3. ASSUME NEW c \in Calls PROVE CallInv(c)'
    <2>1. pc'[c] \in Done \cup {"idle"}
      BY DEF PowerLoss, IInv, TypeOK, Running, Done
    <2> QED
      BY <2>1 DEF CallInv, NameInv, SizeInv, WriteInv, WipedInv, Opened, Done
  <1> QED
    BY <1>1, <1>2, <1>3 DEF IInv

LEMMA ActIInv == ASSUME IInv, NEW d \in Calls, Act(d), Next PROVE IInv'
  <1>1. TypeOK' /\ HandleOK'
    BY StepTypeOK, StepHandleOK DEF IInv
  <1>2. CacheInv' /\ LengthInv' /\ KindInv' /\ NoDataReleased'
    BY ActData, ActReleased DEF IInv
  <1>3. CallInv(d)'
    BY OwnEntry, OwnQuiet, OwnWrite, OwnPreSync, OwnEndPass, OwnSync, OwnScrub DEF Act, IInv
  <1>4. ASSUME NEW c \in Calls, c # d PROVE CallInv(c)'
    <2>1. Shrinks /\ PathsShrink /\ Untouched(c)
      BY <1>4, ActShrinks, ActOthers DEF IInv
    <2> QED
      BY <2>1, OtherCallInv DEF IInv
  <1> QED
    BY <1>1, <1>2, <1>3, <1>4 DEF IInv

(* A UI thread touches no file, and so does a step outside the model.      *)
LEMMA IdleIInv == ASSUME IInv, [Next]_vars, UNCHANGED <<fsVars, callVars>> PROVE IInv'
  <1> USE DEF fsVars, callVars
  <1>1. TypeOK' /\ HandleOK'
    BY StepTypeOK, StepHandleOK DEF IInv
  <1>2. CacheInv' /\ LengthInv' /\ KindInv' /\ NoDataReleased'
    BY DEF IInv, CacheInv, LengthInv, KindInv, Clean, NoDataReleased
  <1>3. ASSUME NEW c \in Calls PROVE CallInv(c)'
    BY DEF IInv, CallInv, NameInv, SizeInv, WriteInv, WipedInv, Clean
  <1> QED
    BY <1>1, <1>2, <1>3 DEF IInv

LEMMA Inductive == Spec => []IInv
  <1>1. ASSUME IInv, [Next]_vars PROVE IInv'
    <2>1. CASE UNCHANGED vars \/ Watch
      BY <1>1, <2>1, IdleIInv DEF vars, Watch
    <2> QED
      BY <1>1, <2>1, NextCases, PowerLossIInv, ActIInv DEF IInv
  <1> QED
    BY <1>1, InitIInv, PTL DEF Spec

(* However many calls run, however they interleave, are cancelled, fail    *)
(* and die, no block goes back to the free pool with user data in it.      *)
THEOREM DataNeverReleased == Spec => []NoDataReleased
  <1>1. IInv => NoDataReleased
    BY DEF IInv
  <1> QED
    BY <1>1, Inductive, PTL

LEMMA ScrubZeroizes ==
  ASSUME TypeOK, Next, NEW c \in Calls,
         key[c] = "live", key'[c] = "zeroized", pc'[c] # "cancelled"
  PROVE  Scrub(c)
  <1> USE DEF TypeOK
  <1>1. ~PowerLoss /\ ~Watch
    BY DEF PowerLoss, Watch, callVars
  <1>2. PICK d \in Calls : Admit(d) \/ Refuse(d) \/ Step(d) \/ Fault(d) \/ Kill(d)
    BY <1>1, Zenon DEF Next, Watch
  <1>3. ASSUME UNCHANGED key PROVE FALSE
    BY <1>3
  <1>4. ASSUME Cancel(d) PROVE FALSE
    <2>1. d = c /\ pc' = [pc EXCEPT ![d] = "cancelled"]
      BY <1>4 DEF Cancel, Zeroize, Return, Goto
    <2> QED
      BY <2>1
  <1>5. ASSUME MakeKey(d) \/ Kill(d) PROVE FALSE
    BY <1>5 DEF MakeKey, Kill
  <1>6. ASSUME Scrub(d) PROVE d = c
    BY <1>6 DEF Scrub, Zeroize
  <1>7. ~(Admit(d) \/ Refuse(d) \/ Fault(d) \/ OpenFile(d) \/ OpenFails(d) \/ StoreTotal(d)
            \/ StorePlan(d) \/ PrePoll(d) \/ PreCancel(d) \/ PreWrite(d) \/ PreSync(d))
    BY <1>3, Zenon DEF Admit, Refuse, Fault, OpenFile, OpenFails, StoreTotal, StorePlan,
       PrePoll, PreCancel, PreWrite, PutChunk, PreSync
  <1>8. ~(Poll(d) \/ ReadChunk(d) \/ WriteChunk(d) \/ EndPass(d) \/ Sync(d) \/ Truncate(d)
            \/ Unlink(d) \/ UnlinkFails(d))
    BY <1>3, Zenon DEF Poll, ReadChunk, WriteChunk, PutChunk, EndPass, Sync, Truncate,
       Unlink, UnlinkFails
  <1> QED
    BY <1>2, <1>4, <1>5, <1>6, <1>7, <1>8 DEF Step

(* The key is zeroized only with the plaintext gone from the device: the   *)
(* one step that does so without a cancel is Scrub.                        *)
THEOREM KeyIsLast == Spec => KeyOutlivesPlaintext
  <1>1. ASSUME IInv, [Next]_vars
        PROVE  [\A c \in Calls :
                  key[c] = "live" /\ key'[c] = "zeroized" /\ pc'[c] # "cancelled"
                    => Held(fd[c]) = {}]_vars
    <2> SUFFICES ASSUME NEW c \in Calls, Next, key[c] = "live", key'[c] = "zeroized",
                        pc'[c] # "cancelled"
                 PROVE  Held(fd[c]) = {}
      BY <1>1
    <2>1. Scrub(c)
      BY <1>1, ScrubZeroizes DEF IInv
    <2>2. Clean(fd[c])
      BY <1>1, <2>1 DEF Scrub, IInv, CallInv, WipedInv
    <2> QED
      BY <2>2 DEF Clean, Held
  <1> QED
    BY <1>1, Inductive, PTL DEF Spec, KeyOutlivesPlaintext

-----------------------------------------------------------------------------
(***************************************************************************)
(* Refinement: held user data shrinks on one inode at a time, and only     *)
(* while no name moves.                                                    *)
(***************************************************************************)
HeldMap == [i \in Inodes |-> Held(i)]
NamedSet == {i \in Inodes : Named(i)}

LEMMA HeldStep ==
  ASSUME IInv, [Next]_vars
  PROVE  \/ disk' = disk
         \/ \E j \in Inodes :
              /\ \A i \in Inodes \ {j} : Held(i)' = Held(i)
              /\ Held(j)' \in SUBSET Held(j)
              /\ dirent' = dirent
  <1> USE FSAssumption, OptionsAssumption DEF IInv, TypeOK, FSTypeOK
  <1>1. ASSUME NEW c \in Calls, PreSync(c) \/ WriteChunk(c) \/ Sync(c) \/ Truncate(c)
        PROVE  \E j \in Inodes :
                 /\ \A i \in Inodes \ {j} : Held(i)' = Held(i)
                 /\ Held(j)' \in SUBSET Held(j)
                 /\ dirent' = dirent
    <2>1. PICK j \in Inodes : j = fd[c]
      BY <1>1 DEF PreSync, WriteChunk, Sync, Truncate, HandleOK, Opened
    <2>2. dirent' = dirent /\ \A i \in Inodes \ {j} : disk'[i] = disk[i]
      BY <1>1, <2>1 DEF PreSync, WriteChunk, PutChunk, Sync, Truncate, SyncFile, TruncateFile
    <2>3. Shrinks
      BY <1>1, ActShrinks DEF Act
    <2>4. Held(j)' \subseteq Held(j)
      BY <2>3 DEF Held, Shrinks
    <2>5. \A i \in Inodes \ {j} : Held(i)' = Held(i)
      BY <2>2 DEF Held
    <2> QED
      BY <2>2, <2>4, <2>5
  <1>2. CASE PowerLoss \/ UNCHANGED vars \/ Watch
    BY <1>2 DEF PowerLoss, Watch, vars, fsVars
  <1>3. ASSUME NEW c \in Calls, Quiet(c) \/ PreWrite(c) \/ Unlink(c) PROVE disk' = disk
    BY <1>3, QuietFS DEF fsVars, PreWrite, Unlink
  <1>4. QED
    BY <1>1, <1>2, <1>3, NextCases DEF Act, Quiet

LEMMA NamedStep ==
  ASSUME IInv, [Next]_vars
  PROVE  \/ NamedSet' = NamedSet
         \/ /\ disk' = disk
            /\ \E j \in Inodes : Held(j) = {} /\ NamedSet' = NamedSet \ {j}
  <1> USE FSAssumption, OptionsAssumption DEF IInv, TypeOK, FSTypeOK, Names
  <1>1. CASE dirent' = dirent
    BY <1>1 DEF NamedSet, Named
  <1>2. ASSUME NEW c \in Calls, Unlink(c)
        PROVE  \E j \in Inodes :
                 Held(j) = {} /\ (NamedSet' = NamedSet \/ NamedSet' = NamedSet \ {j})
    <2>1. PICK j \in Inodes : j = dirent[Request[c]]
      BY <1>2 DEF Unlink
    <2>2. Held(j) = {}
      BY <1>2, <2>1 DEF Unlink, CallInv, WipedInv, Clean, Held
    <2>3. \A n \in Paths : dirent'[n] = IF n = Request[c] THEN NoInode ELSE dirent[n]
      BY <1>2 DEF Unlink, UnlinkEntry
    <2>4. \A i \in Inodes \ {j} : Named(i)' <=> Named(i)
      BY <2>1, <2>3 DEF Named
    <2>5. Named(j)
      BY <2>1 DEF Named
    <2>6. CASE Named(j)'
      <3>1. \A i \in Inodes : Named(i)' <=> Named(i)
        BY <2>4, <2>5, <2>6
      <3> QED
        BY <2>2, <3>1, Zenon DEF NamedSet
    <2>7. CASE ~Named(j)'
      <3>1. \A i \in Inodes : Named(i)' <=> Named(i) /\ i # j
        BY <2>4, <2>7, Zenon
      <3>2. NamedSet' = NamedSet \ {j}
        BY <3>1 DEF NamedSet
      <3>3. j \in Inodes
        BY <2>5 DEF Named
      <3> QED
        BY <2>2, <3>2, <3>3, Zenon
    <2> QED
      BY <2>6, <2>7
  <1>3. ASSUME NEW c \in Calls, Act(c), ~Unlink(c) PROVE dirent' = dirent
    BY <1>3, QuietFS DEF Act, Quiet, fsVars, PreWrite, WriteChunk, PutChunk, PreSync, Sync, Truncate
  <1>4. CASE PowerLoss \/ Watch \/ UNCHANGED vars
    BY <1>1, <1>4 DEF PowerLoss, Watch, vars, fsVars
  <1>5. ASSUME NEW c \in Calls, Unlink(c) PROVE disk' = disk
    BY <1>5 DEF Unlink
  <1> QED
    BY <1>1, <1>2, <1>3, <1>4, <1>5, NextCases

LEMMA InitPromise == Init => Promise!Init
  <1> SUFFICES ASSUME Init PROVE Promise!Init
    OBVIOUS
  <1>1. lost = {}
    BY DEF Init, FSInit
  <1>2. HeldMap \in [Inodes -> SUBSET Chunks]
    BY DEF HeldMap, Held
  <1> QED
    BY <1>1, <1>2 DEF Promise!Init, HeldMap

LEMMA StepPromise ==
  ASSUME IInv, IInv', [Next]_vars
  PROVE  [Promise!Next]_<<HeldMap, NamedSet, lost>>
  <1>1. lost' = lost
    BY DEF IInv, NoDataReleased
  <1>2. CASE disk' = disk
    <2>1. HeldMap' = HeldMap
      BY <1>2 DEF HeldMap, Held
    <2>2. ASSUME NEW j \in Inodes, Held(j) = {}, NamedSet' = NamedSet \ {j}
          PROVE  Promise!Forget(j)
      <3>1. HeldMap[j] = {}
        BY <2>2 DEF HeldMap
      <3> QED
        BY <1>1, <2>1, <2>2, <3>1 DEF Promise!Forget, HeldMap, NamedSet
    <2> QED
      BY <1>1, <1>2, <2>1, <2>2, NamedStep DEF Promise!Next
  <1>3. ASSUME NEW j \in Inodes,
               \A i \in Inodes \ {j} : Held(i)' = Held(i),
               Held(j)' \in SUBSET Held(j),
               dirent' = dirent
        PROVE  Promise!Overwrite(j)
    <2>1. NamedSet' = NamedSet
      BY <1>3 DEF NamedSet, Named
    <2>2. PICK rest \in SUBSET HeldMap[j] : rest = Held(j)'
      BY <1>3 DEF HeldMap
    <2>3. HeldMap' = [HeldMap EXCEPT ![j] = rest]
      BY <1>3, <2>2 DEF HeldMap
    <2> QED
      BY <1>1, <2>1, <2>2, <2>3 DEF Promise!Overwrite, HeldMap, NamedSet
  <1>4. QED
    BY <1>2, <1>3, HeldStep DEF Promise!Next

(* For any set of calls, every step is an overwriting of user data in place *)
(* or the loss of a clean file's name, as the abstract module promises.    *)
THEOREM Refinement == Spec => ImplementsErasure
  <1>1. IInv /\ IInv' /\ [Next]_vars => [Promise!Next]_<<HeldMap, NamedSet, lost>>
    BY StepPromise
  <1> QED
    BY <1>1, InitPromise, Inductive, PTL DEF Spec, ImplementsErasure, Promise!Spec,
       HeldMap, NamedSet
-----------------------------------------------------------------------------
(***************************************************************************)
(* Cancelling.  A call that has written since the flag was set has not     *)
(* polled since, and will not write again before it does.                  *)
(***************************************************************************)
CancelInv ==
  \A c \in Calls :
    /\ late[c] <= 1
    /\ late[c] > 0 => Polled(c) /\ pc[c] \notin {"prewrite", "read", "write"}

LEMMA StepCancelInv == ASSUME TypeOK, CancelInv, [Next]_vars PROVE CancelInv'
  <1> USE OptionsAssumption DEF TypeOK, CancelInv, Polled
  <1>1. CASE UNCHANGED vars
    BY <1>1 DEF vars, callVars, progressVars
  <1>2. CASE PowerLoss
    BY <1>2 DEF PowerLoss, progressVars
  <1>3. CASE Watch
    <2>1. UNCHANGED <<pc, late>>
      BY <1>3 DEF Watch, callVars
    <2>2. \A h \in Handles : cancel[h] => cancel'[h]
      BY <1>3 DEF Watch, UI, RequestCancel, SnapshotLoad, ProgressTypeOK
    <2> QED
      BY <2>1, <2>2
  <1>4. ASSUME NEW d \in Calls, Act(d) PROVE CancelInv'
    <2>1. cancel' = cancel
      BY <1>4 DEF Act, End, Return, Admit, OpenFile, StoreTotal, StorePlan, PrePoll,
         PreWrite, PutChunk, PreSync, MakeKey, Poll, ReadChunk, WriteChunk, EndPass, Sync,
         Truncate, Scrub, Unlink, progressVars
    <2>2. ASSUME NEW c \in Calls, c # d
          PROVE  late'[c] = late[c] /\ pc'[c] = pc[c]
      BY <1>4, <2>2, ActOthers DEF Untouched
    <2>3. CASE PreWrite(d) \/ WriteChunk(d)
      <3>1. pc[d] \in {"prewrite", "write"} /\ pc'[d] \in {"prepoll", "poll"}
        BY <2>3 DEF PreWrite, WriteChunk, Goto
      <3>2. late[d] = 0
        BY <3>1
      <3>3. late'[d] = IF Polled(d) THEN 1 ELSE 0
        BY <2>3, <3>2 DEF PreWrite, WriteChunk, PutChunk, MaxLate
      <3> QED
        BY <2>1, <2>2, <3>1, <3>3
    <2>4. CASE ~PreWrite(d) /\ ~WriteChunk(d)
      <3>1. late' = late
        BY <1>4, <2>4, Zenon DEF Act, End, Return, Admit, OpenFile, StoreTotal, StorePlan,
           PrePoll, PreSync, MakeKey, Poll, ReadChunk, EndPass, Sync, Truncate, Scrub,
           Unlink
      <3>2. pc'[d] \in {"prewrite", "read", "write"} =>
              ~Polled(d) \/ pc[d] \in {"prewrite", "read", "write"}
        <4>1. CASE PrePoll(d) \/ Poll(d) \/ ReadChunk(d)
          BY <4>1 DEF PrePoll, Poll, ReadChunk, Goto
        <4>2. CASE End(d)
          BY <4>2 DEF End, Return, Goto, Failures
        <4>3. CASE Admit(d) \/ OpenFile(d) \/ StoreTotal(d) \/ StorePlan(d) \/ PreSync(d)
                     \/ MakeKey(d)
          BY <4>3 DEF Admit, OpenFile, StoreTotal, StorePlan, PreSync, MakeKey, Goto
        <4>4. CASE EndPass(d) \/ Sync(d) \/ Truncate(d) \/ Scrub(d) \/ Unlink(d)
          BY <4>4 DEF EndPass, Sync, AfterSync, Truncate, Scrub, Unlink, Goto
        <4> QED
          BY <1>4, <2>4, <4>1, <4>2, <4>3, <4>4 DEF Act
      <3> QED
        BY <2>1, <2>2, <3>1, <3>2
    <2> QED
      BY <2>3, <2>4
  <1> QED
    BY <1>1, <1>2, <1>3, <1>4, NextCases

(* From the moment a call can see the cancel flag it writes one chunk at   *)
(* most, in either pass, however it is interleaved with the UI thread.     *)
THEOREM CancelIsPrompt == Spec => []CancelStopsWriting
  <1>1. Init => CancelInv
    <2>1. ASSUME Init, NEW c \in Calls PROVE late[c] = 0
      BY <2>1 DEF Init
    <2>2. 0 <= 1 /\ ~(0 > 0)
      OBVIOUS
    <2> QED
      BY <2>1, <2>2, Zenon DEF CancelInv
  <1>2. CancelInv => CancelStopsWriting
    BY DEF CancelInv, CancelStopsWriting
  <1> QED
    BY <1>1, <1>2, StepCancelInv, TypeCorrect, PTL DEF Spec

-----------------------------------------------------------------------------
(***************************************************************************)
(* The counters a UI thread reads.  With a handle of its own, a call has   *)
(* announced before it counts, and counts no more than it announced.       *)
(***************************************************************************)
OneCallPerHandle == \A c, d \in Calls : Handle[c] = Handle[d] => c = d

Announced(h) == written[h] <= total[h] /\ completed[h] <= planned[h]

(* What has been counted where the call is; the bytes and passes of a      *)
(* random pass are behind it when the cipher pass starts.                  *)
CountInv(c) ==
  LET h == Handle[c] before == IF PrePass[c] THEN 1 ELSE 0 IN
  /\ pc[c] \in {"idle", "open", "total"} => total[h] = 0
  /\ pc[c] \in {"idle", "open", "total", "plan"} =>
       planned[h] = 0 /\ written[h] = 0 /\ completed[h] = 0
  /\ pc[c] \in Opened \ {"total"} => total[h] = size[c] + before * size[c]
  /\ pc[c] \in Opened \ {"total", "plan"} => planned[h] = 1 + before
  /\ pc[c] \in {"prepoll", "prewrite", "presync"} =>
       PrePass[c] /\ written[h] = off[c] /\ completed[h] = 0
  /\ pc[c] \in {"key", "poll", "read", "write"} =>
       written[h] <= before * size[c] + off[c] /\ completed[h] <= before

(* A load returns what the counter was or is: the two that are stored once *)
(* were zero before, the two that count only grow.                         *)
SnapInv(h) ==
  /\ snap[h]["total"] \in {0, total[h]}
  /\ snap[h]["planned"] \in {0, planned[h]}
  /\ snap[h]["written"] <= written[h]
  /\ snap[h]["completed"] <= completed[h]

ProgressInv ==
  /\ \A c \in Calls : CountInv(c)
  /\ \A h \in Handles : Announced(h) /\ SnapInv(h)

(* How the counters of a handle may move.                                  *)
Advances(h) ==
  /\ total'[h] = total[h] \/ total[h] = 0
  /\ planned'[h] = planned[h] \/ planned[h] = 0
  /\ written[h] <= written'[h] /\ completed[h] <= completed'[h]
  /\ snap'[h] = snap[h]

Rests(h) ==
  /\ total'[h] = total[h] /\ planned'[h] = planned[h]
  /\ written'[h] = written[h] /\ completed'[h] = completed[h] /\ snap'[h] = snap[h]

LEMMA ActCounters ==
  ASSUME TypeOK, NEW d \in Calls, CountInv(d), Act(d), NEW h \in Handles
  PROVE  Advances(h) /\ (h # Handle[d] => Rests(h))
  <1> USE OptionsAssumption DEF TypeOK, ProgressTypeOK, Advances, Rests
  <1>1. CASE UNCHANGED progressVars
    BY <1>1 DEF progressVars, counterVars, snapVars
  <1>2. CASE StoreTotal(d)
    BY <1>2 DEF StoreTotal, SeedTotal, snapVars, CountInv
  <1>3. CASE StorePlan(d)
    BY <1>3 DEF StorePlan, SeedPlanned, snapVars, CountInv
  <1>4. CASE PreWrite(d) \/ WriteChunk(d)
    <2>1. /\ written' = [written EXCEPT ![Handle[d]] = @ + 1]
          /\ UNCHANGED <<total, planned, completed, snap>>
      BY <1>4 DEF PreWrite, WriteChunk, PutChunk, CountChunk, snapVars
    <2> QED
      BY <2>1
  <1>5. CASE PreSync(d) \/ EndPass(d)
    <2>1. /\ completed' = [completed EXCEPT ![Handle[d]] = @ + 1]
          /\ UNCHANGED <<total, planned, written, snap>>
      BY <1>5 DEF PreSync, EndPass, CountPass, snapVars
    <2> QED
      BY <2>1
  <1> QED
    BY <1>1, <1>2, <1>3, <1>4, <1>5 DEF Act, End, Return, Admit, OpenFile, PrePoll, MakeKey,
       Poll, ReadChunk, Sync, Truncate, Scrub, Unlink

LEMMA OwnCounters ==
  ASSUME TypeOK, HandleOK, NEW c \in Calls, CountInv(c), Announced(Handle[c]), Act(c)
  PROVE  CountInv(c)' /\ Announced(Handle[c])'
  <1> USE OptionsAssumption, FSAssumption DEF TypeOK, ProgressTypeOK, CountInv, Announced, Opened
  <1>1. CASE End(c)
    BY <1>1 DEF End, Return, Goto, Failures, progressVars, counterVars
  <1>2. CASE Admit(c) \/ OpenFile(c)
    BY <1>2 DEF Admit, OpenFile, Goto, progressVars, counterVars
  <1>3. CASE StoreTotal(c)
    <2>1. size[c] * PassCount(c) = size[c] + (IF PrePass[c] THEN 1 ELSE 0) * size[c]
      BY DEF PassCount
    <2> QED
      BY <1>3, <2>1 DEF StoreTotal, SeedTotal, Goto
  <1>4. CASE StorePlan(c)
    <2>1. /\ planned'[Handle[c]] = 1 + (IF PrePass[c] THEN 1 ELSE 0)
          /\ UNCHANGED <<total, written, completed, size, off>>
          /\ pc[c] = "plan" /\ pc'[c] \in {"prepoll", "key"}
          /\ pc'[c] = "prepoll" => PrePass[c]
      BY <1>4 DEF StorePlan, SeedPlanned, Goto, PassCount
    <2>2. off[c] = 0
      BY <2>1 DEF HandleOK
    <2> QED
      BY <2>1, <2>2
  <1>5. CASE PrePoll(c)
    BY <1>5 DEF PrePoll, Goto, progressVars, counterVars
  <1>6. CASE PreWrite(c) \/ WriteChunk(c)
    <2>1. /\ UNCHANGED <<total, planned, completed, size>>
          /\ written'[Handle[c]] = written[Handle[c]] + 1 /\ off'[c] = off[c] + 1
          /\ \/ pc[c] = "prewrite" /\ pc'[c] = "prepoll"
             \/ pc[c] = "write" /\ pc'[c] = "poll"
      BY <1>6 DEF PreWrite, WriteChunk, PutChunk, CountChunk, Goto
    <2>2. off[c] < size[c]
      BY <2>1 DEF HandleOK
    <2> QED
      BY <2>1, <2>2
  <1>7. CASE PreSync(c)
    <2>1. /\ UNCHANGED <<total, planned, written, size>> /\ off'[c] = 0
          /\ completed'[Handle[c]] = completed[Handle[c]] + 1
          /\ pc[c] = "presync" /\ pc'[c] = "key" /\ off[c] <= size[c]
      BY <1>7 DEF PreSync, CountPass, Goto, HandleOK
    <2> QED
      BY <2>1
  <1>8. CASE MakeKey(c) \/ Poll(c) \/ ReadChunk(c)
    BY <1>8 DEF MakeKey, Poll, ReadChunk, Goto, progressVars, counterVars
  <1>9. CASE EndPass(c)
    <2>1. /\ UNCHANGED <<total, planned, written, size, off>>
          /\ completed'[Handle[c]] = completed[Handle[c]] + 1
          /\ pc[c] \in {"poll", "read"} /\ pc'[c] = "sync"
      BY <1>9 DEF EndPass, CountPass, Goto
    <2> QED
      BY <2>1
  <1>10. CASE Sync(c) \/ Truncate(c) \/ Scrub(c) \/ Unlink(c)
    BY <1>10 DEF Sync, AfterSync, Truncate, Scrub, Unlink, Goto, progressVars, counterVars
  <1> QED
    BY <1>1, <1>2, <1>3, <1>4, <1>5, <1>6, <1>7, <1>8, <1>9, <1>10 DEF Act

LEMMA WatchSnap ==
  ASSUME TypeOK, ProgressInv, Watch, NEW h \in Handles
  PROVE  SnapInv(h)'
  <1> USE DEF TypeOK, ProgressTypeOK, ProgressInv, SnapInv
  <1>1. PICK u \in Handles : UI(u)
    BY WatchedAssumption DEF Watch
  <1>2. CASE RequestCancel(u)
    BY <1>2 DEF RequestCancel, counterVars, snapVars
  <1>3. ASSUME NEW f \in Fields, SnapshotLoad(u, f) PROVE SnapInv(h)'
    <2>1. /\ UNCHANGED <<total, planned, written, completed>>
          /\ snap' = [snap EXCEPT ![u] = [snap[u] EXCEPT ![f] = Counter(u, f)]]
      BY <1>3 DEF SnapshotLoad, counterVars
    <2>2. Counter(u, f) = CASE f = "total" -> total[u] [] f = "written" -> written[u]
                            [] f = "completed" -> completed[u] [] f = "planned" -> planned[u]
      BY DEF Counter
    <2>3. CASE h = u
      <3>1. snap'[h] = [snap[h] EXCEPT ![f] = Counter(h, f)] /\ snap[h] \in [Fields -> Nat]
        BY <2>1, <2>3
      <3> QED
        BY <2>1, <2>2, <2>3, <3>1 DEF Fields
    <2>4. CASE h # u
      BY <2>1, <2>4
    <2> QED
      BY <2>3, <2>4
  <1> QED
    BY <1>1, <1>2, <1>3 DEF UI

LEMMA StepProgressInv ==
  ASSUME OneCallPerHandle, TypeOK, HandleOK, ProgressInv, [Next]_vars
  PROVE  ProgressInv'
  <1> USE OptionsAssumption DEF TypeOK, ProgressTypeOK, ProgressInv
  <1>1. CASE UNCHANGED vars \/ PowerLoss
    <2>1. UNCHANGED <<progressVars, size, off>>
      BY <1>1 DEF vars, callVars, PowerLoss
    <2>2. ASSUME NEW c \in Calls PROVE pc'[c] \in {pc[c], "dead"}
      BY <1>1 DEF vars, callVars, PowerLoss
    <2> QED
      BY <2>1, <2>2 DEF progressVars, counterVars, snapVars, CountInv, Announced, SnapInv, Opened
  <1>2. CASE Watch
    <2>1. UNCHANGED <<counterVars, callVars>>
      BY <1>2 DEF Watch, UI, RequestCancel, SnapshotLoad
    <2>2. \A c \in Calls : CountInv(c)'
      BY <2>1 DEF counterVars, callVars, CountInv
    <2>3. \A h \in Handles : Announced(h)'
      BY <2>1 DEF counterVars, Announced
    <2> QED
      BY <1>2, <2>2, <2>3, WatchSnap
  <1>3. ASSUME NEW d \in Calls, Act(d) PROVE ProgressInv'
    <2>1. \A h \in Handles : Advances(h) /\ (h # Handle[d] => Rests(h))
      BY <1>3, ActCounters
    <2>2. CountInv(d)' /\ Announced(Handle[d])'
      BY <1>3, OwnCounters
    <2>3. ASSUME NEW c \in Calls, c # d PROVE CountInv(c)'
      <3>1. Handle[c] # Handle[d] /\ Handle[c] \in Handles
        BY <2>3 DEF OneCallPerHandle
      <3>2. Rests(Handle[c]) /\ Untouched(c)
        BY <1>3, <2>1, <2>3, <3>1, ActOthers
      <3> QED
        BY <3>2 DEF CountInv, Rests, Untouched
    <2>4. ASSUME NEW h \in Handles PROVE Announced(h)' /\ SnapInv(h)'
      <3>1. Announced(h)'
        BY <2>1, <2>2 DEF Announced, Rests
      <3>2. SnapInv(h)'
        <4>1. snap'[h] = snap[h] /\ snap[h] \in [Fields -> Nat]
          BY <2>1 DEF Advances
        <4>2. snap[h]["written"] \in Nat /\ snap[h]["completed"] \in Nat
          BY <4>1 DEF Fields
        <4>3. written'[h] \in Nat /\ completed'[h] \in Nat
          BY StepTypeOK DEF TypeOK, ProgressTypeOK
        <4> QED
          BY <2>1, <4>1, <4>2, <4>3 DEF SnapInv, Advances
      <3> QED
        BY <3>1, <3>2
    <2> QED
      BY <2>2, <2>3, <2>4
  <1> QED
    BY <1>1, <1>2, <1>3, NextCases

(* A finished snapshot of a handle that is one call's own never shows more *)
(* than was announced, in whatever order its four loads are made.          *)
THEOREM SnapshotsMakeSense ==
  ASSUME OneCallPerHandle
  PROVE  Spec => []SnapshotCoherent
  <1>1. Init => ProgressInv
    <2> SUFFICES ASSUME Init PROVE ProgressInv
      OBVIOUS
    <2>1. ASSUME NEW c \in Calls PROVE CountInv(c)
      BY OptionsAssumption DEF Init, ProgressInit, CountInv, Opened
    <2>2. ASSUME NEW h \in Handles PROVE Announced(h) /\ SnapInv(h)
      BY DEF Init, ProgressInit, Announced, SnapInv, Fields
    <2> QED
      BY <2>1, <2>2 DEF ProgressInv
  <1>2. TypeOK /\ ProgressInv => SnapshotCoherent
    <2> SUFFICES ASSUME TypeOK, ProgressInv, NEW h \in Handles
                 PROVE  /\ snap[h]["planned"] > 0 => snap[h]["completed"] <= snap[h]["planned"]
                        /\ snap[h]["total"] > 0 => snap[h]["written"] <= snap[h]["total"]
      BY DEF SnapshotCoherent
    <2>1. /\ snap[h]["written"] \in Nat /\ snap[h]["completed"] \in Nat
          /\ total[h] \in Nat /\ written[h] \in Nat
          /\ planned[h] \in Nat /\ completed[h] \in Nat
      BY DEF TypeOK, ProgressTypeOK, Fields
    <2> QED
      BY <2>1 DEF ProgressInv, Announced, SnapInv
  <1>3. TypeOK /\ HandleOK /\ ProgressInv /\ [Next]_vars => ProgressInv'
    BY StepProgressInv
  <1> QED
    BY <1>1, <1>2, <1>3, TypeAndHandles, PTL DEF Spec
=============================================================================
