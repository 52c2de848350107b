------------------------- MODULE SecureDeleteProofs -------------------------
(***************************************************************************)
(* Proofs about SecureDelete!Spec for any number of calls, paths, inodes   *)
(* (hard links included), chunks and passes.                               *)
(***************************************************************************)
EXTENDS SecureDelete, TLAPS

(* The ways a step of Next can end a call early all have the effect of     *)
(* Return; every other step is one of the named ones.                      *)
Failures == {"error", "mismatch", "dead"}

Act(c) ==
  \/ \E o \in Failures : Return(c, o)
  \/ Admit(c) \/ OpenFile(c) \/ FlockTaken(c) \/ FlockRetry(c)
  \/ WriteChunk(c) \/ EndOverwrite(c) \/ Measure(c) \/ ReadChunk(c)
  \/ EndVerify(c) \/ Truncate(c) \/ Rename(c) \/ Unlink(c)

LEMMA NextCases ==
  ASSUME Next
  PROVE  PowerLoss \/ \E c \in Calls : Act(c)
  <1>1. ASSUME NEW c \in Calls,
               Refuse(c) \/ OpenRefused(c) \/ FlockGiveUp(c) \/ MeasureMismatch(c)
                 \/ ReadMismatch(c) \/ RenameFails(c) \/ Fault(c) \/ Kill(c)
        PROVE  \E o \in Failures : Return(c, o)
    BY <1>1, Zenon DEF Refuse, OpenRefused, FlockGiveUp, MeasureMismatch,
       ReadMismatch, RenameFails, Fault, Kill, Failures
  <1>2. QED
    BY <1>1, Zenon DEF Next, Step, Act

-----------------------------------------------------------------------------
(***************************************************************************)
(* Type correctness.                                                       *)
(***************************************************************************)

LEMMA PatternType == ASSUME NEW k PROVE Pattern(k) \in Patterns
  BY DEF Pattern, Patterns

LEMMA InitTypeOK == Init => TypeOK
  <1> SUFFICES ASSUME Init PROVE TypeOK
    OBVIOUS
  <1> USE FSAssumption, FlockAssumption, CallAssumption
  <1>1. FSTypeOK
    <2>1. PICK d \in [Paths -> (Inodes \ Spare) \cup {NoInode}] :
            dirent = [n \in Names |-> IF n \in Paths THEN d[n] ELSE NoInode]
      BY DEF Init, HandleInit, FSInit
    <2>2. dirent \in [Names -> Inodes \cup {NoInode}]
      BY <2>1
    <2>3. chunk \in [Inodes -> [Chunks -> Content]]
      BY DEF Init, HandleInit, FSInit, Content
    <2> QED
      BY <2>2, <2>3 DEF Init, HandleInit, FSInit, FSTypeOK
  <1>2. QED
    BY <1>1 DEF Init, HandleInit, TypeOK, Stages, Uses

(* A call that holds or awaits a flock has a handle on some inode, and a   *)
(* call about to unlink its random name has bound it.                      *)
HandleOK ==
  \A c \in Calls :
    /\ pc[c] \in Touching \cup {"flock"} => fd[c] \in Inodes
    /\ pc[c] = "unlink" => dirent[c] \in Inodes

LEMMA StepTypeOK ==
  ASSUME TypeOK, HandleOK, [Next]_vars
  PROVE  TypeOK'
  <1> USE FSAssumption, FlockAssumption, CallAssumption DEF TypeOK, FSTypeOK
  <1>1. CASE UNCHANGED vars
    BY <1>1 DEF vars, fsVars, callVars
  <1>2. CASE PowerLoss
    BY <1>2 DEF PowerLoss, LosePower, Stages, Done
  <1>3. ASSUME NEW c \in Calls, NEW o \in Failures, Return(c, o) PROVE TypeOK'
    BY <1>3 DEF Return, Leave, Goto, CloseHandle, DropLocks, Failures, Stages, Done
  <1>4. ASSUME NEW c \in Calls, Admit(c) PROVE TypeOK'
    BY <1>4 DEF Admit, NextPass, Reopen, Goto, fsVars, Stages, Uses, Destroyable,
       Resolve, Names
  <1>5. ASSUME NEW c \in Calls, OpenFile(c) PROVE TypeOK'
    BY <1>5 DEF OpenFile, HandleOpened, Openable, Goto, fsVars, Stages, Names
  <1>6. ASSUME NEW c \in Calls, FlockTaken(c) PROVE TypeOK'
    <2>1. StageOf(use[c]) \in Stages
      BY DEF StageOf, Stages, Touching, Uses
    <2>2. 0 \in 0..MaxLen
      OBVIOUS
    <2>3. off' \in [Calls -> 0..MaxLen] /\ pc' \in [Calls -> Stages]
      BY <1>6, <2>1, <2>2 DEF FlockTaken, HandleLocked, Goto
    <2>4. lock' \in [Inodes -> Calls \cup Writers \cup {NoOne}]
      BY <1>6 DEF FlockTaken, HandleLocked, TakeLock
    <2> QED
      BY <1>6, <2>3, <2>4 DEF FlockTaken, HandleLocked
  <1>7. ASSUME NEW c \in Calls, FlockRetry(c) PROVE TypeOK'
    BY <1>7 DEF FlockRetry, HandleRetries, fsVars
  <1>8. ASSUME NEW c \in Calls, WriteChunk(c) PROVE TypeOK'
    <2> DEFINE i == fd[c]
               b == off[c] + 1
    <2>1. b \in 0..MaxLen /\ b \in Chunks
      BY <1>8 DEF WriteChunk, Chunks
    <2>2. Pattern(pass[c]) \in Content
      BY PatternType DEF Content
    <2>3. chunk' = [chunk EXCEPT ![i] = [chunk[i] EXCEPT ![b] = Pattern(pass[c])]]
      BY <1>8 DEF WriteChunk, WriteAt
    <2>4. chunk' \in [Inodes -> [Chunks -> Content]]
      BY <2>1, <2>2, <2>3
    <2>5. len' \in [Inodes -> 0..MaxLen]
      BY <1>8, <2>1 DEF WriteChunk, WriteAt
    <2>6. off' \in [Calls -> 0..MaxLen]
      BY <1>8, <2>1 DEF WriteChunk
    <2> QED
      BY <1>8, <2>4, <2>5, <2>6 DEF WriteChunk
  <1>9. ASSUME NEW c \in Calls, EndOverwrite(c) PROVE TypeOK'
    <2>1. disk' \in [Inodes -> [Chunks -> Content]]
      BY <1>9 DEF EndOverwrite, SyncFile
    <2>2. /\ lock' \in [Inodes -> Calls \cup Writers \cup {NoOne}]
          /\ fd' \in [Calls -> Inodes \cup {NoInode}]
      BY <1>9 DEF EndOverwrite, CloseHandle, DropLocks
    <2>3. /\ pc' \in [Calls -> Stages]
          /\ use' \in [Calls -> Uses]
          /\ pass' \in [Calls -> Nat]
      <3>1. CASE ~Verify[c]
        <4>1. pass[c] + 1 \in Nat
          OBVIOUS
        <4>2. NextPass(c, pass[c] + 1)
          BY <1>9, <3>1 DEF EndOverwrite, AfterOverwrite
        <4> QED
          BY <4>1, <4>2 DEF NextPass, Reopen, Goto, Stages, Uses
      <3>2. CASE Verify[c] /\ Pattern(pass[c]) = "random"
        BY <1>9, <3>2 DEF EndOverwrite, AfterOverwrite, Goto, Stages
      <3>3. CASE Verify[c] /\ Pattern(pass[c]) # "random"
        BY <1>9, <3>3 DEF EndOverwrite, AfterOverwrite, Reopen, Goto, Stages, Uses
      <3> QED
        BY <3>1, <3>2, <3>3
    <2> QED
      BY <1>9, <2>1, <2>2, <2>3 DEF EndOverwrite
  <1>10. ASSUME NEW c \in Calls, Measure(c) PROVE TypeOK'
    BY <1>10 DEF Measure, NextPass, Reopen, Goto, fsVars, Stages, Uses
  <1>11. ASSUME NEW c \in Calls, ReadChunk(c) PROVE TypeOK'
    BY <1>11 DEF ReadChunk, fsVars
  <1>12. ASSUME NEW c \in Calls, EndVerify(c) PROVE TypeOK'
    BY <1>12 DEF EndVerify, CloseHandle, DropLocks, NextPass, Reopen, Goto, Stages,
       Uses
  <1>13. ASSUME NEW c \in Calls, Truncate(c) PROVE TypeOK'
    <2> DEFINE empty == [b \in Chunks |-> "none"]
    <2>1. empty \in [Chunks -> Content]
      BY DEF Content
    <2>2. chunk' = [chunk EXCEPT ![fd[c]] = empty] /\ disk' = [disk EXCEPT ![fd[c]] = empty]
      BY <1>13 DEF Truncate, TruncateFile
    <2>3. /\ chunk' \in [Inodes -> [Chunks -> Content]]
          /\ disk' \in [Inodes -> [Chunks -> Content]]
      BY <2>1, <2>2
    <2>4. len' \in [Inodes -> 0..MaxLen]
      <3>1. 0 \in 0..MaxLen
        OBVIOUS
      <3>2. len' = [len EXCEPT ![fd[c]] = 0]
        BY <1>13 DEF Truncate, TruncateFile
      <3> QED
        BY <3>1, <3>2
    <2>5. lost' \in SUBSET Inodes
      <3>1. fd[c] \in Inodes
        BY <1>13 DEF Truncate, HandleOK, Touching
      <3>2. lost' = lost \/ lost' = lost \cup {fd[c]}
        BY <1>13 DEF Truncate, TruncateFile
      <3> QED
        BY <3>1, <3>2
    <2>6. /\ lock' \in [Inodes -> Calls \cup Writers \cup {NoOne}]
          /\ fd' \in [Calls -> Inodes \cup {NoInode}]
          /\ pc' \in [Calls -> Stages]
      BY <1>13 DEF Truncate, CloseHandle, DropLocks, Goto, Stages
    <2> QED
      BY <1>13, <2>3, <2>4, <2>5, <2>6 DEF Truncate
  <1>14. ASSUME NEW c \in Calls, Rename(c) PROVE TypeOK'
    BY <1>14 DEF Rename, RenameEntry, Goto, Stages, Names
  <1>15. ASSUME NEW c \in Calls, Unlink(c) PROVE TypeOK'
    <2>1. dirent[c] \in Inodes
      BY <1>15 DEF Unlink, HandleOK
    <2>2. lost' = lost \/ lost' = lost \cup {dirent[c]}
      BY <1>15 DEF Unlink, UnlinkEntry
    <2>3. dirent' \in [Names -> Inodes \cup {NoInode}]
      BY <1>15 DEF Unlink, UnlinkEntry
    <2>4. pc' \in [Calls -> Stages]
      BY <1>15 DEF Unlink, Goto, Stages, Done
    <2> QED
      BY <1>15, <2>1, <2>2, <2>3, <2>4 DEF Unlink
  <1>16. QED
    BY <1>1, <1>2, <1>3, <1>4, <1>5, <1>6, <1>7, <1>8, <1>9, <1>10, <1>11, <1>12,
       <1>13, <1>14, <1>15, NextCases DEF Act

LEMMA InitHandleOK == Init => HandleOK
  BY DEF Init, HandleInit, HandleOK, Touching

LEMMA StepHandleOK ==
  ASSUME TypeOK, HandleOK, [Next]_vars
  PROVE  HandleOK'
  <1> USE FSAssumption, CallAssumption DEF TypeOK, FSTypeOK, HandleOK, Touching
  <1>1. CASE UNCHANGED vars
    BY <1>1 DEF vars, fsVars, callVars
  <1>2. CASE PowerLoss
    BY <1>2 DEF PowerLoss, LosePower, Running, Done
  <1>3. ASSUME NEW c \in Calls, NEW o \in Failures, Return(c, o) PROVE HandleOK'
    BY <1>3 DEF Return, Leave, Goto, CloseHandle, Failures
  <1>4. ASSUME NEW c \in Calls,
               Admit(c) \/ Measure(c) \/ EndVerify(c) \/ Truncate(c)
        PROVE  HandleOK'
    BY <1>4 DEF Admit, Measure, EndVerify, Truncate, CloseHandle, NextPass, Reopen,
       Goto, fsVars
  <1>5. ASSUME NEW c \in Calls, OpenFile(c) PROVE HandleOK'
    BY <1>5 DEF OpenFile, HandleOpened, Openable, Goto, fsVars, Names
  <1>6. ASSUME NEW c \in Calls, FlockTaken(c) PROVE HandleOK'
    BY <1>6 DEF FlockTaken, HandleLocked, Goto, StageOf
  <1>7. ASSUME NEW c \in Calls, FlockRetry(c) \/ WriteChunk(c) \/ ReadChunk(c) PROVE HandleOK'
    BY <1>7 DEF FlockRetry, HandleRetries, WriteChunk, ReadChunk, fsVars
  <1>8. ASSUME NEW c \in Calls, EndOverwrite(c) PROVE HandleOK'
    BY <1>8 DEF EndOverwrite, CloseHandle, AfterOverwrite, NextPass, Reopen, Goto
  <1>9. ASSUME NEW c \in Calls, Rename(c) PROVE HandleOK'
    BY <1>9 DEF Rename, RenameEntry, Goto, Names
  <1>10. ASSUME NEW c \in Calls, Unlink(c) PROVE HandleOK'
    BY <1>10 DEF Unlink, UnlinkEntry, Goto, Names
  <1>11. QED
    BY <1>1, <1>2, <1>3, <1>4, <1>5, <1>6, <1>7, <1>8, <1>9, <1>10, NextCases DEF
       Act

LEMMA TypeAndHandles == Spec => [](TypeOK /\ HandleOK)
  BY InitTypeOK, StepTypeOK, InitHandleOK, StepHandleOK, PTL DEF Spec

(* Every variable keeps its type in every behaviour of any set of calls.   *)
THEOREM TypeCorrect == Spec => []TypeOK
  BY TypeAndHandles, PTL

-----------------------------------------------------------------------------
(***************************************************************************)
(* The inductive invariant.                                                *)
(*                                                                         *)
(* Lengths and the page cache: user data seen through the cache is on the  *)
(* device too, and lies within the file.                                   *)
(***************************************************************************)
CacheInv == \A i \in Inodes, b \in Chunks : chunk[i][b] = "user" => disk[i][b] = "user"
LengthInv == \A i \in Inodes, b \in Chunks : disk[i][b] = "user" => b <= len[i]

(* The inodes a call works on: what its name is bound to and its handle.   *)
Mine(c) == {i \in Inodes : i = dirent[Request[c]] \/ i = fd[c]}

Clean(i) == \A b \in Chunks : disk[i][b] # "user"

(* At least one whole pass has been synced. *)
Wiped(c) ==
  \/ pc[c] \in {"measure", "read", "truncate", "rename", "unlink"}
  \/ pc[c] \in {"open", "flock", "write"} /\ (pass[c] > 0 \/ use[c] # "overwrite")

(* The handle is on the inode the name is still bound to, if on any. *)
HandleInv(c) ==
  /\ pc[c] \notin Touching \cup {"flock"} => fd[c] = NoInode
  /\ fd[c] \in Inodes => dirent[Request[c]] \in {fd[c], NoInode}

(* The size taken at the entry still covers all user data. *)
SizeInv(c) ==
  Running(c) => \A i \in Mine(c), b \in Chunks : disk[i][b] = "user" => b <= size[c]

(* What the current pass has written is gone from the cache. *)
WriteInv(c) ==
  pc[c] = "write" => \A b \in Chunks : b <= off[c] => chunk[fd[c]][b] # "user"

WipedInv(c) == Wiped(c) => \A i \in Mine(c) : Clean(i)

TempInv(c) == dirent[c] \in Inodes => Clean(dirent[c])

CallInv(c) == HandleInv(c) /\ SizeInv(c) /\ WriteInv(c) /\ WipedInv(c) /\ TempInv(c)

IInv ==
  /\ TypeOK
  /\ HandleOK
  /\ CacheInv
  /\ LengthInv
  /\ NoDataReleased
  /\ \A c \in Calls : CallInv(c)

(* What a step of call d leaves to the others: user data only ever shrinks,*)
(* a path only ever becomes unbound, and nothing else of theirs moves.     *)
Shrinks ==
  \A i \in Inodes, b \in Chunks :
    /\ disk'[i][b] = "user" => disk[i][b] = "user"
    /\ chunk'[i][b] = "user" => chunk[i][b] = "user"

PathsShrink == \A n \in Paths : dirent'[n] \in {dirent[n], NoInode}

Untouched(c) ==
  /\ pc'[c] = pc[c] /\ use'[c] = use[c] /\ size'[c] = size[c] /\ pass'[c] = pass[c]
  /\ off'[c] = off[c] /\ fd'[c] = fd[c] /\ dirent'[c] = dirent[c]

LEMMA ActShrinks ==
  ASSUME TypeOK, HandleOK, CacheInv, NEW d \in Calls, Act(d)
  PROVE  Shrinks
  <1> USE FSAssumption DEF TypeOK, FSTypeOK, Shrinks
  <1>1. CASE chunk' = chunk /\ disk' = disk
    BY <1>1
  <1>2. CASE WriteChunk(d)
    <2>1. Pattern(pass[d]) # "user"
      BY PatternType DEF Patterns
    <2>2. fd[d] \in Inodes
      BY <1>2 DEF WriteChunk, HandleOK, Touching
    <2>3. \A i \in Inodes, b \in Chunks :
            chunk'[i][b] = chunk[i][b] \/ chunk'[i][b] = Pattern(pass[d])
      BY <1>2, <2>2 DEF WriteChunk, WriteAt
    <2> QED
      BY <1>2, <2>1, <2>3 DEF WriteChunk
  <1>3. CASE EndOverwrite(d)
    BY <1>3 DEF EndOverwrite, SyncFile, CacheInv
  <1>4. CASE Truncate(d)
    BY <1>4 DEF Truncate, TruncateFile
  <1>5. CASE Rename(d) \/ Unlink(d)
    BY <1>5, <1>1 DEF Rename, Unlink
  <1>6. QED
    BY <1>1, <1>2, <1>3, <1>4, <1>5 DEF Act, Return, Leave, Admit, OpenFile,
       HandleOpened, FlockTaken, HandleLocked, FlockRetry, HandleRetries, Measure,
       ReadChunk, EndVerify, fsVars

LEMMA ActPaths ==
  ASSUME TypeOK, NEW d \in Calls, Act(d)
  PROVE  PathsShrink
  <1> USE FSAssumption, CallAssumption DEF TypeOK, FSTypeOK, PathsShrink, Names
  <1>1. CASE dirent' = dirent
    BY <1>1
  <1>2. CASE Rename(d)
    BY <1>2 DEF Rename, RenameEntry
  <1>3. CASE Unlink(d)
    BY <1>3 DEF Unlink, UnlinkEntry
  <1>4. QED
    BY <1>1, <1>2, <1>3 DEF Act, Return, Leave, Admit, OpenFile, HandleOpened,
       FlockTaken, HandleLocked, FlockRetry, HandleRetries, WriteChunk,
       EndOverwrite, Measure, ReadChunk, EndVerify, Truncate, fsVars

LEMMA ActOthers ==
  ASSUME TypeOK, NEW d \in Calls, Act(d), NEW c \in Calls, c # d
  PROVE  Untouched(c)
  <1> USE FSAssumption, CallAssumption DEF TypeOK, FSTypeOK, Untouched, Names
  <1>1. CASE \E o \in Failures : Return(d, o)
    BY <1>1 DEF Return, Leave, Goto, CloseHandle
  <1>2. CASE Admit(d) \/ OpenFile(d) \/ FlockTaken(d) \/ FlockRetry(d) \/ WriteChunk(d)
    BY <1>2 DEF Admit, OpenFile, HandleOpened, FlockTaken, HandleLocked, FlockRetry,
       HandleRetries, WriteChunk, NextPass, Reopen, Goto, fsVars
  <1>3. CASE EndOverwrite(d)
    BY <1>3 DEF EndOverwrite, CloseHandle, AfterOverwrite, NextPass, Reopen, Goto
  <1>4. CASE Measure(d) \/ ReadChunk(d) \/ EndVerify(d) \/ Truncate(d)
    BY <1>4 DEF Measure, ReadChunk, EndVerify, Truncate, CloseHandle, NextPass,
       Reopen, Goto, fsVars
  <1>5. CASE Rename(d) \/ Unlink(d)
    BY <1>5 DEF Rename, Unlink, RenameEntry, UnlinkEntry, Goto
  <1>6. QED
    BY <1>1, <1>2, <1>3, <1>4, <1>5 DEF Act

(* Under these three facts alone the invariant of another call survives.   *)
LEMMA OtherCallInv ==
  ASSUME TypeOK, HandleOK, Shrinks, PathsShrink, NEW c \in Calls, Untouched(c), CallInv(c)
  PROVE  CallInv(c)'
  <1> USE CallAssumption DEF Untouched, PathsShrink
  <1>1. Request[c] \in Paths
    OBVIOUS
  <1>2. HandleInv(c)'
    BY <1>1, FSAssumption DEF CallInv, HandleInv
  <1>3. Mine(c)' \subseteq Mine(c)
    BY <1>1, FSAssumption DEF Mine
  <1>4. \A i \in Inodes : Clean(i) => Clean(i)'
    BY DEF Clean, Shrinks
  <1>5. SizeInv(c)'
    BY <1>3 DEF CallInv, SizeInv, Running, Shrinks, Mine
  <1>6. WriteInv(c)'
    BY DEF CallInv, WriteInv, Shrinks, HandleOK, Touching
  <1>7. WipedInv(c)'
    <2>1. Wiped(c)' => Wiped(c)
      BY DEF Wiped
    <2> QED
      BY <2>1, <1>3, <1>4 DEF CallInv, WipedInv, Mine
  <1>8. TempInv(c)'
    BY <1>4 DEF CallInv, TempInv
  <1> QED
    BY <1>2, <1>5, <1>6, <1>7, <1>8 DEF CallInv

LEMMA ActData ==
  ASSUME TypeOK, HandleOK, CacheInv, LengthInv, NEW d \in Calls, Act(d)
  PROVE  CacheInv' /\ LengthInv'
  <1> USE FSAssumption DEF TypeOK, FSTypeOK, CacheInv, LengthInv
  <1>1. CASE chunk' = chunk /\ disk' = disk /\ len' = len
    BY <1>1
  <1>2. CASE WriteChunk(d)
    <2>1. fd[d] \in Inodes /\ disk' = disk
      BY <1>2 DEF WriteChunk, HandleOK, Touching
    <2>2. \A i \in Inodes : len[i] \in Int /\ len'[i] \in Int /\ len[i] <= len'[i]
      BY <1>2, <2>1 DEF WriteChunk, WriteAt
    <2>3. LengthInv'
      <3> SUFFICES ASSUME NEW i \in Inodes, NEW b \in Chunks, disk'[i][b] = "user"
                   PROVE  b <= len'[i]
        OBVIOUS
      <3>1. b <= len[i] /\ b \in Int
        BY <2>1 DEF Chunks
      <3> QED
        BY <2>2, <3>1
    <2>4. Shrinks
      BY <1>2, ActShrinks
    <2> QED
      BY <2>1, <2>3, <2>4 DEF Shrinks
  <1>3. CASE EndOverwrite(d)
    BY <1>3 DEF EndOverwrite, SyncFile
  <1>4. CASE Truncate(d)
    BY <1>4 DEF Truncate, TruncateFile
  <1>5. CASE Rename(d) \/ Unlink(d)
    BY <1>5, <1>1 DEF Rename, Unlink
  <1>6. QED
    BY <1>1, <1>2, <1>3, <1>4, <1>5 DEF Act, Return, Leave, Admit, OpenFile,
       HandleOpened, FlockTaken, HandleLocked, FlockRetry, HandleRetries, Measure,
       ReadChunk, EndVerify, fsVars

(* The blocks that Truncate and Unlink free are clean.                     *)
LEMMA ActReleased ==
  ASSUME TypeOK, HandleOK, NoDataReleased, NEW d \in Calls, CallInv(d), Act(d)
  PROVE  NoDataReleased'
  <1> USE DEF NoDataReleased
  <1>1. CASE lost' = lost
    BY <1>1
  <1>2. CASE Truncate(d)
    <2>1. fd[d] \in Inodes /\ Wiped(d)
      BY <1>2 DEF Truncate, HandleOK, Touching, Wiped
    <2>2. Held(fd[d]) = {}
      BY <2>1 DEF CallInv, WipedInv, Mine, Clean, Held
    <2> QED
      BY <1>2, <2>2 DEF Truncate, TruncateFile
  <1>3. CASE Unlink(d)
    <2>1. dirent[d] \in Inodes
      BY <1>3 DEF Unlink, HandleOK
    <2>2. Held(dirent[d]) = {}
      BY <2>1 DEF CallInv, TempInv, Clean, Held
    <2> QED
      BY <1>3, <2>2 DEF Unlink, UnlinkEntry
  <1>4. QED
    BY <1>1, <1>2, <1>3 DEF Act, Return, Leave, Admit, OpenFile, HandleOpened,
       FlockTaken, HandleLocked, FlockRetry, HandleRetries, WriteChunk,
       EndOverwrite, Measure, ReadChunk, EndVerify, Rename, fsVars

(* The steps that write nothing and bind nothing, for the call that takes  *)
(* them: it is enough that the name or the handle lead nowhere new.        *)
LEMMA OwnReturn ==
  ASSUME TypeOK, NEW c \in Calls, CallInv(c), NEW o \in Failures, Return(c, o)
  PROVE  CallInv(c)'
  BY FSAssumption DEF TypeOK, FSTypeOK, CallInv, HandleInv, SizeInv, WriteInv,
     WipedInv, TempInv, Running, Wiped, Clean, Return, Leave, Goto, CloseHandle,
     Failures, Done, Touching

LEMMA OwnAdmit ==
  ASSUME TypeOK, LengthInv, NEW c \in Calls, CallInv(c), Admit(c)
  PROVE  CallInv(c)'
  <1> USE FSAssumption, CallAssumption DEF TypeOK, FSTypeOK
  <1>1. /\ UNCHANGED <<fsVars, off, fd>> /\ pc'[c] = "open" /\ pass'[c] = 0
        /\ use'[c] = "overwrite" /\ pc[c] = "idle" /\ fd[c] = NoInode
        /\ size'[c] = len[dirent[Request[c]]]
    <2>1. NextPass(c, 0) /\ 0 < Passes[c] /\ pc[c] = "idle"
      <3>1. Passes[c] \in Nat \ {0}
        OBVIOUS
      <3>2. NextPass(c, 0) /\ pc[c] = "idle"
        BY Zenon DEF Admit
      <3> QED
        BY <3>1, <3>2
    <2>2. pc'[c] = "open" /\ pass'[c] = 0 /\ use'[c] = "overwrite"
      BY <2>1 DEF NextPass, Reopen, Goto
    <2>3. fd[c] = NoInode
      BY <2>1 DEF CallInv, HandleInv, Touching
    <2>4. size'[c] = len[dirent[Request[c]]]
      <3>1. size' = [size EXCEPT ![c] = len[dirent[Request[c]]]]
        BY Zenon DEF Admit
      <3> QED
        BY <3>1
    <2>5. UNCHANGED <<fsVars, off, fd>>
      BY DEF Admit, fsVars
    <2> QED
      BY <2>1, <2>2, <2>3, <2>4, <2>5
  <1>2. Mine(c)' = Mine(c) /\ \A i \in Mine(c) : i = dirent[Request[c]]
    BY <1>1 DEF Mine, fsVars
  <1>3. SizeInv(c)'
    BY <1>1, <1>2 DEF SizeInv, LengthInv, fsVars, Mine
  <1>4. HandleInv(c)' /\ WriteInv(c)' /\ TempInv(c)'
    BY <1>1 DEF CallInv, HandleInv, WriteInv, TempInv, Clean, fsVars, Touching
  <1>5. WipedInv(c)'
    BY <1>1 DEF WipedInv, Wiped
  <1> QED
    BY <1>3, <1>4, <1>5 DEF CallInv

LEMMA OwnOpen ==
  ASSUME TypeOK, NEW c \in Calls, CallInv(c), OpenFile(c)
  PROVE  CallInv(c)'
  <1> USE FSAssumption, CallAssumption DEF TypeOK, FSTypeOK
  <1>1. /\ UNCHANGED <<fsVars, use, size, pass, off>> /\ pc[c] = "open" /\ pc'[c] = "flock"
        /\ fd'[c] = dirent[Request[c]] /\ dirent[Request[c]] \in Inodes
    BY DEF OpenFile, HandleOpened, Openable, Goto, Names
  <1>2. Mine(c)' \subseteq Mine(c)
    BY <1>1 DEF Mine, fsVars
  <1>3. SizeInv(c)' /\ WipedInv(c)'
    BY <1>1, <1>2 DEF CallInv, SizeInv, WipedInv, Wiped, Running, Done, Clean,
       fsVars
  <1>4. HandleInv(c)' /\ WriteInv(c)' /\ TempInv(c)'
    BY <1>1 DEF CallInv, HandleInv, WriteInv, TempInv, Clean, fsVars
  <1> QED
    BY <1>3, <1>4 DEF CallInv

LEMMA OwnFlock ==
  ASSUME TypeOK, NEW c \in Calls, CallInv(c), FlockTaken(c) \/ FlockRetry(c)
  PROVE  CallInv(c)'
  <1> USE FSAssumption, CallAssumption DEF TypeOK, FSTypeOK
  <1>1. CASE FlockRetry(c)
    BY <1>1 DEF FlockRetry, HandleRetries, CallInv, HandleInv, SizeInv, WriteInv,
       WipedInv, TempInv, Running, Wiped, Clean, Mine, fsVars
  <1>2. CASE FlockTaken(c)
    <2>1. /\ UNCHANGED <<dirent, chunk, disk, use, size, pass, fd>> /\ pc[c] = "flock"
          /\ pc'[c] = StageOf(use[c]) /\ off'[c] = 0
      BY <1>2 DEF FlockTaken, HandleLocked, Goto
    <2>2. Mine(c)' = Mine(c)
      BY <2>1 DEF Mine
    <2>3. pc'[c] \in Touching /\ (pc'[c] = "write" <=> use[c] = "overwrite")
      BY <2>1 DEF StageOf, Touching, Uses
    <2>4. Wiped(c)' => Wiped(c)
      BY <2>1, <2>3 DEF Wiped, Touching
    <2>5. HandleInv(c)' /\ SizeInv(c)' /\ WipedInv(c)' /\ TempInv(c)'
      BY <2>1, <2>2, <2>3, <2>4 DEF CallInv, HandleInv, SizeInv, WipedInv, TempInv,
         Running, Clean, Done, Touching
    <2>6. WriteInv(c)'
      BY <2>1 DEF WriteInv, Chunks
    <2> QED
      BY <2>5, <2>6 DEF CallInv
  <1> QED
    BY <1>1, <1>2

LEMMA OwnWrite ==
  ASSUME TypeOK, HandleOK, CacheInv, NEW c \in Calls, CallInv(c), WriteChunk(c)
  PROVE  CallInv(c)'
  <1> USE FSAssumption, CallAssumption DEF TypeOK, FSTypeOK
  <1>1. /\ UNCHANGED <<dirent, disk, pc, use, size, pass, fd>>
        /\ pc[c] = "write" /\ off'[c] = off[c] + 1 /\ off[c] + 1 \in Chunks
        /\ fd[c] \in Inodes
    BY DEF WriteChunk, HandleOK, Touching, Chunks
  <1>2. Mine(c)' = Mine(c) /\ (Wiped(c)' <=> Wiped(c))
    BY <1>1 DEF Mine, Wiped
  <1>3. HandleInv(c)' /\ SizeInv(c)' /\ WipedInv(c)' /\ TempInv(c)'
    BY <1>1, <1>2 DEF CallInv, HandleInv, SizeInv, WipedInv, TempInv, Running, Clean
  <1>4. WriteInv(c)'
    <2> SUFFICES ASSUME NEW b \in Chunks, b <= off[c] + 1
                 PROVE  chunk'[fd[c]][b] # "user"
      BY <1>1 DEF WriteInv
    <2>1. chunk'[fd[c]] = [chunk[fd[c]] EXCEPT ![off[c] + 1] = Pattern(pass[c])]
      BY <1>1 DEF WriteChunk, WriteAt
    <2>2. CASE b = off[c] + 1
      BY <1>1, <2>1, <2>2, PatternType DEF Patterns
    <2>3. CASE b # off[c] + 1
      <3>1. b <= off[c]
        BY <2>3 DEF Chunks
      <3>2. chunk[fd[c]][b] # "user"
        BY <1>1, <3>1 DEF CallInv, WriteInv
      <3> QED
        BY <1>1, <2>1, <2>3, <3>2
    <2> QED
      BY <2>2, <2>3
  <1> QED
    BY <1>3, <1>4 DEF CallInv

(* The step that matters: with every chunk of the statted size written and *)
(* the file synced, no user data is left on the device.                    *)
LEMMA OwnEndOverwrite ==
  ASSUME TypeOK, HandleOK, CacheInv, NEW c \in Calls, CallInv(c), EndOverwrite(c)
  PROVE  CallInv(c)'
  <1> USE FSAssumption, CallAssumption DEF TypeOK, FSTypeOK
  <1>1. /\ pc[c] = "write" /\ off[c] = size[c] /\ fd[c] \in Inodes
        /\ UNCHANGED <<dirent, chunk, size, off>>
        /\ disk' = [disk EXCEPT ![fd[c]] = chunk[fd[c]]]
        /\ fd'[c] = NoInode
    BY DEF EndOverwrite, SyncFile, CloseHandle, HandleOK, Touching
  <1>2. pc'[c] \in {"measure", "open"}
    BY DEF EndOverwrite, AfterOverwrite, NextPass, Reopen, Goto
  <1>3. \A b \in Chunks : chunk[fd[c]][b] # "user"
    <2> SUFFICES ASSUME NEW b \in Chunks, chunk[fd[c]][b] = "user" PROVE FALSE
      OBVIOUS
    <2>1. disk[fd[c]][b] = "user"
      BY <1>1 DEF CacheInv
    <2>2. b <= size[c]
      BY <1>1, <2>1 DEF CallInv, SizeInv, Running, Mine, Done
    <2>3. b > off[c]
      BY <1>1 DEF CallInv, WriteInv, Chunks
    <2> QED
      BY <1>1, <2>2, <2>3 DEF Chunks
  <1>4. \A b \in Chunks : disk'[fd[c]][b] # "user"
    BY <1>1, <1>3
  <1>5. \A i \in Mine(c)' : i = fd[c]
    BY <1>1 DEF Mine, CallInv, HandleInv
  <1>6. HandleInv(c)' /\ WriteInv(c)'
    BY <1>1, <1>2 DEF HandleInv, WriteInv, Touching
  <1>7. SizeInv(c)' /\ WipedInv(c)'
    <2>1. \A i \in Mine(c)', b \in Chunks : disk'[i][b] # "user"
      BY <1>4, <1>5
    <2> QED
      BY <2>1 DEF SizeInv, WipedInv, Clean
  <1>8. TempInv(c)'
    <2>1. \A i \in Inodes : Clean(i) => Clean(i)'
      BY <1>1, <1>4 DEF Clean
    <2> QED
      BY <1>1, <2>1 DEF CallInv, TempInv
  <1> QED
    BY <1>6, <1>7, <1>8 DEF CallInv

LEMMA OwnVerify ==
  ASSUME TypeOK, NEW c \in Calls, CallInv(c), Measure(c) \/ ReadChunk(c) \/ EndVerify(c)
  PROVE  CallInv(c)'
  <1> USE FSAssumption, CallAssumption DEF TypeOK, FSTypeOK
  <1>1. /\ UNCHANGED <<dirent, chunk, disk, size>>
        /\ pc[c] \in {"measure", "read"} /\ fd'[c] \in {fd[c], NoInode}
        /\ pc'[c] \in {"open", "read"}
        /\ pc'[c] = "open" => fd'[c] = NoInode
    BY DEF Measure, ReadChunk, EndVerify, CloseHandle, NextPass, Reopen, Goto,
       fsVars, CallInv, HandleInv, Touching
  <1>2. Mine(c)' \subseteq Mine(c)
    BY <1>1 DEF Mine
  <1>3. SizeInv(c)' /\ WipedInv(c)'
    BY <1>1, <1>2 DEF CallInv, SizeInv, WipedInv, Wiped, Running, Done, Clean
  <1>4. HandleInv(c)' /\ WriteInv(c)' /\ TempInv(c)'
    BY <1>1 DEF CallInv, HandleInv, WriteInv, TempInv, Clean, Touching
  <1> QED
    BY <1>3, <1>4 DEF CallInv

LEMMA OwnTruncate ==
  ASSUME TypeOK, HandleOK, CacheInv, NEW c \in Calls, CallInv(c), Truncate(c)
  PROVE  CallInv(c)'
  <1> USE FSAssumption, CallAssumption DEF TypeOK, FSTypeOK
  <1>1. /\ UNCHANGED <<dirent, size>> /\ pc[c] = "truncate" /\ pc'[c] = "rename"
        /\ fd'[c] = NoInode
    BY DEF Truncate, CloseHandle, Goto
  <1>2. Shrinks
    BY ActShrinks DEF Act
  <1>3. Mine(c)' \subseteq Mine(c)
    BY <1>1 DEF Mine
  <1>4. \A i \in Inodes : Clean(i) => Clean(i)'
    BY <1>2 DEF Clean, Shrinks
  <1>5. \A i \in Mine(c)' : Clean(i)'
    BY <1>1, <1>3, <1>4 DEF CallInv, WipedInv, Wiped, Mine
  <1>6. SizeInv(c)' /\ WipedInv(c)'
    BY <1>5 DEF SizeInv, WipedInv, Clean
  <1>7. HandleInv(c)' /\ WriteInv(c)' /\ TempInv(c)'
    BY <1>1, <1>4 DEF CallInv, HandleInv, WriteInv, TempInv, Touching
  <1> QED
    BY <1>6, <1>7 DEF CallInv

LEMMA OwnNames ==
  ASSUME TypeOK, NEW c \in Calls, CallInv(c), Rename(c) \/ Unlink(c)
  PROVE  CallInv(c)'
  <1> USE FSAssumption, CallAssumption DEF TypeOK, FSTypeOK, Names
  <1>1. /\ UNCHANGED <<chunk, disk, size, fd>> /\ Wiped(c)
        /\ pc[c] \in {"rename", "unlink"} /\ pc'[c] \in {"unlink", "ok"}
        /\ fd[c] = NoInode
    BY DEF Rename, Unlink, Goto, Wiped, CallInv, HandleInv, Touching
  <1>2. dirent'[Request[c]] \in {dirent[Request[c]], NoInode}
    BY DEF Rename, RenameEntry, Unlink, UnlinkEntry
  <1>3. dirent'[c] \in {dirent[Request[c]], NoInode}
    BY DEF Rename, RenameEntry, Unlink, UnlinkEntry
  <1>4. Mine(c)' \subseteq Mine(c)
    BY <1>1, <1>2 DEF Mine
  <1>5. \A i \in Mine(c) : Clean(i)'
    BY <1>1 DEF CallInv, WipedInv, Clean, Mine
  <1>6. SizeInv(c)' /\ WipedInv(c)'
    BY <1>4, <1>5 DEF SizeInv, WipedInv, Clean
  <1>7. TempInv(c)'
    BY <1>3, <1>5 DEF TempInv, Mine
  <1>8. HandleInv(c)' /\ WriteInv(c)'
    BY <1>1 DEF HandleInv, WriteInv, Touching
  <1> QED
    BY <1>6, <1>7, <1>8 DEF CallInv

-----------------------------------------------------------------------------
(***************************************************************************)
(* The inductive invariant holds.                                          *)
(***************************************************************************)
LEMMA InitIInv == Init => IInv
  <1> SUFFICES ASSUME Init PROVE IInv
    OBVIOUS
  <1> USE FSAssumption, CallAssumption
  <1>1. TypeOK /\ HandleOK
    BY InitTypeOK, InitHandleOK
  <1>2. CacheInv /\ LengthInv /\ NoDataReleased
    BY DEF Init, HandleInit, FSInit, CacheInv, LengthInv, NoDataReleased
  <1>3. ASSUME NEW c \in Calls PROVE CallInv(c)
    <2>1. pc[c] = "idle" /\ fd[c] = NoInode /\ dirent[c] = NoInode
      BY DEF Init, HandleInit, FSInit, Names
    <2> QED
      BY <2>1 DEF CallInv, HandleInv, SizeInv, WriteInv, WipedInv, TempInv, Running,
         Wiped, Touching
  <1> QED
    BY <1>1, <1>2, <1>3 DEF IInv

(* After a power loss the page cache is what the device holds and no call  *)
(* runs.                                                                   *)
LEMMA PowerLossIInv == ASSUME IInv, PowerLoss PROVE IInv'
  <1> USE FSAssumption, CallAssumption
  <1>1. TypeOK' /\ HandleOK'
    BY StepTypeOK, StepHandleOK DEF IInv, Next
  <1>2. CacheInv' /\ LengthInv' /\ NoDataReleased'
    BY DEF IInv, PowerLoss, LosePower, CacheInv, LengthInv, NoDataReleased
  <1>3. ASSUME NEW c \in Calls PROVE CallInv(c)'
    <2>1. /\ UNCHANGED <<dirent, disk>> /\ fd'[c] = NoInode
          /\ pc'[c] \in Done \cup {"idle"}
      BY DEF PowerLoss, LosePower, IInv, TypeOK, Running, Done
    <2>2. TempInv(c)'
      BY <2>1 DEF IInv, CallInv, TempInv, Clean
    <2> QED
      BY <2>1, <2>2 DEF CallInv, HandleInv, SizeInv, WriteInv, WipedInv, Running,
         Wiped, Done
  <1> QED
    BY <1>1, <1>2, <1>3 DEF IInv

LEMMA ActIInv == ASSUME IInv, NEW d \in Calls, Act(d), Next PROVE IInv'
  <1>1. TypeOK' /\ HandleOK'
    BY StepTypeOK, StepHandleOK DEF IInv
  <1>2. CacheInv' /\ LengthInv' /\ NoDataReleased'
    BY ActData, ActReleased DEF IInv
  <1>3. CallInv(d)'
    BY OwnReturn, OwnAdmit, OwnOpen, OwnFlock, OwnWrite, OwnEndOverwrite, OwnVerify,
       OwnTruncate, OwnNames DEF Act, IInv
  <1>4. ASSUME NEW c \in Calls, c # d PROVE CallInv(c)'
    <2>1. Shrinks /\ PathsShrink /\ Untouched(c)
      BY <1>4, ActShrinks, ActPaths, ActOthers DEF IInv
    <2> QED
      BY <2>1, OtherCallInv DEF IInv
  <1> QED
    BY <1>1, <1>2, <1>3, <1>4 DEF IInv

LEMMA StutterIInv == ASSUME IInv, UNCHANGED vars PROVE IInv'
  <1> USE DEF vars, fsVars, callVars
  <1>1. TypeOK' /\ HandleOK'
    BY StepTypeOK, StepHandleOK DEF IInv
  <1>2. CacheInv' /\ LengthInv' /\ NoDataReleased'
    BY DEF IInv, CacheInv, LengthInv, NoDataReleased
  <1>3. ASSUME NEW c \in Calls PROVE CallInv(c)'
    BY DEF IInv, CallInv, HandleInv, SizeInv, WriteInv, WipedInv, TempInv, Running,
       Wiped, Mine, Clean
  <1> QED
    BY <1>1, <1>2, <1>3 DEF IInv

LEMMA Inductive == Spec => []IInv
  <1>1. ASSUME IInv, [Next]_vars PROVE IInv'
    BY <1>1, NextCases, PowerLossIInv, ActIInv, StutterIInv
  <1> QED
    BY <1>1, InitIInv, PTL DEF Spec

(* However many calls run, however they interleave, fail and die, no block *)
(* goes back to the free pool with user data in it.                        *)
THEOREM DataNeverReleased == Spec => []NoDataReleased
  <1>1. IInv => NoDataReleased
    BY DEF IInv
  <1> QED
    BY <1>1, Inductive, PTL

-----------------------------------------------------------------------------
(***************************************************************************)
(* Mutual exclusion of the handles.                                        *)
(***************************************************************************)
Locked(c) == pc[c] \in Touching => lock[fd[c]] = c

LEMMA StepLocked ==
  ASSUME TypeOK, HandleOK, \A c \in Calls : Locked(c), [Next]_vars, NEW c \in Calls
  PROVE  Locked(c)'
  <1> USE FSAssumption, CallAssumption DEF TypeOK, FSTypeOK, Locked, Touching
  <1>1. CASE UNCHANGED vars
    BY <1>1 DEF vars, fsVars, callVars
  <1>2. CASE PowerLoss
    BY <1>2 DEF PowerLoss, LosePower, Running, Done
  <1>3. ASSUME NEW d \in Calls, Act(d), d # c PROVE Locked(c)'
    <2>1. pc'[c] = pc[c] /\ fd'[c] = fd[c]
      BY <1>3, ActOthers DEF Untouched
    <2>2. SUFFICES ASSUME pc[c] \in Touching PROVE lock'[fd[c]] = c
      BY <2>1
    <2>3. fd[c] \in Inodes /\ lock[fd[c]] = c
      BY <2>2 DEF HandleOK
    <2>4. CASE lock' = lock
      BY <2>3, <2>4
    <2>5. CASE DropLocks(d)
      BY <1>3, <2>3, <2>5 DEF DropLocks
    <2>6. CASE FlockTaken(d)
      BY <2>3, <2>6 DEF FlockTaken, HandleLocked, FlockFree, LockFree, TakeLock,
         HandleOK
    <2>7. QED
      BY <1>3, <2>4, <2>5, <2>6 DEF Act, Return, Leave, Admit, OpenFile,
         HandleOpened, FlockRetry, HandleRetries, WriteChunk, EndOverwrite, Measure,
         ReadChunk, EndVerify, Truncate, Rename, Unlink, CloseHandle, fsVars
  <1>4. CASE Act(c)
    <2>1. CASE FlockTaken(c)
      BY <2>1 DEF FlockTaken, HandleLocked, TakeLock, Goto, HandleOK
    <2>2. CASE WriteChunk(c) \/ ReadChunk(c)
      BY <2>2 DEF WriteChunk, ReadChunk, fsVars
    <2>3. CASE EndOverwrite(c)
      BY <2>3 DEF EndOverwrite, AfterOverwrite, NextPass, Reopen, Goto
    <2>4. CASE \E o \in Failures : Return(c, o)
      BY <2>4 DEF Return, Leave, Goto, Failures
    <2>5. CASE Admit(c) \/ OpenFile(c) \/ FlockRetry(c)
      BY <2>5 DEF Admit, OpenFile, HandleOpened, FlockRetry, HandleRetries,
         NextPass, Reopen, Goto
    <2>6. CASE Measure(c) \/ EndVerify(c) \/ Truncate(c) \/ Rename(c) \/ Unlink(c)
      BY <2>6 DEF Measure, EndVerify, Truncate, Rename, Unlink, NextPass, Reopen,
         Goto
    <2>7. QED
      BY <1>4, <2>1, <2>2, <2>3, <2>4, <2>5, <2>6 DEF Act
  <1>5. QED
    BY <1>1, <1>2, <1>3, <1>4, NextCases

(* No two calls ever write, read back or truncate one file at a time.      *)
THEOREM ExclusiveHandles == Spec => []LockedWhileTouching
  <1> DEFINE AllLocked == \A c \in Calls : Locked(c)
  <1>1. Init => AllLocked
    BY DEF Init, HandleInit, Locked, Touching
  <1>2. TypeOK /\ HandleOK /\ AllLocked /\ [Next]_vars => AllLocked'
    BY StepLocked
  <1>3. HandleOK /\ AllLocked => LockedWhileTouching
    BY DEF HandleOK, Locked, LockedWhileTouching
  <1> HIDE DEF AllLocked
  <1> QED
    BY <1>1, <1>2, <1>3, TypeAndHandles, PTL DEF Spec

-----------------------------------------------------------------------------
(***************************************************************************)
(* What Ok(()) means.                                                      *)
(***************************************************************************)
Gone(c) ==
  /\ pc[c] \in {"unlink", "ok"} => dirent[Request[c]] = NoInode
  /\ pc[c] = "ok" => dirent[c] = NoInode

LEMMA StepGone ==
  ASSUME TypeOK, NEW c \in Calls, Gone(c), [Next]_vars
  PROVE  Gone(c)'
  <1> USE FSAssumption, CallAssumption DEF TypeOK, FSTypeOK, Gone, Names
  <1>1. CASE UNCHANGED vars
    BY <1>1 DEF vars, fsVars, callVars
  <1>2. CASE PowerLoss
    BY <1>2 DEF PowerLoss, LosePower, Running, Done
  <1>3. ASSUME NEW d \in Calls, Act(d), d # c PROVE Gone(c)'
    <2>1. Request[c] \in Paths
      OBVIOUS
    <2>2. PathsShrink /\ Untouched(c)
      BY <1>3, ActPaths, ActOthers
    <2> QED
      BY <2>1, <2>2 DEF PathsShrink, Untouched
  <1>4. CASE Rename(c) \/ Unlink(c)
    BY <1>4 DEF Rename, RenameEntry, Unlink, UnlinkEntry, Goto
  <1>5. CASE Act(c) /\ ~Rename(c) /\ ~Unlink(c)
    <2>1. pc'[c] \notin {"unlink", "ok"}
      <3>1. CASE \E o \in Failures : Return(c, o)
        BY <3>1 DEF Return, Leave, Goto, Failures
      <3>2. CASE Admit(c) \/ OpenFile(c) \/ FlockRetry(c) \/ WriteChunk(c) \/ ReadChunk(c)
        BY <3>2 DEF Admit, OpenFile, HandleOpened, FlockRetry, HandleRetries,
           WriteChunk, ReadChunk, NextPass, Reopen, Goto
      <3>3. CASE EndOverwrite(c)
        BY <3>3 DEF EndOverwrite, AfterOverwrite, NextPass, Reopen, Goto
      <3>4. CASE Measure(c) \/ EndVerify(c) \/ Truncate(c)
        BY <3>4 DEF Measure, EndVerify, Truncate, NextPass, Reopen, Goto
      <3>5. CASE FlockTaken(c)
        BY <3>5 DEF FlockTaken, HandleLocked, Goto, StageOf
      <3> QED
        BY <1>5, <3>1, <3>2, <3>3, <3>4, <3>5 DEF Act
    <2> QED
      BY <2>1
  <1>6. QED
    BY <1>1, <1>2, <1>3, <1>4, <1>5, NextCases

(* A call that reported success has removed the path and left no random    *)
(* name behind, whatever the other calls were doing to the same path.      *)
THEOREM SuccessMeansGone == Spec => []OkMeansGone
  <1> DEFINE AllGone == \A c \in Calls : Gone(c)
  <1>1. Init => AllGone
    BY DEF Init, HandleInit, Gone
  <1>2. TypeOK /\ AllGone /\ [Next]_vars => AllGone'
    BY StepGone
  <1>3. AllGone => OkMeansGone
    BY DEF Gone, OkMeansGone
  <1> HIDE DEF AllGone
  <1> QED
    BY <1>1, <1>2, <1>3, TypeCorrect, PTL DEF Spec

-----------------------------------------------------------------------------
(***************************************************************************)
(* Steps as the user sees them.                                            *)
(***************************************************************************)
(* A step moves no path, or it is the renaming of a clean file.            *)
LEMMA PathStep ==
  ASSUME IInv, [Next]_vars
  PROVE  \/ \A n \in Paths : dirent'[n] = dirent[n]
         \/ \E c \in Calls :
              /\ dirent[Request[c]] \in Inodes
              /\ Clean(dirent[Request[c]])
              /\ \A n \in Paths : dirent'[n] = IF n = Request[c] THEN NoInode ELSE dirent[n]
              /\ UNCHANGED disk
  <1> USE FSAssumption, CallAssumption DEF IInv, TypeOK, FSTypeOK, Names
  <1>1. CASE dirent' = dirent
    BY <1>1
  <1>2. ASSUME NEW c \in Calls, Rename(c)
        PROVE  /\ dirent[Request[c]] \in Inodes
               /\ Clean(dirent[Request[c]])
               /\ \A n \in Paths : dirent'[n] = IF n = Request[c] THEN NoInode ELSE dirent[n]
               /\ UNCHANGED disk
    <2>1. dirent[Request[c]] \in Inodes /\ Wiped(c)
      BY <1>2 DEF Rename, Wiped
    <2>2. Clean(dirent[Request[c]])
      BY <2>1 DEF CallInv, WipedInv, Mine
    <2> QED
      BY <1>2, <2>1, <2>2 DEF Rename, RenameEntry
  <1>3. ASSUME NEW c \in Calls, Unlink(c) PROVE \A n \in Paths : dirent'[n] = dirent[n]
    BY <1>3 DEF Unlink, UnlinkEntry
  <1>4. CASE PowerLoss \/ UNCHANGED vars
    BY <1>4, <1>1 DEF PowerLoss, LosePower, vars, fsVars
  <1>5. ASSUME NEW c \in Calls, Act(c), ~Rename(c), ~Unlink(c) PROVE dirent' = dirent
    BY <1>5 DEF Act, Return, Leave, Admit, OpenFile, HandleOpened, FlockTaken,
       HandleLocked, FlockRetry, HandleRetries, WriteChunk, EndOverwrite, Measure,
       ReadChunk, EndVerify, Truncate, fsVars
  <1>6. QED
    BY <1>1, <1>2, <1>3, <1>4, <1>5, NextCases

(* A file with user data on the device never loses its last known name.    *)
THEOREM NoOrphans == Spec => NeverOrphansData
  <1>1. ASSUME IInv, [Next]_vars
        PROVE  [\A i \in Inodes : Named(i) /\ (Held(i) # {})' => Named(i)']_vars
    <2> SUFFICES ASSUME NEW i \in Inodes, Named(i), (Held(i) # {})' PROVE Named(i)'
      OBVIOUS
    <2>1. CASE \A n \in Paths : dirent'[n] = dirent[n]
      BY <2>1 DEF Named
    <2>2. ASSUME NEW c \in Calls,
                 Clean(dirent[Request[c]]),
                 \A n \in Paths : dirent'[n] = IF n = Request[c] THEN NoInode ELSE dirent[n],
                 UNCHANGED disk
          PROVE  Named(i)'
      <3>1. i # dirent[Request[c]]
        BY <2>2 DEF Clean, Held
      <3> QED
        BY <2>2, <3>1 DEF Named
    <2> QED
      BY <1>1, <2>1, <2>2, PathStep
  <1> QED
    BY <1>1, Inductive, PTL DEF Spec, NeverOrphansData

-----------------------------------------------------------------------------
(***************************************************************************)
(* Refinement: held user data shrinks on one inode at a time, and only     *)
(* while no name moves.                                                    *)
(***************************************************************************)
HeldMap == [i \in Inodes |-> Held(i)]
NamedSet == {i \in Inodes : Named(i)}

LEMMA HeldStep ==
  ASSUME IInv, [Next]_vars
  PROVE  \/ disk' = disk
         \/ \E j \in Inodes :
              /\ \A i \in Inodes \ {j} : Held(i)' = Held(i)
              /\ Held(j)' \in SUBSET Held(j)
              /\ dirent' = dirent
  <1> USE FSAssumption, CallAssumption DEF IInv, TypeOK, FSTypeOK
  <1>1. ASSUME NEW c \in Calls, EndOverwrite(c) \/ Truncate(c)
        PROVE  \E j \in Inodes :
                 /\ \A i \in Inodes \ {j} : Held(i)' = Held(i)
                 /\ Held(j)' \in SUBSET Held(j)
                 /\ dirent' = dirent
    <2>1. PICK j \in Inodes : j = fd[c]
      BY <1>1 DEF EndOverwrite, Truncate, HandleOK, Touching
    <2>2. dirent' = dirent /\ \A i \in Inodes \ {j} : disk'[i] = disk[i]
      BY <1>1, <2>1 DEF EndOverwrite, Truncate, SyncFile, TruncateFile
    <2>3. Shrinks
      BY <1>1, ActShrinks DEF Act
    <2>4. Held(j)' \subseteq Held(j)
      BY <2>3 DEF Held, Shrinks
    <2>5. \A i \in Inodes \ {j} : Held(i)' = Held(i)
      BY <2>2 DEF Held
    <2> QED
      BY <2>2, <2>4, <2>5
  <1>2. CASE PowerLoss \/ UNCHANGED vars
    BY <1>2 DEF PowerLoss, LosePower, vars, fsVars
  <1>3. ASSUME NEW c \in Calls, Act(c), ~EndOverwrite(c), ~Truncate(c) PROVE disk' = disk
    BY <1>3 DEF Act, Return, Leave, Admit, OpenFile, HandleOpened, FlockTaken,
       HandleLocked, FlockRetry, HandleRetries, WriteChunk, Measure, ReadChunk,
       EndVerify, Rename, Unlink, fsVars
  <1>4. QED
    BY <1>1, <1>2, <1>3, NextCases

LEMMA NamedStep ==
  ASSUME IInv, [Next]_vars, disk' = disk
  PROVE  \/ NamedSet' = NamedSet
         \/ \E j \in Inodes : Held(j) = {} /\ NamedSet' = NamedSet \ {j}
  <1>1. CASE \A n \in Paths : dirent'[n] = dirent[n]
    <2>1. \A i \in Inodes : Named(i)' <=> Named(i)
      BY <1>1 DEF Named
    <2> QED
      BY <2>1 DEF NamedSet
  <1>2. ASSUME NEW c \in Calls,
               dirent[Request[c]] \in Inodes,
               Clean(dirent[Request[c]]),
               \A n \in Paths : dirent'[n] = IF n = Request[c] THEN NoInode ELSE dirent[n]
        PROVE  \E j \in Inodes :
                 Held(j) = {} /\ (NamedSet' = NamedSet \/ NamedSet' = NamedSet \ {j})
    <2>1. PICK j \in Inodes : j = dirent[Request[c]]
      BY <1>2
    <2>2. Held(j) = {}
      BY <1>2, <2>1 DEF Clean, Held
    <2>3. \A i \in Inodes \ {j} : Named(i)' <=> Named(i)
      BY <1>2, <2>1, FSAssumption DEF Named
    <2>4. Named(j)
      BY <2>1, CallAssumption DEF Named
    <2>5. CASE Named(j)'
      BY <2>2, <2>3, <2>4, <2>5 DEF NamedSet
    <2>6. CASE ~Named(j)'
      BY <2>2, <2>3, <2>6 DEF NamedSet
    <2> QED
      BY <2>5, <2>6
  <1>3. QED
    BY <1>1, <1>2, PathStep

LEMMA InitPromise == Init => Promise!Init
  <1> SUFFICES ASSUME Init PROVE Promise!Init
    OBVIOUS
  <1>1. lost = {}
    BY DEF Init, HandleInit, FSInit
  <1>2. HeldMap \in [Inodes -> SUBSET Chunks]
    BY DEF HeldMap, Held
  <1> QED
    BY <1>1, <1>2 DEF Promise!Init, HeldMap

LEMMA StepPromise ==
  ASSUME IInv, IInv', [Next]_vars
  PROVE  [Promise!Next]_<<HeldMap, NamedSet, lost>>
  <1>1. lost' = lost
    BY DEF IInv, NoDataReleased
  <1>2. CASE disk' = disk
    <2>1. HeldMap' = HeldMap
      BY <1>2 DEF HeldMap, Held
    <2>2. ASSUME NEW j \in Inodes, Held(j) = {}, NamedSet' = NamedSet \ {j}
          PROVE  Promise!Forget(j)
      <3>1. HeldMap[j] = {}
        BY <2>2 DEF HeldMap
      <3> QED
        BY <1>1, <2>1, <2>2, <3>1 DEF Promise!Forget, HeldMap, NamedSet
    <2> QED
      BY <1>1, <1>2, <2>1, <2>2, NamedStep DEF Promise!Next
  <1>3. ASSUME NEW j \in Inodes,
               \A i \in Inodes \ {j} : Held(i)' = Held(i),
               Held(j)' \in SUBSET Held(j),
               dirent' = dirent
        PROVE  Promise!Overwrite(j)
    <2>1. NamedSet' = NamedSet
      BY <1>3 DEF NamedSet, Named
    <2>2. PICK rest \in SUBSET HeldMap[j] : rest = Held(j)'
      BY <1>3 DEF HeldMap
    <2>3. HeldMap' = [HeldMap EXCEPT ![j] = rest]
      BY <1>3, <2>2 DEF HeldMap
    <2> QED
      BY <1>1, <2>1, <2>2, <2>3 DEF Promise!Overwrite, HeldMap, NamedSet
  <1>4. QED
    BY <1>2, <1>3, HeldStep DEF Promise!Next

(* For any set of calls, every step is an overwriting of user data in place *)
(* or the loss of a clean file's name, as the abstract module promises.    *)
THEOREM Refinement == Spec => ImplementsErasure
  <1>1. IInv /\ IInv' /\ [Next]_vars => [Promise!Next]_<<HeldMap, NamedSet, lost>>
    BY StepPromise
  <1> QED
    BY <1>1, InitPromise, Inductive, PTL DEF Spec, ImplementsErasure, Promise!Spec,
       HeldMap, NamedSet
-----------------------------------------------------------------------------
(***************************************************************************)
(* Among other programs.                                                   *)
(***************************************************************************)
LEMMA EnvironmentTypeOK ==
  ASSUME TypeOK, Environment
  PROVE  TypeOK'
  <1> USE FSAssumption, CallAssumption DEF TypeOK, FSTypeOK, Names
  <1>1. ASSUME NEW w \in Writers, NEW i \in Inodes, WriterAppend(w, i) PROVE TypeOK'
    <2>1. len[i] + 1 \in Chunks /\ len[i] + 1 \in 0..MaxLen
      BY <1>1 DEF WriterAppend, Chunks
    <2>2. /\ chunk' = [chunk EXCEPT ![i] = [chunk[i] EXCEPT ![len[i] + 1] = "user"]]
          /\ disk' = [disk EXCEPT ![i] = [disk[i] EXCEPT ![len[i] + 1] = "user"]]
      BY <1>1 DEF WriterAppend, WriteAt
    <2>3. /\ chunk' \in [Inodes -> [Chunks -> Content]]
          /\ disk' \in [Inodes -> [Chunks -> Content]]
      BY <2>1, <2>2 DEF Content
    <2>4. len' \in [Inodes -> 0..MaxLen]
      BY <1>1, <2>1 DEF WriterAppend, WriteAt
    <2> QED
      BY <1>1, <2>3, <2>4 DEF WriterAppend, Environment, callVars
  <1>2. ASSUME NEW w \in Writers, NEW n \in Paths, WriterLock(w, n) PROVE TypeOK'
    BY <1>2 DEF WriterLock, TakeLock, Environment, callVars
  <1>3. ASSUME NEW w \in Writers, WriterUnlock(w) PROVE TypeOK'
    BY <1>3 DEF WriterUnlock, DropLocks, Environment, callVars
  <1>4. ASSUME NEW n \in Paths, NEW j \in Spare, Rotate(n, j) PROVE TypeOK'
    BY <1>4 DEF Rotate, Environment, callVars
  <1> QED
    BY <1>1, <1>2, <1>3, <1>4 DEF Environment

(* Other programs run no call, touch no random name and take no lock that  *)
(* a call holds.                                                           *)
LEMMA EnvironmentQuiet ==
  ASSUME TypeOK, Environment
  PROVE  /\ UNCHANGED callVars
         /\ \A c \in Calls : dirent'[c] = dirent[c]
         /\ \A i \in Inodes, c \in Calls : lock[i] = c => lock'[i] = c
  <1> USE FSAssumption, CallAssumption DEF TypeOK, FSTypeOK, Names
  <1>1. UNCHANGED callVars
    BY DEF Environment
  <1>2. ASSUME NEW w \in Writers, NEW n \in Paths, WriterLock(w, n)
        PROVE  dirent' = dirent /\ \A i \in Inodes, c \in Calls : lock[i] = c => lock'[i] = c
    BY <1>2 DEF WriterLock, LockFree, TakeLock
  <1>3. ASSUME NEW w \in Writers, WriterUnlock(w)
        PROVE  dirent' = dirent /\ \A i \in Inodes, c \in Calls : lock[i] = c => lock'[i] = c
    BY <1>3 DEF WriterUnlock, DropLocks
  <1>4. ASSUME NEW n \in Paths, NEW j \in Spare, Rotate(n, j)
        PROVE  lock' = lock /\ \A c \in Calls : dirent'[c] = dirent[c]
    BY <1>4 DEF Rotate
  <1> QED
    BY <1>1, <1>2, <1>3, <1>4 DEF Environment, WriterAppend

OpenInv == TypeOK /\ HandleOK /\ \A c \in Calls : Locked(c)

LEMMA OpenInductive == OpenSpec => []OpenInv
  <1>1. Init => OpenInv
    <2>1. Init => \A c \in Calls : Locked(c)
      BY DEF Init, HandleInit, Locked, Touching
    <2> QED
      BY <2>1, InitTypeOK, InitHandleOK DEF OpenInv
  <1>2. ASSUME OpenInv, [OpenNext]_vars PROVE OpenInv'
    <2>1. CASE [Next]_vars
      BY <1>2, <2>1, StepTypeOK, StepHandleOK, StepLocked DEF OpenInv
    <2>2. CASE Environment
      <3>1. TypeOK'
        BY <1>2, <2>2, EnvironmentTypeOK DEF OpenInv
      <3>2. /\ UNCHANGED <<pc, fd>>
            /\ \A c \in Calls : dirent'[c] = dirent[c]
            /\ \A i \in Inodes, c \in Calls : lock[i] = c => lock'[i] = c
        BY <1>2, <2>2, EnvironmentQuiet DEF OpenInv, callVars
      <3>3. HandleOK' /\ \A c \in Calls : Locked(c)'
        BY <1>2, <3>2 DEF OpenInv, HandleOK, Locked
      <3> QED
        BY <3>1, <3>3 DEF OpenInv
    <2> QED
      BY <1>2, <2>1, <2>2 DEF OpenNext
  <1> QED
    BY <1>1, <1>2, PTL DEF OpenSpec

(* Writers that honour flock and a rotator that swaps files do not get a   *)
(* call to touch a file without the lock on it.                            *)
THEOREM OpenExclusiveHandles == OpenSpec => []LockedWhileTouching
  <1>1. OpenInv => LockedWhileTouching
    BY DEF OpenInv, HandleOK, Locked, LockedWhileTouching
  <1> QED
    BY <1>1, OpenInductive, PTL

(* A hard link of a requested file is overwritten with it, so the theorem  *)
(* is about files that start with one name each.                           *)
NoHardLinks ==
  \A n, m \in Paths : dirent[n] \in Inodes /\ dirent[n] = dirent[m] => n = m

OneName ==
  \A n, m \in Names : dirent[n] \in Inodes /\ dirent[n] = dirent[m] => n = m

Bystanders == Paths \ Requested

(* No handle is on a bystander's file, and its data is on the device.      *)
Apart ==
  \A n \in Bystanders : dirent[n] \in Inodes =>
    /\ \A c \in Calls : fd[c] # dirent[n]
    /\ chunk[dirent[n]] = disk[dirent[n]]

(* Until the one rotation, nobody has come across a spare inode.           *)
SpareUnused ==
  dirent[Attic] = NoInode =>
    \A j \in Spare :
      /\ \A n \in Names : dirent[n] # j
      /\ \A c \in Calls : fd[c] # j
      /\ chunk[j] = disk[j]

ApartInv == OneName /\ Apart /\ SpareUnused

(* A call changes no inode but the one it has a handle on, and takes its   *)
(* handle from the name it was given.                                      *)
LEMMA ActElsewhere ==
  ASSUME TypeOK, HandleOK, NEW d \in Calls, Act(d)
  PROVE  /\ \A i \in Inodes : i # fd[d] =>
              chunk'[i] = chunk[i] /\ disk'[i] = disk[i] /\ len'[i] = len[i]
         /\ \A c \in Calls : fd'[c] \in {fd[c], NoInode, dirent[Request[c]]}
  <1> USE DEF TypeOK, FSTypeOK
  <1>1. ASSUME NEW i \in Inodes, i # fd[d]
        PROVE  chunk'[i] = chunk[i] /\ disk'[i] = disk[i] /\ len'[i] = len[i]
    <2>1. CASE WriteChunk(d)
      BY <1>1, <2>1 DEF WriteChunk, WriteAt
    <2>2. CASE EndOverwrite(d)
      BY <1>1, <2>2 DEF EndOverwrite, SyncFile
    <2>3. CASE Truncate(d)
      BY <1>1, <2>3 DEF Truncate, TruncateFile
    <2>4. CASE UNCHANGED <<chunk, disk, len>>
      BY <2>4
    <2> QED
      BY <2>1, <2>2, <2>3, <2>4 DEF Act, Return, Leave, Admit, OpenFile, HandleOpened,
         FlockTaken, HandleLocked, FlockRetry, HandleRetries, Measure, ReadChunk, EndVerify,
         Rename, Unlink, fsVars
  <1>2. ASSUME NEW c \in Calls PROVE fd'[c] \in {fd[c], NoInode, dirent[Request[c]]}
    <2>1. c # d => fd'[c] = fd[c]
      BY ActOthers DEF Untouched
    <2>2. CASE OpenFile(d)
      BY <2>1, <2>2 DEF OpenFile, HandleOpened
    <2>3. CASE fd' = fd
      BY <2>3
    <2>4. CASE fd' = [fd EXCEPT ![d] = NoInode]
      BY <2>4
    <2> QED
      BY <2>2, <2>3, <2>4 DEF Act, Return, Leave, Admit, FlockTaken, HandleLocked, FlockRetry,
         HandleRetries, WriteChunk, EndOverwrite, Measure, ReadChunk, EndVerify, Truncate,
         Rename, Unlink, CloseHandle
  <1> QED
    BY <1>1, <1>2

(* It moves no name but the one it was given and its random one.           *)
LEMMA ActNames ==
  ASSUME TypeOK, NEW d \in Calls, Act(d)
  PROVE  \/ dirent' = dirent
         \/ dirent' = [dirent EXCEPT ![d] = dirent[Request[d]], ![Request[d]] = NoInode]
         \/ dirent' = [dirent EXCEPT ![d] = NoInode]
  BY DEF Act, Return, Leave, Admit, OpenFile, HandleOpened, FlockTaken, HandleLocked,
     FlockRetry, HandleRetries, WriteChunk, EndOverwrite, Measure, ReadChunk, EndVerify,
     Truncate, Rename, RenameEntry, Unlink, UnlinkEntry, fsVars

LEMMA BystanderNames ==
  ASSUME TypeOK, NEW d \in Calls, Act(d)
  PROVE  \A n \in Bystanders \cup {Attic} : dirent'[n] = dirent[n]
  <1> USE FSAssumption, CallAssumption DEF TypeOK, FSTypeOK, Names
  <1> SUFFICES ASSUME NEW n \in Bystanders \cup {Attic} PROVE dirent'[n] = dirent[n]
    OBVIOUS
  <1>1. n \in Names /\ n # d /\ n # Request[d]
    BY DEF Bystanders, Requested
  <1>2. CASE dirent' = [dirent EXCEPT ![d] = dirent[Request[d]], ![Request[d]] = NoInode]
    BY <1>1, <1>2
  <1>3. CASE dirent' = [dirent EXCEPT ![d] = NoInode]
    BY <1>1, <1>3
  <1> QED
    BY <1>2, <1>3, ActNames

LEMMA ActApart ==
  ASSUME TypeOK, HandleOK, ApartInv, NEW d \in Calls, Act(d)
  PROVE  ApartInv'
  <1> USE FSAssumption, CallAssumption DEF TypeOK, FSTypeOK, Names
  <1>1. /\ \A i \in Inodes : i # fd[d] =>
              chunk'[i] = chunk[i] /\ disk'[i] = disk[i] /\ len'[i] = len[i]
        /\ \A c \in Calls : fd'[c] \in {fd[c], NoInode, dirent[Request[c]]}
    BY ActElsewhere
  <1>2. \A n \in Names : n # d => dirent'[n] \in {dirent[n], NoInode}
    BY ActNames
  <1>3. dirent'[d] \in {dirent[d], NoInode, dirent[Request[d]]}
    BY ActNames
  <1>4. \A n \in Bystanders \cup {Attic} : dirent'[n] = dirent[n]
    BY BystanderNames
  <1>5. OneName'
    <2>1. CASE dirent' = dirent
      BY <2>1 DEF ApartInv, OneName
    <2>2. CASE dirent' = [dirent EXCEPT ![d] = NoInode]
      BY <2>2 DEF ApartInv, OneName
    <2>3. CASE dirent' = [dirent EXCEPT ![d] = dirent[Request[d]], ![Request[d]] = NoInode]
      <3>1. Request[d] \in Names /\ d \in Names /\ Request[d] # d
        OBVIOUS
      <3>2. /\ dirent'[d] = dirent[Request[d]] /\ dirent'[Request[d]] = NoInode
            /\ \A n \in Names \ {d, Request[d]} : dirent'[n] = dirent[n]
        BY <2>3, <3>1
      <3> QED
        <4> SUFFICES ASSUME NEW n \in Names, NEW m \in Names,
                            dirent'[n] \in Inodes, dirent'[n] = dirent'[m]
                     PROVE  n = m
          BY DEF OneName
        <4>1. n # Request[d] /\ m # Request[d]
          BY <3>2
        <4>2. \A k, l \in Names : dirent[k] \in Inodes /\ dirent[k] = dirent[l] => k = l
          BY DEF ApartInv, OneName
        <4>3. CASE n = d /\ m # d
          BY <3>1, <3>2, <4>1, <4>2, <4>3
        <4>4. CASE n # d /\ m = d
          BY <3>1, <3>2, <4>1, <4>2, <4>4
        <4>5. CASE n # d /\ m # d
          BY <3>2, <4>1, <4>2, <4>5
        <4> QED
          BY <4>3, <4>4, <4>5
    <2> QED
      BY <2>1, <2>2, <2>3, ActNames
  <1>6. Apart'
    <2> SUFFICES ASSUME NEW n \in Bystanders, dirent[n] \in Inodes
                 PROVE  /\ \A c \in Calls : fd'[c] # dirent[n]
                        /\ chunk'[dirent[n]] = disk'[dirent[n]]
      BY <1>4 DEF Apart
    <2>1. (\A c \in Calls : fd[c] # dirent[n]) /\ chunk[dirent[n]] = disk[dirent[n]]
      BY DEF ApartInv, Apart
    <2>2. \A c \in Calls : n # Request[c] /\ n \in Names /\ Request[c] \in Names
      BY DEF Bystanders, Requested
    <2>3. \A c \in Calls : dirent[Request[c]] # dirent[n]
      BY <2>2 DEF ApartInv, OneName
    <2> QED
      BY <1>1, <2>1, <2>3
  <1>7. SpareUnused'
    <2> SUFFICES ASSUME dirent[Attic] = NoInode, NEW j \in Spare
                 PROVE  /\ \A n \in Names : dirent'[n] # j
                        /\ \A c \in Calls : fd'[c] # j
                        /\ chunk'[j] = disk'[j]
      BY <1>4 DEF SpareUnused
    <2>1. /\ \A n \in Names : dirent[n] # j
          /\ \A c \in Calls : fd[c] # j
          /\ chunk[j] = disk[j]
      BY DEF ApartInv, SpareUnused
    <2>2. j \in Inodes /\ \A c \in Calls : Request[c] \in Names
      OBVIOUS
    <2> QED
      BY <1>1, <1>2, <1>3, <2>1, <2>2
  <1> QED
    BY <1>5, <1>6, <1>7 DEF ApartInv

LEMMA EnvironmentApart ==
  ASSUME TypeOK, ApartInv, Environment
  PROVE  ApartInv'
  <1> USE FSAssumption, CallAssumption DEF TypeOK, FSTypeOK, Names
  <1>1. fd' = fd
    BY EnvironmentQuiet DEF callVars
  <1>2. ASSUME dirent' = dirent, \A i \in Inodes : chunk[i] = disk[i] => chunk'[i] = disk'[i]
        PROVE  ApartInv'
    BY <1>1, <1>2 DEF ApartInv, OneName, Apart, SpareUnused
  <1>3. ASSUME NEW w \in Writers, NEW i \in Inodes, WriterAppend(w, i) PROVE ApartInv'
    <2>1. len[i] + 1 \in Chunks
      BY <1>3 DEF WriterAppend, Chunks
    <2>2. \A j \in Inodes : chunk[j] = disk[j] => chunk'[j] = disk'[j]
      BY <1>3, <2>1 DEF WriterAppend, WriteAt
    <2> QED
      BY <1>2, <1>3, <2>2 DEF WriterAppend
  <1>4. ASSUME NEW n \in Paths, NEW j \in Spare, Rotate(n, j) PROVE ApartInv'
    <2>1. /\ dirent[Attic] = NoInode /\ dirent[n] \in Inodes /\ j \in Inodes
          /\ dirent' = [dirent EXCEPT ![Attic] = dirent[n], ![n] = j]
          /\ UNCHANGED <<chunk, disk>>
      BY <1>4 DEF Rotate
    <2>2. /\ \A m \in Names : dirent[m] # j
          /\ \A c \in Calls : fd[c] # j
          /\ chunk[j] = disk[j]
      BY <2>1 DEF ApartInv, SpareUnused
    <2>3. dirent'[Attic] = dirent[n] /\ dirent'[n] = j
          /\ \A m \in Names \ {Attic, n} : dirent'[m] = dirent[m]
      BY <2>1
    <2>4. OneName'
      BY <2>1, <2>2, <2>3 DEF ApartInv, OneName
    <2>5. Apart'
      BY <1>1, <2>1, <2>2, <2>3 DEF ApartInv, Apart, Bystanders
    <2>6. SpareUnused'
      BY <2>1, <2>3 DEF SpareUnused
    <2> QED
      BY <2>4, <2>5, <2>6 DEF ApartInv
  <1>5. CASE UNCHANGED <<dirent, chunk, disk>>
    BY <1>2, <1>5
  <1> QED
    BY <1>3, <1>4, <1>5 DEF Environment, WriterLock, WriterUnlock

(* The file at a path that no call was given is never overwritten,         *)
(* truncated or unlinked by one, whatever is put under the requested name. *)
THEOREM BystandersUntouched == OpenSpec /\ NoHardLinks => BystanderUntouched
  <1> USE FSAssumption, CallAssumption
  <1>1. Init /\ NoHardLinks => ApartInv
    <2> SUFFICES ASSUME Init, NoHardLinks PROVE ApartInv
      OBVIOUS
    <2>1. PICK p \in [Paths -> (Inodes \ Spare) \cup {NoInode}] :
            dirent = [n \in Names |-> IF n \in Paths THEN p[n] ELSE NoInode]
      BY DEF Init, HandleInit, FSInit
    <2>2. chunk = disk /\ \A c \in Calls : fd[c] = NoInode
      BY DEF Init, FSInit, HandleInit
    <2>3. OneName
      BY <2>1 DEF NoHardLinks, OneName
    <2>4. \A n \in Names : dirent[n] \notin Spare
      BY <2>1
    <2> QED
      BY <2>2, <2>3, <2>4 DEF ApartInv, Apart, SpareUnused
  <1>2. ASSUME OpenInv, ApartInv, [OpenNext]_vars PROVE ApartInv'
    <2>1. CASE UNCHANGED vars
      BY <1>2, <2>1 DEF vars, fsVars, callVars, ApartInv, OneName, Apart, SpareUnused
    <2>2. CASE PowerLoss
      <3>1. UNCHANGED <<dirent, disk>> /\ chunk' = disk /\ \A c \in Calls : fd'[c] = NoInode
        BY <2>2 DEF PowerLoss, LosePower
      <3> QED
        BY <1>2, <3>1 DEF ApartInv, OneName, Apart, SpareUnused
    <2>3. ASSUME NEW d \in Calls, Act(d) PROVE ApartInv'
      BY <1>2, <2>3, ActApart DEF OpenInv
    <2>4. CASE Environment
      BY <1>2, <2>4, EnvironmentApart DEF OpenInv
    <2> QED
      BY <1>2, <2>1, <2>2, <2>3, <2>4, NextCases DEF OpenNext
  <1>3. ASSUME OpenInv, ApartInv, Next, NEW n \in Paths \ Requested
        PROVE  /\ dirent'[n] = dirent[n]
               /\ dirent[n] \in Inodes =>
                    chunk'[dirent[n]] = chunk[dirent[n]] /\ len'[dirent[n]] = len[dirent[n]]
    <2>1. CASE PowerLoss
      BY <1>3, <2>1 DEF PowerLoss, LosePower, ApartInv, Apart, Bystanders
    <2>2. ASSUME NEW d \in Calls, Act(d)
          PROVE  /\ dirent'[n] = dirent[n]
                 /\ dirent[n] \in Inodes =>
                      chunk'[dirent[n]] = chunk[dirent[n]] /\ len'[dirent[n]] = len[dirent[n]]
      <3>1. dirent'[n] = dirent[n]
        BY <1>3, <2>2, BystanderNames DEF OpenInv, Bystanders
      <3>2. dirent[n] \in Inodes => fd[d] # dirent[n]
        BY <1>3 DEF ApartInv, Apart, Bystanders
      <3> QED
        BY <1>3, <2>2, <3>1, <3>2, ActElsewhere DEF OpenInv
    <2> QED
      BY <1>3, <2>1, <2>2, NextCases
  <1>4. OpenInv /\ ApartInv /\ [OpenNext]_vars =>
          (Next => \A n \in Paths \ Requested :
             /\ dirent'[n] = dirent[n]
             /\ dirent[n] \in Inodes =>
                  chunk'[dirent[n]] = chunk[dirent[n]] /\ len'[dirent[n]] = len[dirent[n]])
    BY <1>3
  <1> QED
    BY <1>1, <1>2, <1>4, OpenInductive, PTL DEF OpenSpec, BystanderUntouched
=============================================================================
