--------------------------- MODULE ShredderProofs ---------------------------
(***************************************************************************)
(* Proofs about Shredder!Spec for any number of calls, paths, inodes (hard *)
(* links included) and chunks, and for every algorithm; and about          *)
(* ShredderOpen!OpenSpec, the same calls among writers, a rotator and a    *)
(* program that ignores flock, for any number of each.                     *)
(***************************************************************************)
EXTENDS ShredderOpen, SequenceTheorems, TLAPS

(***************************************************************************)
(* The algorithms.                                                         *)
(***************************************************************************)
PassKinds == {"Fixed", "FixedVerified", "Random", "RandomVerified", "CryptoErase"}

LEMMA PatternsFacts ==
  ASSUME NEW a \in Algorithms
  PROVE  /\ Len(PatternsOf(a)) \in Nat \ {0}
         /\ \A k \in 1..Len(PatternsOf(a)) :
              /\ PatternsOf(a)[k].kind \in PassKinds
              /\ PatternsOf(a)[k].byte \in Patterns
  <1> USE DEF PassKinds, Patterns, Fixed, FixedVerified, Random, RandomVerified, CryptoErase
  <1>1. CASE a = "ZeroFill"
    <2>1. PatternsOf(a) = <<Fixed("zeros")>>
      BY <1>1 DEF PatternsOf
    <2> QED
      BY <2>1
  <1>2. CASE a = "Nist80088"
    <2>1. PatternsOf(a) = <<Fixed("zeros"), Fixed("ones"), Random>>
      BY <1>2 DEF PatternsOf
    <2> QED
      BY <2>1
  <1>3. CASE a = "Dod522022M"
    <2>1. PatternsOf(a) = <<FixedVerified("zeros"), FixedVerified("ones"), RandomVerified>>
      BY <1>3 DEF PatternsOf
    <2> QED
      BY <2>1
  <1>4. CASE a = "Gutmann35"
    <2> DEFINE g == [k \in 1..35 |-> IF k \in 5..31 THEN Fixed("other") ELSE Random]
    <2>1. PatternsOf(a) = g
      BY <1>4 DEF PatternsOf
    <2>2. Len(g) = 35
      OBVIOUS
    <2>3. \A k \in 1..35 : g[k] \in {Fixed("other"), Random}
      OBVIOUS
    <2> HIDE DEF g
    <2> QED
      BY <2>1, <2>2, <2>3
  <1>5. CASE a = "CryptographicErasure"
    <2>1. PatternsOf(a) = <<CryptoErase>>
      BY <1>5 DEF PatternsOf
    <2> QED
      BY <2>1
  <1>6. CASE a = "RandomPasses"
    <2> DEFINE r == [k \in 1..Rounds |-> Random]
    <2>1. PatternsOf(a) = r
      BY <1>6 DEF PatternsOf
    <2>2. Len(r) = Rounds
      BY ShredAssumption
    <2>3. \A k \in 1..Rounds : r[k] = Random
      OBVIOUS
    <2> HIDE DEF r
    <2> QED
      BY <2>1, <2>2, <2>3, ShredAssumption
  <1> QED
    BY <1>1, <1>2, <1>3, <1>4, <1>5, <1>6 DEF Algorithms

(* A pass starts by writing, and what it reads back is what it wrote last. *)
GoodPass(s) ==
  /\ Len(s) \in Nat \ {0}
  /\ s[1].act = "write"
  /\ \A k \in 1..Len(s) : s[k].act \in {"write", "strict", "report"} /\ s[k].byte \in Patterns
  /\ \A k \in 1..Len(s) : k > 1 /\ s[k].act # "write" => s[k].byte = s[k - 1].byte

LEMMA Concatenations ==
  ASSUME NEW x, NEW y, NEW z
  PROVE  /\ <<x>> \o <<y>> = <<x, y>> /\ <<x, y>> \o <<z>> = <<x, y, z>>
         /\ <<x>> \o <<>> = <<x>> /\ <<x, y>> \o <<>> = <<x, y>>
  <1> DEFINE S == {x, y, z}
  <1>1. <<x>> \in Seq(S) /\ <<y>> \in Seq(S) /\ <<z>> \in Seq(S) /\ <<x, y>> \in Seq(S)
        /\ <<x, y, z>> \in Seq(S)
    OBVIOUS
  <1> HIDE DEF S
  <1>2. <<x>> \o <<y>> = <<x, y>>
    <2> DEFINE t == <<x>> \o <<y>>
    <2>1. t \in Seq(S) /\ Len(t) = 2 /\ \A i \in 1..2 : t[i] = IF i <= 1 THEN <<x>>[i] ELSE <<y>>[i - 1]
      BY <1>1, ConcatProperties
    <2>2. \A i \in 1..2 : t[i] = <<x, y>>[i]
      BY <2>1
    <2> HIDE DEF t
    <2>3. t = <<x, y>>
      BY <1>1, <2>1, <2>2, SeqEqual
    <2> QED
      BY <2>3 DEF t
  <1>3. <<x, y>> \o <<z>> = <<x, y, z>>
    <2> DEFINE t == <<x, y>> \o <<z>>
    <2>1. t \in Seq(S) /\ Len(t) = 3
          /\ \A i \in 1..3 : t[i] = IF i <= 2 THEN <<x, y>>[i] ELSE <<z>>[i - 2]
      BY <1>1, ConcatProperties
    <2>2. \A i \in 1..3 : t[i] = <<x, y, z>>[i]
      BY <2>1
    <2> HIDE DEF t
    <2>3. t = <<x, y, z>>
      BY <1>1, <2>1, <2>2, SeqEqual
    <2> QED
      BY <2>3 DEF t
  <1> QED
    BY <1>1, <1>2, <1>3, ConcatEmptySeq

LEMMA SweepsFacts ==
  ASSUME NEW c \in Calls, NEW k \in 1..Len(PatternsOf(Algorithm[c]))
  PROVE  GoodPass(Sweeps(c, k))
  <1> DEFINE p == PatternsOf(Algorithm[c])[k]
             b == p.byte
  <1>1. p.kind \in PassKinds /\ b \in Patterns
    BY PatternsFacts, ShredAssumption
  <1>2. "random" \in Patterns /\ "zeros" \in Patterns
    BY DEF Patterns
  <1>3. Sweeps(c, k) = ExecutePass(p) \o
          IF Verify[c] /\ p.kind \in {"Fixed", "FixedVerified"} THEN <<Report(b)>> ELSE <<>>
    BY DEF Sweeps
  <1> HIDE DEF p
  <1>4. ExecutePass(p) \in
          {<<Writing(b)>>, <<Writing(b), Strict(b)>>, <<Writing("random")>>,
           <<Writing("random"), Writing("zeros")>>}
    BY <1>1 DEF ExecutePass, PassKinds
  <1>5. p.kind \in {"Fixed", "FixedVerified"} =>
          ExecutePass(p) \in {<<Writing(b)>>, <<Writing(b), Strict(b)>>}
    BY DEF ExecutePass
  <1>6. Sweeps(c, k) \in
          {<<Writing(b)>>, <<Writing(b), Strict(b)>>, <<Writing(b), Report(b)>>,
           <<Writing(b), Strict(b), Report(b)>>, <<Writing("random")>>,
           <<Writing("random"), Writing("zeros")>>}
    <2>1. CASE Verify[c] /\ p.kind \in {"Fixed", "FixedVerified"}
      <3>1. Sweeps(c, k) = ExecutePass(p) \o <<Report(b)>>
        BY <1>3, <2>1
      <3>2. CASE ExecutePass(p) = <<Writing(b)>>
        BY <3>1, <3>2, Concatenations, Zenon
      <3>3. CASE ExecutePass(p) = <<Writing(b), Strict(b)>>
        BY <3>1, <3>3, Concatenations, Zenon
      <3> QED
        BY <1>5, <2>1, <3>2, <3>3
    <2>2. CASE ~(Verify[c] /\ p.kind \in {"Fixed", "FixedVerified"})
      <3>1. Sweeps(c, k) = ExecutePass(p) \o <<>>
        BY <1>3, <2>2
      <3>2. Sweeps(c, k) = ExecutePass(p)
        <4>1. CASE ExecutePass(p) = <<Writing(b)>>
          BY <3>1, <4>1, Concatenations, Zenon
        <4>2. CASE ExecutePass(p) = <<Writing(b), Strict(b)>>
          BY <3>1, <4>2, Concatenations, Zenon
        <4>3. CASE ExecutePass(p) = <<Writing("random")>>
          BY <3>1, <4>3, Concatenations, Zenon
        <4>4. CASE ExecutePass(p) = <<Writing("random"), Writing("zeros")>>
          BY <3>1, <4>4, Concatenations, Zenon
        <4> QED
          BY <1>4, <4>1, <4>2, <4>3, <4>4
      <3> QED
        BY <1>4, <3>2
    <2> QED
      BY <2>1, <2>2
  <1> HIDE DEF b
  <1> QED
    BY <1>1, <1>2, <1>6 DEF GoodPass, Writing, Strict, Report

-----------------------------------------------------------------------------
(***************************************************************************)
(* Type correctness.                                                       *)
(***************************************************************************)
(* The ways a step of Next can end a call early all have the effect of     *)
(* Return; every other step is one of the named ones.                      *)
Failures == {"error", "mismatch", "dead"}

Act(c) ==
  \/ \E o \in Failures : Return(c, o)
  \/ Admit(c) \/ OpenFile(c) \/ FlockTaken(c) \/ FlockRetry(c)
  \/ WriteChunk(c) \/ EndWrite(c) \/ ReadChunk(c) \/ EndRead(c) \/ ReportMismatch(c)
  \/ Truncate(c) \/ Rename(c) \/ Unlink(c)
  \/ FillChunk(c) \/ EndFill(c) \/ CheckGone(c)

LEMMA NextCases ==
  ASSUME Next
  PROVE  PowerLoss \/ \E c \in Calls : Act(c)
  <1>1. ASSUME NEW c \in Calls,
               Refuse(c) \/ OpenRefused(c) \/ FlockGiveUp(c) \/ RenameFails(c)
                 \/ Fault(c) \/ Kill(c)
        PROVE  \E o \in Failures : Return(c, o)
    BY <1>1, Zenon DEF Refuse, OpenRefused, FlockGiveUp, RenameFails, Fault, Kill, Failures
  <1>2. ASSUME NEW c \in Calls, StrictMismatch(c)
        PROVE  \E o \in Failures : Return(c, o)
    <2>1. Return(c, "mismatch") \/ Return(c, "error")
      BY <1>2 DEF StrictMismatch
    <2> QED
      BY <2>1, Zenon DEF Failures
  <1> QED
    BY <1>1, <1>2, Zenon DEF Next, Step, Act

(* A call that holds or awaits a flock has a handle on some inode, a call  *)
(* about to unlink its random name has bound it, and the pass, the sweep   *)
(* and the chunk a call is at exist.                                       *)
AtStart(c) ==
  \/ pc[c] = "idle"
  \/ pc[c] \in {"open", "flock"} /\ purpose[c] = "passes"

HandleOf(c) ==
  /\ pc[c] \in Touching \cup {"flock"} => fd[c] \in Inodes
  /\ pc[c] = "unlink" => dirent[c] \in Inodes
  /\ pass[c] \in 1..Len(PatternsOf(Algorithm[c]))
  /\ sweep[c] \in 1..Len(Sweeps(c, pass[c]))
  /\ off[c] <= size[c]
  /\ AtStart(c) => pass[c] = 1 /\ sweep[c] = 1 /\ off[c] = 0 /\ purpose[c] = "passes"

HandleOK == \A c \in Calls : HandleOf(c)

LEMMA CurrentType ==
  ASSUME HandleOK, NEW c \in Calls
  PROVE  /\ Current(c).act \in {"write", "strict", "report"}
         /\ Current(c).byte \in Patterns
         /\ Current(c).act # "write" => sweep[c] > 1
  <1>1. GoodPass(Sweeps(c, pass[c])) /\ sweep[c] \in 1..Len(Sweeps(c, pass[c]))
    BY SweepsFacts DEF HandleOK, HandleOf
  <1> QED
    BY <1>1 DEF GoodPass, Current

LEMMA InitTypeOK == Init => TypeOK
  <1> SUFFICES ASSUME Init PROVE TypeOK
    OBVIOUS
  <1> USE FSAssumption, FlockAssumption, ShredAssumption
  <1>1. FSTypeOK
    <2>1. PICK d \in [Paths -> (Inodes \ Spare) \cup {NoInode}] :
            dirent = [n \in Names |-> IF n \in Paths THEN d[n] ELSE NoInode]
      BY DEF Init, FSInit
    <2>2. dirent \in [Names -> Inodes \cup {NoInode}]
      BY <2>1
    <2>3. chunk \in [Inodes -> [Chunks -> Content]]
      BY DEF Init, FSInit, Content
    <2> QED
      BY <2>2, <2>3 DEF Init, FSInit, FSTypeOK
  <1> QED
    BY <1>1 DEF Init, HandleInit, TypeOK, Stages, Done

LEMMA InitHandleOK == Init => HandleOK
  <1> SUFFICES ASSUME Init, NEW c \in Calls
               PROVE  /\ pc[c] = "idle" /\ pass[c] = 1 /\ sweep[c] = 1 /\ off[c] = 0
                      /\ size[c] = 0 /\ purpose[c] = "passes"
                      /\ 1 \in 1..Len(PatternsOf(Algorithm[c]))
                      /\ 1 \in 1..Len(Sweeps(c, 1))
    <2>1. 0 <= 0
      OBVIOUS
    <2> QED
      BY <2>1, Zenon DEF HandleOK, HandleOf, Touching
  <1>1. 1 \in 1..Len(PatternsOf(Algorithm[c]))
    BY PatternsFacts, ShredAssumption
  <1>2. 1 \in 1..Len(Sweeps(c, 1))
    BY <1>1, SweepsFacts DEF GoodPass
  <1> QED
    BY <1>1, <1>2 DEF Init, HandleInit

(* After a sweep comes the next one of the pass, the next pass, or the     *)
(* opening for the truncation.                                             *)
Continues(c) ==
  /\ off' = [off EXCEPT ![c] = 0]
  /\ UNCHANGED <<pc, fd, lock, purpose>>
  /\ \/ /\ sweep[c] + 1 \in 1..Len(Sweeps(c, pass[c]))
        /\ pass' = pass /\ sweep' = [sweep EXCEPT ![c] = sweep[c] + 1]
     \/ /\ pass[c] + 1 \in 1..Len(PatternsOf(Algorithm[c]))
        /\ pass' = [pass EXCEPT ![c] = pass[c] + 1] /\ sweep' = [sweep EXCEPT ![c] = 1]

Ends(c) ==
  /\ off' = [off EXCEPT ![c] = 0]
  /\ fd' = [fd EXCEPT ![c] = NoInode] /\ DropLocks(c)
  /\ pc' = [pc EXCEPT ![c] = "open"] /\ purpose' = [purpose EXCEPT ![c] = "truncate"]
  /\ UNCHANGED <<pass, sweep>>

LEMMA AdvanceCases ==
  ASSUME HandleOK, NEW c \in Calls, Advance(c)
  PROVE  Continues(c) \/ Ends(c)
  <1>1. /\ pass[c] \in 1..Len(PatternsOf(Algorithm[c]))
        /\ sweep[c] \in 1..Len(Sweeps(c, pass[c]))
        /\ Len(PatternsOf(Algorithm[c])) \in Nat /\ Len(Sweeps(c, pass[c])) \in Nat
    BY PatternsFacts, SweepsFacts, ShredAssumption DEF HandleOK, HandleOf, GoodPass
  <1>2. CASE MoreSweeps(c) \/ MorePasses(c)
    BY <1>1, <1>2 DEF Advance, MoreSweeps, MorePasses, Continues
  <1>3. CASE ~MoreSweeps(c) /\ ~MorePasses(c)
    BY <1>3 DEF Advance, CloseHandle, Goto, Ends
  <1> QED
    BY <1>2, <1>3

LEMMA AdvanceType ==
  ASSUME TypeOK, HandleOK, NEW c \in Calls, Advance(c)
  PROVE  /\ off' \in [Calls -> 0..MaxLen] /\ pass' \in [Calls -> Nat]
         /\ sweep' \in [Calls -> Nat] /\ pc' \in [Calls -> Stages]
         /\ fd' \in [Calls -> Inodes \cup {NoInode}]
         /\ purpose' \in [Calls -> {"passes", "truncate"}]
         /\ lock' \in [Inodes -> Calls \cup Writers \cup {NoOne}]
  <1> USE FSAssumption DEF TypeOK, FSTypeOK
  <1>1. 0 \in 0..MaxLen /\ pass[c] + 1 \in Nat /\ sweep[c] + 1 \in Nat
    OBVIOUS
  <1>2. CASE Continues(c)
    <2>1. off' = [off EXCEPT ![c] = 0] /\ UNCHANGED <<pc, fd, lock, purpose>>
      BY <1>2, Zenon DEF Continues
    <2>2. \E k, j \in Nat : pass' \in {pass, [pass EXCEPT ![c] = k]} /\ sweep' = [sweep EXCEPT ![c] = j]
      <3>1. CASE pass' = pass /\ sweep' = [sweep EXCEPT ![c] = sweep[c] + 1]
        BY <1>1, <3>1
      <3>2. CASE pass' = [pass EXCEPT ![c] = pass[c] + 1] /\ sweep' = [sweep EXCEPT ![c] = 1]
        BY <1>1, <3>2
      <3> QED
        BY <1>2, <3>1, <3>2, Zenon DEF Continues
    <2>3. off' \in [Calls -> 0..MaxLen]
      BY <1>1, <2>1
    <2>4. pass' \in [Calls -> Nat] /\ sweep' \in [Calls -> Nat]
      BY <2>2
    <2> QED
      BY <2>1, <2>3, <2>4
  <1>3. CASE Ends(c)
    <2>1. "open" \in Stages
      BY DEF Stages
    <2> QED
      BY <1>1, <1>3, <2>1 DEF Ends, DropLocks
  <1> QED
    BY <1>2, <1>3, AdvanceCases

LEMMA StepTypeOK ==
  ASSUME TypeOK, HandleOK, Next
  PROVE  TypeOK'
  <1> USE FSAssumption, FlockAssumption, ShredAssumption DEF TypeOK, FSTypeOK
  <1>1. CASE PowerLoss
    BY <1>1 DEF PowerLoss, LosePower, callVars, Stages, Done
  <1>2. ASSUME NEW c \in Calls, NEW o \in Failures, Return(c, o) PROVE TypeOK'
    BY <1>2 DEF Return, Leave, Goto, CloseHandle, DropLocks, Failures, Stages, Done, callVars
  <1>3. ASSUME NEW c \in Calls, Admit(c) PROVE TypeOK'
    BY <1>3 DEF Admit, Goto, fsVars, Stages, Openable, Names
  <1>4. ASSUME NEW c \in Calls, OpenFile(c) PROVE TypeOK'
    BY <1>4 DEF OpenFile, HandleOpened, Openable, Goto, fsVars, Stages, Names, callVars
  <1>5. ASSUME NEW c \in Calls, FlockTaken(c) PROVE TypeOK'
    <2>1. /\ pc' = [pc EXCEPT ![c] = IF purpose[c] = "passes" THEN "sweep" ELSE "truncate"]
          /\ lock' = [lock EXCEPT ![fd[c]] = c]
          /\ UNCHANGED <<dirent, len, chunk, disk, lost, fd, tries, callVars>>
      BY <1>5 DEF FlockTaken, HandleLocked, TakeLock, Goto
    <2> QED
      BY <2>1 DEF Stages, Touching, callVars
  <1>6. ASSUME NEW c \in Calls, FlockRetry(c) PROVE TypeOK'
    BY <1>6 DEF FlockRetry, HandleRetries, fsVars, callVars
  <1>7. ASSUME NEW c \in Calls, WriteChunk(c) PROVE TypeOK'
    <2> DEFINE i == fd[c]
               b == off[c] + 1
    <2>1. b \in 0..MaxLen /\ b \in Chunks
      BY <1>7 DEF WriteChunk, Chunks
    <2>2. Current(c).byte \in Content
      BY CurrentType DEF Content
    <2>3. chunk' = [chunk EXCEPT ![i] = [chunk[i] EXCEPT ![b] = Current(c).byte]]
      BY <1>7 DEF WriteChunk, WriteAt
    <2>4. chunk' \in [Inodes -> [Chunks -> Content]]
      BY <2>1, <2>2, <2>3
    <2>5. len' \in [Inodes -> 0..MaxLen]
      BY <1>7, <2>1 DEF WriteChunk, WriteAt
    <2>6. off' \in [Calls -> 0..MaxLen]
      BY <1>7, <2>1 DEF WriteChunk
    <2> QED
      BY <1>7, <2>4, <2>5, <2>6 DEF WriteChunk
  <1>8. ASSUME NEW c \in Calls, EndWrite(c) PROVE TypeOK'
    <2>1. disk' \in [Inodes -> [Chunks -> Content]]
      BY <1>8 DEF EndWrite, SyncFile
    <2> QED
      BY <1>8, <2>1, AdvanceType DEF EndWrite
  <1>9. ASSUME NEW c \in Calls, ReadChunk(c) \/ FillChunk(c) PROVE TypeOK'
    <2>1. UNCHANGED <<fsVars, pc, fd, tries, purpose, size, pass, sweep, verified, spoilt>>
      BY <1>9 DEF ReadChunk, FillChunk
    <2>2. off' \in [Calls -> 0..MaxLen]
      <3>1. off' = off \/ (off[c] + 1 \in 0..MaxLen /\ off' = [off EXCEPT ![c] = off[c] + 1])
        <4>1. CASE ReadChunk(c)
          BY <4>1 DEF ReadChunk
        <4>2. CASE FillChunk(c)
          BY <4>2 DEF FillChunk
        <4> QED
          BY <1>9, <4>1, <4>2
      <3> QED
        BY <3>1
    <2>3. filled' \in [Calls -> 0..MaxLen]
      <3>1. filled' = filled \/ (filled[c] + 1 \in 0..MaxLen /\ filled' = [filled EXCEPT ![c] = filled[c] + 1])
        <4>1. CASE ReadChunk(c)
          BY <4>1 DEF ReadChunk
        <4>2. CASE FillChunk(c)
          BY <4>2 DEF FillChunk
        <4> QED
          BY <1>9, <4>1, <4>2
      <3> QED
        BY <3>1
    <2> QED
      BY <2>1, <2>2, <2>3 DEF fsVars
  <1>10. ASSUME NEW c \in Calls, EndRead(c) \/ ReportMismatch(c) PROVE TypeOK'
    <2>1. Advance(c) /\ UNCHANGED <<dirent, len, chunk, disk, lost, tries, size, filled, spoilt>>
      BY <1>10 DEF EndRead, ReportMismatch
    <2>2. verified' \in [Calls -> BOOLEAN]
      BY <1>10 DEF EndRead, ReportMismatch
    <2> QED
      BY <2>1, <2>2, AdvanceType
  <1>11. ASSUME NEW c \in Calls, Truncate(c) PROVE TypeOK'
    <2> DEFINE empty == [b \in Chunks |-> "none"]
    <2>1. empty \in [Chunks -> Content]
      BY DEF Content
    <2>2. /\ chunk' = [chunk EXCEPT ![fd[c]] = empty]
          /\ disk' = [disk EXCEPT ![fd[c]] = empty]
          /\ len' = [len EXCEPT ![fd[c]] = 0]
      BY <1>11 DEF Truncate, TruncateFile
    <2>3. /\ chunk' \in [Inodes -> [Chunks -> Content]]
          /\ disk' \in [Inodes -> [Chunks -> Content]]
      BY <2>1, <2>2
    <2>4. len' \in [Inodes -> 0..MaxLen]
      <3>1. 0 \in 0..MaxLen
        OBVIOUS
      <3> QED
        BY <2>2, <3>1
    <2>5. lost' \in SUBSET Inodes
      <3>1. fd[c] \in Inodes /\ (lost' = lost \/ lost' = lost \cup {fd[c]})
        BY <1>11 DEF Truncate, TruncateFile, HandleOK, HandleOf, Touching
      <3> QED
        BY <3>1
    <2>6. /\ lock' \in [Inodes -> Calls \cup Writers \cup {NoOne}]
          /\ fd' \in [Calls -> Inodes \cup {NoInode}]
          /\ pc' \in [Calls -> Stages]
      BY <1>11 DEF Truncate, CloseHandle, DropLocks, Goto, Stages
    <2> QED
      BY <1>11, <2>3, <2>4, <2>5, <2>6 DEF Truncate, callVars
  <1>12. ASSUME NEW c \in Calls, Rename(c) PROVE TypeOK'
    BY <1>12 DEF Rename, RenameEntry, Goto, Stages, Names, callVars
  <1>13. ASSUME NEW c \in Calls, Unlink(c) PROVE TypeOK'
    <2>1. dirent[c] \in Inodes
      BY <1>13 DEF Unlink, HandleOK, HandleOf
    <2>2. lost' = lost \/ lost' = lost \cup {dirent[c]}
      BY <1>13 DEF Unlink, UnlinkEntry
    <2>3. dirent' \in [Names -> Inodes \cup {NoInode}]
      BY <1>13 DEF Unlink, UnlinkEntry
    <2>4. pc' \in [Calls -> Stages]
      BY <1>13 DEF Unlink, Goto, Stages
    <2> QED
      BY <1>13, <2>1, <2>2, <2>3, <2>4 DEF Unlink, callVars
  <1>14. ASSUME NEW c \in Calls, EndFill(c) \/ CheckGone(c) PROVE TypeOK'
    <2>1. UNCHANGED <<fsVars, fd, tries, purpose, size, pass, sweep, off, filled, spoilt>>
      BY <1>14 DEF EndFill, CheckGone, callVars
    <2>2. pc' \in [Calls -> Stages]
      <3>1. PICK s \in {"exists", "ok"} : pc' = [pc EXCEPT ![c] = s]
        BY <1>14, Zenon DEF EndFill, CheckGone, Goto
      <3>2. s \in Stages
        BY DEF Stages, Done
      <3> QED
        BY <3>1, <3>2
    <2>3. verified' \in [Calls -> BOOLEAN]
      BY <1>14 DEF EndFill, CheckGone, callVars
    <2> QED
      BY <2>1, <2>2, <2>3 DEF fsVars
  <1> QED
    BY <1>1, <1>2, <1>3, <1>4, <1>5, <1>6, <1>7, <1>8, <1>9, <1>10, <1>11, <1>12, <1>13,
       <1>14, NextCases DEF Act

(* What a step of one call leaves to the others.                           *)
Untouched(c) ==
  /\ pc'[c] = pc[c] /\ purpose'[c] = purpose[c] /\ size'[c] = size[c] /\ fd'[c] = fd[c]
  /\ pass'[c] = pass[c] /\ sweep'[c] = sweep[c] /\ off'[c] = off[c]
  /\ verified'[c] = verified[c] /\ dirent'[c] = dirent[c]

LEMMA ActOthers ==
  ASSUME TypeOK, HandleOK, NEW d \in Calls, Act(d), NEW c \in Calls, c # d
  PROVE  Untouched(c)
  <1> USE FSAssumption, ShredAssumption DEF TypeOK, FSTypeOK, Untouched, Names
  <1>1. CASE \E o \in Failures : Return(d, o)
    BY <1>1 DEF Return, Leave, Goto, CloseHandle, callVars
  <1>2. CASE Admit(d) \/ OpenFile(d) \/ FlockTaken(d) \/ FlockRetry(d)
    BY <1>2 DEF Admit, OpenFile, HandleOpened, FlockTaken, HandleLocked, FlockRetry,
       HandleRetries, Goto, fsVars, callVars
  <1>3. CASE WriteChunk(d) \/ ReadChunk(d) \/ FillChunk(d) \/ EndFill(d)
    BY <1>3 DEF WriteChunk, ReadChunk, FillChunk, EndFill, Goto, fsVars, callVars
  <1>4. ASSUME Advance(d)
        PROVE  /\ pc'[c] = pc[c] /\ purpose'[c] = purpose[c] /\ fd'[c] = fd[c]
               /\ pass'[c] = pass[c] /\ sweep'[c] = sweep[c] /\ off'[c] = off[c]
    <2>1. CASE Ends(d)
      BY <2>1 DEF Ends
    <2>2. CASE Continues(d)
      <3>1. off' = [off EXCEPT ![d] = 0] /\ UNCHANGED <<pc, fd, purpose>>
        BY <2>2, Zenon DEF Continues
      <3>2. pass'[c] = pass[c] /\ sweep'[c] = sweep[c]
        <4>1. CASE pass' = pass /\ sweep' = [sweep EXCEPT ![d] = sweep[d] + 1]
          BY <4>1
        <4>2. CASE pass' = [pass EXCEPT ![d] = pass[d] + 1] /\ sweep' = [sweep EXCEPT ![d] = 1]
          BY <4>2
        <4> QED
          BY <2>2, <4>1, <4>2, Zenon DEF Continues
      <3> QED
        BY <3>1, <3>2
    <2> QED
      BY <1>4, <2>1, <2>2, AdvanceCases
  <1>5. CASE EndWrite(d) \/ EndRead(d)
    BY <1>4, <1>5 DEF EndWrite, EndRead
  <1>6. CASE ReportMismatch(d)
    BY <1>4, <1>6 DEF ReportMismatch
  <1>7. CASE Truncate(d) \/ Rename(d) \/ Unlink(d)
    BY <1>7 DEF Truncate, CloseHandle, Rename, Unlink, RenameEntry, UnlinkEntry, Goto, callVars
  <1>8. CASE CheckGone(d)
    BY <1>8 DEF CheckGone, Goto, fsVars
  <1> QED
    BY <1>1, <1>2, <1>3, <1>5, <1>6, <1>7, <1>8 DEF Act

LEMMA ActHandle ==
  ASSUME TypeOK, HandleOK, NEW c \in Calls, Act(c)
  PROVE  HandleOf(c)'
  <1> USE FSAssumption, ShredAssumption DEF TypeOK, FSTypeOK, AtStart, Touching
  <1>0. HandleOf(c)
    BY DEF HandleOK
  <1>1. ASSUME NEW o \in Failures, Return(c, o) PROVE HandleOf(c)'
    BY <1>0, <1>1 DEF Return, Leave, Goto, CloseHandle, Failures, callVars, HandleOf
  <1>2. CASE Admit(c)
    <2>1. /\ pc[c] = "idle" /\ pc'[c] = "open" /\ purpose'[c] = purpose[c]
          /\ pass'[c] = pass[c] /\ sweep'[c] = sweep[c] /\ off'[c] = off[c]
      BY <1>2 DEF Admit, Goto
    <2>2. size'[c] \in 0..MaxLen
      BY StepTypeOK, <1>2 DEF Next
    <2> QED
      BY <1>0, <2>1, <2>2 DEF HandleOf
  <1>3. CASE OpenFile(c)
    BY <1>0, <1>3 DEF OpenFile, HandleOpened, Openable, Goto, fsVars, callVars, Names, HandleOf
  <1>4. CASE FlockTaken(c)
    BY <1>0, <1>4 DEF FlockTaken, HandleLocked, Goto, callVars, HandleOf
  <1>5. CASE FlockRetry(c)
    BY <1>0, <1>5 DEF FlockRetry, HandleRetries, fsVars, callVars, HandleOf
  <1>6. CASE WriteChunk(c) \/ ReadChunk(c)
    <2>1. /\ UNCHANGED <<dirent, pc, fd, purpose, size, pass, sweep>> /\ pc[c] = "sweep"
          /\ off'[c] = off[c] + 1 /\ off[c] + 1 <= size[c]
      BY <1>6 DEF WriteChunk, ReadChunk, Sweeping, fsVars
    <2> QED
      BY <1>0, <2>1 DEF HandleOf
  <1>7. CASE EndWrite(c) \/ EndRead(c) \/ ReportMismatch(c)
    <2>1. /\ Advance(c) /\ UNCHANGED <<dirent, size>> /\ pc[c] = "sweep"
      BY <1>7 DEF EndWrite, EndRead, ReportMismatch, Sweeping
    <2>2. CASE Ends(c)
      BY <1>0, <2>1, <2>2 DEF Ends, HandleOf
    <2>3. CASE Continues(c)
      <3>1. /\ off'[c] = 0 /\ pc'[c] = "sweep" /\ fd'[c] = fd[c] /\ size'[c] = size[c]
        BY <2>1, <2>3 DEF Continues
      <3>2. CASE sweep[c] + 1 \in 1..Len(Sweeps(c, pass[c]))
                 /\ pass' = pass /\ sweep' = [sweep EXCEPT ![c] = sweep[c] + 1]
        <4>1. pass'[c] = pass[c] /\ sweep'[c] = sweep[c] + 1
          BY <3>2
        <4>2. sweep'[c] \in 1..Len(Sweeps(c, pass'[c]))
          BY <3>2, <4>1
        <4> QED
          BY <1>0, <2>1, <3>1, <4>2, <4>1 DEF HandleOf
      <3>3. CASE pass[c] + 1 \in 1..Len(PatternsOf(Algorithm[c]))
                 /\ pass' = [pass EXCEPT ![c] = pass[c] + 1] /\ sweep' = [sweep EXCEPT ![c] = 1]
        <4>1. 1 \in 1..Len(Sweeps(c, pass[c] + 1))
          BY <3>3, SweepsFacts DEF GoodPass
        <4>2. pass'[c] = pass[c] + 1 /\ sweep'[c] = 1
          BY <3>3
        <4>3. sweep'[c] \in 1..Len(Sweeps(c, pass'[c]))
          BY <4>1, <4>2
        <4>4. pass'[c] \in 1..Len(PatternsOf(Algorithm[c]))
          BY <3>3, <4>2
        <4> QED
          BY <1>0, <2>1, <3>1, <4>3, <4>4 DEF HandleOf
      <3> QED
        BY <2>3, <3>2, <3>3 DEF Continues
    <2> QED
      BY <2>1, <2>2, <2>3, AdvanceCases
  <1>8. CASE Truncate(c)
    BY <1>0, <1>8 DEF Truncate, CloseHandle, Goto, callVars, HandleOf
  <1>9. CASE Rename(c)
    BY <1>0, <1>9 DEF Rename, RenameEntry, Goto, callVars, Names, HandleOf
  <1>10. CASE Unlink(c)
    BY <1>0, <1>10 DEF Unlink, UnlinkEntry, Goto, callVars, Names, HandleOf
  <1>11. CASE FillChunk(c)
    BY <1>0, <1>11 DEF FillChunk, fsVars, HandleOf
  <1>12. CASE EndFill(c) \/ CheckGone(c)
    <2>1. PICK s \in {"exists", "ok"} : pc' = [pc EXCEPT ![c] = s]
      BY <1>12, Zenon DEF EndFill, CheckGone, Goto
    <2>2. UNCHANGED <<fsVars, fd, purpose, size, pass, sweep, off>>
      BY <1>12 DEF EndFill, CheckGone, callVars
    <2> QED
      BY <1>0, <2>1, <2>2 DEF HandleOf, fsVars
  <1> QED
    BY <1>1, <1>2, <1>3, <1>4, <1>5, <1>6, <1>7, <1>8, <1>9, <1>10, <1>11, <1>12 DEF Act

LEMMA StepHandleOK ==
  ASSUME TypeOK, HandleOK, [Next]_vars
  PROVE  HandleOK'
  <1> SUFFICES ASSUME NEW c \in Calls PROVE HandleOf(c)'
    BY DEF HandleOK
  <1>1. HandleOf(c)
    BY DEF HandleOK
  <1>2. CASE UNCHANGED vars
    BY <1>1, <1>2 DEF HandleOf, AtStart, vars, fsVars, callVars
  <1>3. CASE PowerLoss
    BY <1>1, <1>3 DEF HandleOf, AtStart, PowerLoss, LosePower, Running, Done, Touching,
       callVars, TypeOK, Stages
  <1>4. ASSUME NEW d \in Calls, Act(d) PROVE HandleOf(c)'
    <2>1. CASE c = d
      BY <1>4, <2>1, ActHandle
    <2>2. CASE c # d
      BY <1>1, <1>4, <2>2, ActOthers DEF HandleOf, AtStart, Untouched
    <2> QED
      BY <2>1, <2>2
  <1> QED
    BY <1>2, <1>3, <1>4, NextCases

LEMMA StutterTypeOK == ASSUME TypeOK, UNCHANGED vars PROVE TypeOK'
  BY DEF TypeOK, FSTypeOK, vars, fsVars, callVars

LEMMA TypeAndHandles == Spec => [](TypeOK /\ HandleOK)
  BY InitTypeOK, StepTypeOK, StutterTypeOK, InitHandleOK, StepHandleOK, PTL DEF Spec

(* Every variable keeps its type in every behaviour of any set of calls.   *)
THEOREM TypeCorrect == Spec => []TypeOK
  BY TypeAndHandles, PTL

-----------------------------------------------------------------------------
(***************************************************************************)
(* The inductive invariant of the data.                                    *)
(*                                                                         *)
(* User data seen through the cache is on the device too, and lies within  *)
(* the file.                                                               *)
(***************************************************************************)
CacheInv == \A i \in Inodes, b \in Chunks : chunk[i][b] = "user" => disk[i][b] = "user"
LengthInv == \A i \in Inodes, b \in Chunks : disk[i][b] = "user" => b <= len[i]

(* The inodes a call works on: what its name is bound to and its handle.   *)
Mine(c) == {i \in Inodes : i = dirent[Request[c]] \/ i = fd[c]}

Clean(i) == \A b \in Chunks : disk[i][b] # "user"

(* At least the first sweep has been synced. *)
Wiped(c) ==
  \/ pc[c] \in {"truncate", "rename", "unlink", "backfill", "exists"}
  \/ pc[c] \in {"open", "flock"} /\ purpose[c] = "truncate"
  \/ pc[c] = "sweep" /\ (pass[c] > 1 \/ sweep[c] > 1)

(* The handle is on the inode the name is still bound to, if on any. *)
HandleInv(c) ==
  /\ pc[c] \notin Touching \cup {"flock"} => fd[c] = NoInode
  /\ fd[c] \in Inodes => dirent[Request[c]] \in {fd[c], NoInode}

(* The size taken at the entry still covers all user data. *)
SizeInv(c) ==
  Running(c) => \A i \in Mine(c), b \in Chunks : disk[i][b] = "user" => b <= size[c]

(* What the current sweep has written is gone from the cache. *)
WriteInv(c) ==
  pc[c] = "sweep" /\ Current(c).act = "write" =>
    \A b \in Chunks : b <= off[c] => chunk[fd[c]][b] # "user"

WipedInv(c) == Wiped(c) => \A i \in Mine(c) : Clean(i)

TempInv(c) == dirent[c] \in Inodes => Clean(dirent[c])

CallInv(c) == HandleInv(c) /\ SizeInv(c) /\ WriteInv(c) /\ WipedInv(c) /\ TempInv(c)

IInv ==
  /\ TypeOK
  /\ HandleOK
  /\ CacheInv
  /\ LengthInv
  /\ NoDataReleased
  /\ \A c \in Calls : CallInv(c)

(* A sweep that is over has left the handle where it is, for a later sweep *)
(* than the first, or closed it.                                           *)
LEMMA AdvanceEffects ==
  ASSUME TypeOK, HandleOK, NEW c \in Calls, pc[c] = "sweep", Advance(c)
  PROVE  /\ off'[c] = 0 /\ pc'[c] \in {"sweep", "open"}
         /\ pc'[c] = "sweep" =>
              fd' = fd /\ lock' = lock /\ (pass'[c] > 1 \/ sweep'[c] > 1)
         /\ pc'[c] = "open" =>
              fd'[c] = NoInode /\ purpose'[c] = "truncate" /\ DropLocks(c)
  <1> USE DEF TypeOK
  <1>1. CASE Ends(c)
    BY <1>1 DEF Ends
  <1>2. CASE Continues(c)
    <2>1. off'[c] = 0 /\ pc'[c] = "sweep" /\ fd' = fd /\ lock' = lock
      BY <1>2 DEF Continues
    <2>2. pass[c] \in Nat \ {0} /\ sweep[c] \in Nat \ {0}
      BY DEF HandleOK, HandleOf
    <2>3. pass'[c] > 1 \/ sweep'[c] > 1
      <3>1. CASE pass' = pass /\ sweep' = [sweep EXCEPT ![c] = sweep[c] + 1]
        <4>1. sweep'[c] = sweep[c] + 1
          BY <3>1
        <4> QED
          BY <2>2, <4>1
      <3>2. CASE pass' = [pass EXCEPT ![c] = pass[c] + 1] /\ sweep' = [sweep EXCEPT ![c] = 1]
        <4>1. pass'[c] = pass[c] + 1
          BY <3>2
        <4> QED
          BY <2>2, <4>1
      <3> QED
        BY <1>2, <3>1, <3>2, Zenon DEF Continues
    <2> QED
      BY <2>1, <2>3
  <1> QED
    BY <1>1, <1>2, AdvanceCases

(* What a step of call d leaves to the others: user data only ever shrinks,*)
(* a path only ever becomes unbound, and nothing else of theirs moves.     *)
Shrinks ==
  \A i \in Inodes, b \in Chunks :
    /\ disk'[i][b] = "user" => disk[i][b] = "user"
    /\ chunk'[i][b] = "user" => chunk[i][b] = "user"

PathsShrink == \A n \in Paths : dirent'[n] \in {dirent[n], NoInode}

(* Every step but these leaves the data and the names alone.               *)
LEMMA ActQuiet ==
  ASSUME NEW d \in Calls, Act(d)
  PROVE  \/ WriteChunk(d) \/ EndWrite(d) \/ Truncate(d) \/ Rename(d) \/ Unlink(d)
         \/ UNCHANGED <<dirent, len, chunk, disk, lost>>
  BY DEF Act, Return, Leave, Admit, OpenFile, HandleOpened, FlockTaken, HandleLocked,
     FlockRetry, HandleRetries, ReadChunk, EndRead, ReportMismatch, FillChunk, EndFill,
     CheckGone, fsVars

LEMMA ActShrinks ==
  ASSUME TypeOK, HandleOK, CacheInv, NEW d \in Calls, Act(d)
  PROVE  Shrinks
  <1> USE FSAssumption DEF TypeOK, FSTypeOK, Shrinks
  <1>1. CASE chunk' = chunk /\ disk' = disk
    BY <1>1
  <1>2. CASE WriteChunk(d)
    <2>1. Current(d).byte # "user"
      BY CurrentType DEF Patterns
    <2>2. fd[d] \in Inodes
      BY <1>2 DEF WriteChunk, Sweeping, HandleOK, HandleOf, Touching
    <2>3. \A i \in Inodes, b \in Chunks :
            chunk'[i][b] = chunk[i][b] \/ chunk'[i][b] = Current(d).byte
      BY <1>2, <2>2 DEF WriteChunk, WriteAt
    <2> QED
      BY <1>2, <2>1, <2>3 DEF WriteChunk
  <1>3. CASE EndWrite(d)
    BY <1>3 DEF EndWrite, SyncFile, CacheInv
  <1>4. CASE Truncate(d)
    BY <1>4 DEF Truncate, TruncateFile
  <1>5. CASE Rename(d) \/ Unlink(d)
    BY <1>5, <1>1 DEF Rename, Unlink
  <1>6. QED
    BY <1>1, <1>2, <1>3, <1>4, <1>5, ActQuiet

LEMMA ActPaths ==
  ASSUME TypeOK, NEW d \in Calls, Act(d)
  PROVE  PathsShrink
  <1> USE FSAssumption, ShredAssumption DEF TypeOK, FSTypeOK, PathsShrink, Names
  <1>1. CASE dirent' = dirent
    BY <1>1
  <1>2. CASE Rename(d)
    BY <1>2 DEF Rename, RenameEntry
  <1>3. CASE Unlink(d)
    BY <1>3 DEF Unlink, UnlinkEntry
  <1>4. QED
    BY <1>1, <1>2, <1>3, ActQuiet DEF WriteChunk, EndWrite, Truncate

(* Under these three facts alone the invariant of another call survives.   *)
LEMMA OtherCallInv ==
  ASSUME TypeOK, HandleOK, Shrinks, PathsShrink, NEW c \in Calls, Untouched(c), CallInv(c)
  PROVE  CallInv(c)'
  <1> USE ShredAssumption DEF Untouched, PathsShrink
  <1>1. Request[c] \in Paths
    OBVIOUS
  <1>2. HandleInv(c)'
    BY <1>1, FSAssumption DEF CallInv, HandleInv
  <1>3. Mine(c)' \subseteq Mine(c)
    BY <1>1, FSAssumption DEF Mine
  <1>4. \A i \in Inodes : Clean(i) => Clean(i)'
    BY DEF Clean, Shrinks
  <1>5. SizeInv(c)'
    BY <1>3 DEF CallInv, SizeInv, Running, Shrinks, Mine
  <1>6. WriteInv(c)'
    <2>1. Current(c)' = Current(c)
      BY DEF Current
    <2>2. pc[c] = "sweep" => fd[c] \in Inodes
      BY DEF HandleOK, HandleOf, Touching
    <2> QED
      BY <2>1, <2>2 DEF CallInv, WriteInv, Shrinks
  <1>7. WipedInv(c)'
    <2>1. Wiped(c)' => Wiped(c)
      BY DEF Wiped
    <2> QED
      BY <2>1, <1>3, <1>4 DEF CallInv, WipedInv, Mine
  <1>8. TempInv(c)'
    BY <1>4 DEF CallInv, TempInv
  <1> QED
    BY <1>2, <1>5, <1>6, <1>7, <1>8 DEF CallInv

LEMMA ActData ==
  ASSUME TypeOK, HandleOK, CacheInv, LengthInv, NEW d \in Calls, Act(d)
  PROVE  CacheInv' /\ LengthInv'
  <1> USE FSAssumption DEF TypeOK, FSTypeOK, CacheInv, LengthInv
  <1>1. CASE chunk' = chunk /\ disk' = disk /\ len' = len
    BY <1>1
  <1>2. CASE WriteChunk(d)
    <2>1. fd[d] \in Inodes /\ disk' = disk
      BY <1>2 DEF WriteChunk, Sweeping, HandleOK, HandleOf, Touching
    <2>2. \A i \in Inodes : len[i] \in Int /\ len'[i] \in Int /\ len[i] <= len'[i]
      BY <1>2, <2>1 DEF WriteChunk, WriteAt
    <2>3. LengthInv'
      <3> SUFFICES ASSUME NEW i \in Inodes, NEW b \in Chunks, disk'[i][b] = "user"
                   PROVE  b <= len'[i]
        OBVIOUS
      <3>1. b <= len[i] /\ b \in Int
        BY <2>1 DEF Chunks
      <3> QED
        BY <2>2, <3>1
    <2>4. Shrinks
      BY <1>2, ActShrinks
    <2> QED
      BY <2>1, <2>3, <2>4 DEF Shrinks
  <1>3. CASE EndWrite(d)
    BY <1>3 DEF EndWrite, SyncFile
  <1>4. CASE Truncate(d)
    BY <1>4 DEF Truncate, TruncateFile
  <1>5. CASE Rename(d) \/ Unlink(d)
    BY <1>5, <1>1 DEF Rename, Unlink
  <1>6. QED
    BY <1>1, <1>2, <1>3, <1>4, <1>5, ActQuiet

(* The blocks that Truncate and Unlink free are clean.                     *)
LEMMA ActReleased ==
  ASSUME TypeOK, HandleOK, NoDataReleased, NEW d \in Calls, CallInv(d), Act(d)
  PROVE  NoDataReleased'
  <1> USE DEF NoDataReleased
  <1>1. CASE lost' = lost
    BY <1>1
  <1>2. CASE Truncate(d)
    <2>1. fd[d] \in Inodes /\ Wiped(d)
      BY <1>2 DEF Truncate, HandleOK, HandleOf, Touching, Wiped
    <2>2. Held(fd[d]) = {}
      BY <2>1 DEF CallInv, WipedInv, Mine, Clean, Held
    <2> QED
      BY <1>2, <2>2 DEF Truncate, TruncateFile
  <1>3. CASE Unlink(d)
    <2>1. dirent[d] \in Inodes
      BY <1>3 DEF Unlink, HandleOK, HandleOf
    <2>2. Held(dirent[d]) = {}
      BY <2>1 DEF CallInv, TempInv, Clean, Held
    <2> QED
      BY <1>3, <2>2 DEF Unlink, UnlinkEntry
  <1>4. QED
    BY <1>1, <1>2, <1>3, ActQuiet DEF WriteChunk, EndWrite, Rename

(* What the call's own steps do to its invariant.                          *)
LEMMA OwnReturn ==
  ASSUME TypeOK, NEW c \in Calls, CallInv(c), NEW o \in Failures, Return(c, o)
  PROVE  CallInv(c)'
  BY FSAssumption DEF TypeOK, FSTypeOK, CallInv, HandleInv, SizeInv, WriteInv, callVars,
     WipedInv, TempInv, Running, Wiped, Clean, Return, Leave, Goto, CloseHandle,
     Failures, Done, Touching

LEMMA OwnAdmit ==
  ASSUME TypeOK, HandleOK, LengthInv, NEW c \in Calls, CallInv(c), Admit(c)
  PROVE  CallInv(c)'
  <1> USE FSAssumption, ShredAssumption DEF TypeOK, FSTypeOK
  <1>1. /\ UNCHANGED <<dirent, len, chunk, disk, fd>> /\ pc[c] = "idle" /\ pc'[c] = "open"
        /\ size'[c] = len[dirent[Request[c]]] /\ purpose'[c] = purpose[c]
    BY DEF Admit, Goto, fsVars
  <1>2. fd[c] = NoInode
    BY <1>1 DEF CallInv, HandleInv, Touching
  <1>3. purpose'[c] = "passes"
    BY <1>1 DEF HandleOK, HandleOf, AtStart
  <1>4. \A i \in Mine(c)' : i \in Inodes /\ i = dirent[Request[c]]
    BY <1>1, <1>2 DEF Mine
  <1>5. SizeInv(c)'
    BY <1>1, <1>4 DEF SizeInv, LengthInv
  <1>6. HandleInv(c)' /\ WriteInv(c)' /\ TempInv(c)'
    BY <1>1, <1>2 DEF CallInv, HandleInv, WriteInv, TempInv, Clean, Touching
  <1>7. WipedInv(c)'
    BY <1>1, <1>3 DEF WipedInv, Wiped
  <1> QED
    BY <1>5, <1>6, <1>7 DEF CallInv

LEMMA OwnOpen ==
  ASSUME TypeOK, NEW c \in Calls, CallInv(c), OpenFile(c)
  PROVE  CallInv(c)'
  <1> USE FSAssumption, ShredAssumption DEF TypeOK, FSTypeOK
  <1>1. /\ UNCHANGED <<fsVars, purpose, size, pass, sweep, off>>
        /\ pc[c] = "open" /\ pc'[c] = "flock"
        /\ fd'[c] = dirent[Request[c]] /\ dirent[Request[c]] \in Inodes
    BY DEF OpenFile, HandleOpened, Openable, Goto, Names, callVars
  <1>2. Mine(c)' \subseteq Mine(c)
    BY <1>1 DEF Mine, fsVars
  <1>3. SizeInv(c)' /\ WipedInv(c)'
    BY <1>1, <1>2 DEF CallInv, SizeInv, WipedInv, Wiped, Running, Done, Clean,
       fsVars
  <1>4. HandleInv(c)' /\ WriteInv(c)' /\ TempInv(c)'
    BY <1>1 DEF CallInv, HandleInv, WriteInv, TempInv, Clean, fsVars
  <1> QED
    BY <1>3, <1>4 DEF CallInv

LEMMA OwnFlock ==
  ASSUME TypeOK, HandleOK, NEW c \in Calls, CallInv(c), FlockTaken(c) \/ FlockRetry(c)
  PROVE  CallInv(c)'
  <1> USE FSAssumption, ShredAssumption DEF TypeOK, FSTypeOK
  <1>1. CASE FlockRetry(c)
    <2>1. UNCHANGED <<fsVars, pc, fd, purpose, size, pass, sweep, off>> /\ pc[c] = "flock"
      BY <1>1 DEF FlockRetry, HandleRetries, callVars
    <2> QED
      BY <2>1 DEF CallInv, HandleInv, SizeInv, WriteInv,
         WipedInv, TempInv, Running, Wiped, Clean, Mine, fsVars
  <1>2. CASE FlockTaken(c)
    <2>1. /\ UNCHANGED <<dirent, chunk, disk, purpose, size, pass, sweep, off, fd>>
          /\ pc[c] = "flock"
          /\ pc'[c] = IF purpose[c] = "passes" THEN "sweep" ELSE "truncate"
      BY <1>2 DEF FlockTaken, HandleLocked, Goto, callVars
    <2>2. Mine(c)' = Mine(c)
      BY <2>1 DEF Mine
    <2>3. purpose[c] = "passes" => pass[c] = 1 /\ sweep[c] = 1 /\ off[c] = 0
      BY <2>1 DEF HandleOK, HandleOf, AtStart
    <2>4. Wiped(c)' => Wiped(c)
      BY <2>1, <2>3 DEF Wiped
    <2>5. HandleInv(c)' /\ SizeInv(c)' /\ WipedInv(c)' /\ TempInv(c)'
      BY <2>1, <2>2, <2>4 DEF CallInv, HandleInv, SizeInv, WipedInv, TempInv,
         Running, Clean, Done, Touching
    <2>6. WriteInv(c)'
      BY <2>1, <2>3 DEF WriteInv, Chunks
    <2> QED
      BY <2>5, <2>6 DEF CallInv
  <1> QED
    BY <1>1, <1>2

LEMMA OwnWrite ==
  ASSUME TypeOK, HandleOK, CacheInv, NEW c \in Calls, CallInv(c), WriteChunk(c)
  PROVE  CallInv(c)'
  <1> USE FSAssumption, ShredAssumption DEF TypeOK, FSTypeOK
  <1>1. /\ UNCHANGED <<dirent, disk, pc, purpose, size, pass, sweep, fd>>
        /\ pc[c] = "sweep" /\ off'[c] = off[c] + 1 /\ off[c] + 1 \in Chunks
        /\ fd[c] \in Inodes /\ Current(c).act = "write"
    BY DEF WriteChunk, Sweeping, HandleOK, HandleOf, Touching, Chunks
  <1>2. Mine(c)' = Mine(c) /\ (Wiped(c)' <=> Wiped(c))
    BY <1>1 DEF Mine, Wiped
  <1>3. HandleInv(c)' /\ SizeInv(c)' /\ WipedInv(c)' /\ TempInv(c)'
    BY <1>1, <1>2 DEF CallInv, HandleInv, SizeInv, WipedInv, TempInv, Running, Clean
  <1>4. WriteInv(c)'
    <2> SUFFICES ASSUME NEW b \in Chunks, b <= off[c] + 1
                 PROVE  chunk'[fd[c]][b] # "user"
      BY <1>1 DEF WriteInv
    <2>1. chunk'[fd[c]] = [chunk[fd[c]] EXCEPT ![off[c] + 1] = Current(c).byte]
      BY <1>1 DEF WriteChunk, WriteAt
    <2>2. CASE b = off[c] + 1
      <3>1. Current(c).byte # "user"
        BY CurrentType DEF Patterns
      <3> QED
        BY <1>1, <2>1, <2>2, <3>1
    <2>3. CASE b # off[c] + 1
      <3>1. b <= off[c]
        BY <2>3 DEF Chunks
      <3>2. chunk[fd[c]][b] # "user"
        BY <1>1, <3>1 DEF CallInv, WriteInv
      <3> QED
        BY <1>1, <2>1, <2>3, <3>2
    <2> QED
      BY <2>2, <2>3
  <1> QED
    BY <1>3, <1>4 DEF CallInv

(* The step that matters: with every chunk of the statted size written and *)
(* the file synced, no user data is left on the device.                    *)
LEMMA OwnEndWrite ==
  ASSUME TypeOK, HandleOK, CacheInv, NEW c \in Calls, CallInv(c), EndWrite(c)
  PROVE  CallInv(c)'
  <1> USE FSAssumption, ShredAssumption DEF TypeOK, FSTypeOK
  <1>1. /\ pc[c] = "sweep" /\ off[c] = size[c] /\ fd[c] \in Inodes
        /\ UNCHANGED <<dirent, chunk, size>> /\ Advance(c) /\ Current(c).act = "write"
        /\ disk' = [disk EXCEPT ![fd[c]] = chunk[fd[c]]]
    BY DEF EndWrite, Sweeping, SyncFile, HandleOK, HandleOf, Touching
  <1>2. /\ off'[c] = 0 /\ pc'[c] \in {"sweep", "open"}
        /\ pc'[c] = "sweep" => fd' = fd
        /\ pc'[c] = "open" => fd'[c] = NoInode
    BY <1>1, AdvanceEffects
  <1>3. \A b \in Chunks : chunk[fd[c]][b] # "user"
    <2> SUFFICES ASSUME NEW b \in Chunks, chunk[fd[c]][b] = "user" PROVE FALSE
      OBVIOUS
    <2>1. disk[fd[c]][b] = "user"
      BY <1>1 DEF CacheInv
    <2>2. b <= size[c]
      BY <1>1, <2>1 DEF CallInv, SizeInv, Running, Mine, Done
    <2>3. b > off[c]
      BY <1>1 DEF CallInv, WriteInv, Chunks
    <2> QED
      BY <1>1, <2>2, <2>3 DEF Chunks
  <1>4. \A b \in Chunks : disk'[fd[c]][b] # "user"
    BY <1>1, <1>3
  <1>5. fd'[c] \in {fd[c], NoInode}
    BY <1>2
  <1>6. \A i \in Mine(c)' : i = fd[c]
    BY <1>1, <1>5 DEF Mine, CallInv, HandleInv
  <1>7. HandleInv(c)' /\ WriteInv(c)'
    BY <1>1, <1>2, <1>5 DEF CallInv, HandleInv, WriteInv, Touching, Chunks
  <1>8. SizeInv(c)' /\ WipedInv(c)'
    <2>1. \A i \in Mine(c)', b \in Chunks : disk'[i][b] # "user"
      BY <1>4, <1>6
    <2> QED
      BY <2>1 DEF SizeInv, WipedInv, Clean
  <1>9. TempInv(c)'
    <2>1. \A i \in Inodes : Clean(i) => Clean(i)'
      BY <1>1, <1>4 DEF Clean
    <2> QED
      BY <1>1, <2>1 DEF CallInv, TempInv
  <1> QED
    BY <1>7, <1>8, <1>9 DEF CallInv

LEMMA OwnRead ==
  ASSUME TypeOK, HandleOK, NEW c \in Calls, CallInv(c),
         ReadChunk(c) \/ EndRead(c) \/ ReportMismatch(c)
  PROVE  CallInv(c)'
  <1> USE FSAssumption, ShredAssumption DEF TypeOK, FSTypeOK
  <1>1. /\ UNCHANGED <<dirent, chunk, disk, size>> /\ pc[c] = "sweep"
        /\ Current(c).act # "write"
        /\ \/ UNCHANGED <<pc, fd, purpose, pass, sweep>>
           \/ Advance(c)
    BY DEF ReadChunk, EndRead, ReportMismatch, Sweeping, fsVars
  <1>2. Wiped(c)
    <2>1. sweep[c] > 1
      BY <1>1, CurrentType
    <2> QED
      BY <1>1, <2>1 DEF Wiped
  <1>3. /\ pc'[c] \in {"sweep", "open"}
        /\ pc'[c] = "sweep" => fd'[c] = fd[c]
        /\ pc'[c] = "open" => fd'[c] = NoInode
    BY <1>1, AdvanceEffects
  <1>4. Mine(c)' \subseteq Mine(c)
    BY <1>1, <1>3 DEF Mine
  <1>5. \A i \in Mine(c)' : Clean(i)'
    BY <1>1, <1>2, <1>4 DEF CallInv, WipedInv, Clean, Mine
  <1>6. SizeInv(c)' /\ WipedInv(c)'
    BY <1>5 DEF SizeInv, WipedInv, Clean
  <1>7. HandleInv(c)' /\ TempInv(c)'
    BY <1>1, <1>3 DEF CallInv, HandleInv, TempInv, Clean, Touching
  <1>8. WriteInv(c)'
    <2>1. CASE UNCHANGED <<pc, fd, purpose, pass, sweep>>
      BY <1>1, <2>1 DEF WriteInv, Current
    <2>2. CASE Advance(c)
      <3>1. off'[c] = 0
        BY <1>1, <2>2, AdvanceEffects, Zenon
      <3>2. \A b \in Chunks : ~(b <= off'[c])
        BY <3>1 DEF Chunks
      <3> QED
        BY <3>2, Zenon DEF WriteInv
    <2> QED
      BY <1>1, <2>1, <2>2
  <1> QED
    BY <1>6, <1>7, <1>8 DEF CallInv

LEMMA OwnTruncate ==
  ASSUME TypeOK, HandleOK, CacheInv, NEW c \in Calls, CallInv(c), Truncate(c)
  PROVE  CallInv(c)'
  <1> USE FSAssumption, ShredAssumption DEF TypeOK, FSTypeOK
  <1>1. /\ UNCHANGED <<dirent, size>> /\ pc[c] = "truncate" /\ pc'[c] = "rename"
        /\ fd'[c] = NoInode
    BY DEF Truncate, CloseHandle, Goto, callVars
  <1>2. Shrinks
    BY ActShrinks DEF Act
  <1>3. Mine(c)' \subseteq Mine(c)
    BY <1>1 DEF Mine
  <1>4. \A i \in Inodes : Clean(i) => Clean(i)'
    BY <1>2 DEF Clean, Shrinks
  <1>5. \A i \in Mine(c)' : Clean(i)'
    BY <1>1, <1>3, <1>4 DEF CallInv, WipedInv, Wiped, Mine
  <1>6. SizeInv(c)' /\ WipedInv(c)'
    BY <1>5 DEF SizeInv, WipedInv, Clean
  <1>7. HandleInv(c)' /\ WriteInv(c)' /\ TempInv(c)'
    BY <1>1, <1>4 DEF CallInv, HandleInv, WriteInv, TempInv, Touching
  <1> QED
    BY <1>6, <1>7 DEF CallInv

LEMMA OwnNames ==
  ASSUME TypeOK, NEW c \in Calls, CallInv(c), Rename(c) \/ Unlink(c)
  PROVE  CallInv(c)'
  <1> USE FSAssumption, ShredAssumption DEF TypeOK, FSTypeOK, Names
  <1>1. /\ UNCHANGED <<chunk, disk, size, fd>> /\ Wiped(c)
        /\ pc[c] \in {"rename", "unlink"} /\ pc'[c] \in {"unlink", "backfill", "exists"}
        /\ fd[c] = NoInode
    BY DEF Rename, Unlink, Goto, Wiped, CallInv, HandleInv, Touching, callVars
  <1>2. dirent'[Request[c]] \in {dirent[Request[c]], NoInode}
    BY DEF Rename, RenameEntry, Unlink, UnlinkEntry
  <1>3. dirent'[c] \in {dirent[Request[c]], NoInode}
    BY DEF Rename, RenameEntry, Unlink, UnlinkEntry
  <1>4. Mine(c)' \subseteq Mine(c)
    BY <1>1, <1>2 DEF Mine
  <1>5. \A i \in Mine(c) : Clean(i)'
    BY <1>1 DEF CallInv, WipedInv, Clean, Mine
  <1>6. SizeInv(c)' /\ WipedInv(c)'
    BY <1>4, <1>5 DEF SizeInv, WipedInv, Clean
  <1>7. TempInv(c)'
    BY <1>3, <1>5 DEF TempInv, Mine
  <1>8. HandleInv(c)' /\ WriteInv(c)'
    BY <1>1 DEF HandleInv, WriteInv, Touching
  <1> QED
    BY <1>6, <1>7, <1>8 DEF CallInv

LEMMA OwnTail ==
  ASSUME TypeOK, NEW c \in Calls, CallInv(c), FillChunk(c) \/ EndFill(c) \/ CheckGone(c)
  PROVE  CallInv(c)'
  <1> USE DEF TypeOK
  <1>1. /\ UNCHANGED <<dirent, chunk, disk, fd, size>> /\ pc[c] \in {"backfill", "exists"}
    BY DEF FillChunk, EndFill, CheckGone, callVars, fsVars
  <1>2. pc'[c] \in {"backfill", "exists", "ok"}
    <2>1. CASE FillChunk(c)
      BY <2>1 DEF FillChunk
    <2>2. CASE EndFill(c) \/ CheckGone(c)
      BY <2>2 DEF EndFill, CheckGone, Goto
    <2> QED
      BY <2>1, <2>2
  <1>3. Wiped(c)
    BY <1>1 DEF Wiped
  <1> QED
    BY <1>1, <1>2, <1>3 DEF CallInv, HandleInv, SizeInv, WriteInv, WipedInv, TempInv, Running,
       Mine, Clean, Touching, Done

LEMMA InitIInv == Init => IInv
  <1> SUFFICES ASSUME Init PROVE IInv
    OBVIOUS
  <1> USE FSAssumption, ShredAssumption
  <1>1. TypeOK /\ HandleOK
    BY InitTypeOK, InitHandleOK
  <1>2. CacheInv /\ LengthInv /\ NoDataReleased
    BY DEF Init, FSInit, CacheInv, LengthInv, NoDataReleased
  <1>3. ASSUME NEW c \in Calls PROVE CallInv(c)
    <2>1. pc[c] = "idle" /\ fd[c] = NoInode /\ dirent[c] = NoInode
      BY DEF Init, HandleInit, FSInit, Names
    <2> QED
      BY <2>1 DEF CallInv, HandleInv, SizeInv, WriteInv, WipedInv, TempInv, Running,
         Wiped, Touching
  <1> QED
    BY <1>1, <1>2, <1>3 DEF IInv

(* After a power loss the page cache is what the device holds and no call  *)
(* runs.                                                                   *)
LEMMA PowerLossIInv == ASSUME IInv, PowerLoss PROVE IInv'
  <1> USE FSAssumption, ShredAssumption
  <1>1. TypeOK' /\ HandleOK'
    BY StepTypeOK, StepHandleOK DEF IInv, Next
  <1>2. CacheInv' /\ LengthInv' /\ NoDataReleased'
    BY DEF IInv, PowerLoss, LosePower, CacheInv, LengthInv, NoDataReleased
  <1>3. ASSUME NEW c \in Calls PROVE CallInv(c)'
    <2>1. /\ UNCHANGED <<dirent, disk>> /\ fd'[c] = NoInode
          /\ pc'[c] \in Done \cup {"idle"}
      BY DEF PowerLoss, LosePower, IInv, TypeOK, Running, Done
    <2>2. TempInv(c)'
      BY <2>1 DEF IInv, CallInv, TempInv, Clean
    <2> QED
      BY <2>1, <2>2 DEF CallInv, HandleInv, SizeInv, WriteInv, WipedInv, Running,
         Wiped, Done
  <1> QED
    BY <1>1, <1>2, <1>3 DEF IInv

LEMMA ActIInv == ASSUME IInv, NEW d \in Calls, Act(d), Next PROVE IInv'
  <1>1. TypeOK' /\ HandleOK'
    BY StepTypeOK, StepHandleOK DEF IInv
  <1>2. CacheInv' /\ LengthInv' /\ NoDataReleased'
    BY ActData, ActReleased DEF IInv
  <1>3. CallInv(d)'
    BY OwnReturn, OwnAdmit, OwnOpen, OwnFlock, OwnWrite, OwnEndWrite, OwnRead,
       OwnTruncate, OwnNames, OwnTail DEF Act, IInv
  <1>4. ASSUME NEW c \in Calls, c # d PROVE CallInv(c)'
    <2>1. Shrinks /\ PathsShrink /\ Untouched(c)
      BY <1>4, ActShrinks, ActPaths, ActOthers DEF IInv
    <2> QED
      BY <2>1, OtherCallInv DEF IInv
  <1> QED
    BY <1>1, <1>2, <1>3, <1>4 DEF IInv

LEMMA StutterIInv == ASSUME IInv, UNCHANGED vars PROVE IInv'
  <1>1. TypeOK' /\ HandleOK'
    BY StutterTypeOK, StepHandleOK DEF IInv
  <1> USE DEF vars, fsVars, callVars
  <1>2. CacheInv' /\ LengthInv' /\ NoDataReleased'
    BY DEF IInv, CacheInv, LengthInv, NoDataReleased
  <1>3. ASSUME NEW c \in Calls PROVE CallInv(c)'
    BY DEF IInv, CallInv, HandleInv, SizeInv, WriteInv, WipedInv, TempInv, Running,
       Wiped, Mine, Clean, Current
  <1> QED
    BY <1>1, <1>2, <1>3 DEF IInv

LEMMA Inductive == Spec => []IInv
  <1>1. ASSUME IInv, [Next]_vars PROVE IInv'
    <2>1. CASE UNCHANGED vars
      BY <1>1, <2>1, StutterIInv
    <2>2. CASE Next
      BY <1>1, <2>2, NextCases, PowerLossIInv, ActIInv
    <2> QED
      BY <1>1, <2>1, <2>2
  <1> QED
    BY <1>1, InitIInv, PTL DEF Spec

(* Whatever the algorithm, and however many calls run, interleave, fail    *)
(* and die, no block goes back to the free pool with user data in it.      *)
THEOREM DataNeverReleased == Spec => []NoDataReleased
  <1>1. IInv => NoDataReleased
    BY DEF IInv
  <1> QED
    BY <1>1, Inductive, PTL

-----------------------------------------------------------------------------
(***************************************************************************)
(* Names.                                                                  *)
(***************************************************************************)
(* A step moves no path, or it is the renaming of a clean file.            *)
LEMMA PathStep ==
  ASSUME IInv, [Next]_vars
  PROVE  \/ \A n \in Paths : dirent'[n] = dirent[n]
         \/ \E c \in Calls :
              /\ dirent[Request[c]] \in Inodes
              /\ Clean(dirent[Request[c]])
              /\ \A n \in Paths : dirent'[n] = IF n = Request[c] THEN NoInode ELSE dirent[n]
              /\ UNCHANGED disk
  <1> USE FSAssumption, ShredAssumption DEF IInv, TypeOK, FSTypeOK, Names
  <1>1. CASE dirent' = dirent
    BY <1>1
  <1>2. ASSUME NEW c \in Calls, Rename(c)
        PROVE  /\ dirent[Request[c]] \in Inodes
               /\ Clean(dirent[Request[c]])
               /\ \A n \in Paths : dirent'[n] = IF n = Request[c] THEN NoInode ELSE dirent[n]
               /\ UNCHANGED disk
    <2>1. dirent[Request[c]] \in Inodes /\ Wiped(c)
      BY <1>2 DEF Rename, Wiped
    <2>2. Clean(dirent[Request[c]])
      BY <2>1 DEF CallInv, WipedInv, Mine
    <2> QED
      BY <1>2, <2>1, <2>2 DEF Rename, RenameEntry
  <1>3. ASSUME NEW c \in Calls, Unlink(c) PROVE \A n \in Paths : dirent'[n] = dirent[n]
    BY <1>3 DEF Unlink, UnlinkEntry
  <1>4. CASE UNCHANGED vars
    BY <1>1, <1>4 DEF vars, fsVars
  <1>5. CASE PowerLoss
    BY <1>1, <1>5 DEF PowerLoss, LosePower
  <1>6. ASSUME NEW c \in Calls, Act(c), ~Rename(c), ~Unlink(c) PROVE dirent' = dirent
    BY <1>6, ActQuiet DEF WriteChunk, EndWrite, Truncate
  <1> QED
    BY <1>1, <1>2, <1>3, <1>4, <1>5, <1>6, NextCases

(* A file that still holds user data keeps a name its user knows, at every *)
(* step of every call and at a power loss.                                 *)
THEOREM OrphansOnlyWiped == Spec => NeverOrphansData
  <1>1. ASSUME IInv, [Next]_vars,
               NEW i \in Inodes, Named(i), (Held(i) # {})'
        PROVE  Named(i)'
    <2>1. PICK n \in Paths : dirent[n] = i
      BY <1>1 DEF Named
    <2>2. CASE \A m \in Paths : dirent'[m] = dirent[m]
      BY <2>1, <2>2 DEF Named
    <2>3. ASSUME NEW c \in Calls, Clean(dirent[Request[c]]), UNCHANGED disk,
                 \A m \in Paths : dirent'[m] = IF m = Request[c] THEN NoInode ELSE dirent[m]
          PROVE  Named(i)'
      <3>1. i # dirent[Request[c]]
        BY <1>1, <2>3 DEF Clean, Held
      <3>2. n # Request[c]
        BY <2>1, <3>1
      <3>3. dirent'[n] = i
        BY <2>1, <2>3, <3>2
      <3> QED
        BY <3>3 DEF Named
    <2> QED
      BY <1>1, <2>2, <2>3, PathStep
  <1>2. IInv /\ [Next]_vars =>
          \A i \in Inodes : Named(i) /\ (Held(i) # {})' => Named(i)'
    BY <1>1
  <1> QED
    BY <1>2, Inductive, PTL DEF Spec, NeverOrphansData

-----------------------------------------------------------------------------
(***************************************************************************)
(* Refinement: held user data shrinks on one inode at a time, and only     *)
(* while no name moves.                                                    *)
(***************************************************************************)
HeldMap == [i \in Inodes |-> Held(i)]
NamedSet == {i \in Inodes : Named(i)}

LEMMA HeldStep ==
  ASSUME IInv, [Next]_vars
  PROVE  \/ disk' = disk
         \/ \E j \in Inodes :
              /\ \A i \in Inodes \ {j} : Held(i)' = Held(i)
              /\ Held(j)' \in SUBSET Held(j)
              /\ dirent' = dirent
  <1> USE FSAssumption, ShredAssumption DEF IInv, TypeOK, FSTypeOK
  <1>1. ASSUME NEW c \in Calls, EndWrite(c) \/ Truncate(c)
        PROVE  \E j \in Inodes :
                 /\ \A i \in Inodes \ {j} : Held(i)' = Held(i)
                 /\ Held(j)' \in SUBSET Held(j)
                 /\ dirent' = dirent
    <2>1. PICK j \in Inodes : j = fd[c]
      BY <1>1 DEF EndWrite, Sweeping, Truncate, HandleOK, HandleOf, Touching
    <2>2. dirent' = dirent /\ \A i \in Inodes \ {j} : disk'[i] = disk[i]
      BY <1>1, <2>1 DEF EndWrite, Truncate, SyncFile, TruncateFile
    <2>3. Shrinks
      BY <1>1, ActShrinks DEF Act
    <2>4. Held(j)' \subseteq Held(j)
      BY <2>3 DEF Held, Shrinks
    <2>5. \A i \in Inodes \ {j} : Held(i)' = Held(i)
      BY <2>2 DEF Held
    <2> QED
      BY <2>2, <2>4, <2>5
  <1>2. CASE PowerLoss \/ UNCHANGED vars
    BY <1>2 DEF PowerLoss, LosePower, vars, fsVars
  <1>3. ASSUME NEW c \in Calls, Act(c), ~EndWrite(c), ~Truncate(c) PROVE disk' = disk
    BY <1>3, ActQuiet DEF WriteChunk, Rename, Unlink
  <1>4. QED
    BY <1>1, <1>2, <1>3, NextCases

LEMMA NamedStep ==
  ASSUME IInv, [Next]_vars, disk' = disk
  PROVE  \/ NamedSet' = NamedSet
         \/ \E j \in Inodes : Held(j) = {} /\ NamedSet' = NamedSet \ {j}
  <1>1. CASE \A n \in Paths : dirent'[n] = dirent[n]
    <2>1. \A i \in Inodes : Named(i)' <=> Named(i)
      BY <1>1 DEF Named
    <2> QED
      BY <2>1 DEF NamedSet
  <1>2. ASSUME NEW c \in Calls,
               dirent[Request[c]] \in Inodes,
               Clean(dirent[Request[c]]),
               \A n \in Paths : dirent'[n] = IF n = Request[c] THEN NoInode ELSE dirent[n]
        PROVE  \E j \in Inodes :
                 Held(j) = {} /\ (NamedSet' = NamedSet \/ NamedSet' = NamedSet \ {j})
    <2>1. PICK j \in Inodes : j = dirent[Request[c]]
      BY <1>2
    <2>2. Held(j) = {}
      BY <1>2, <2>1 DEF Clean, Held
    <2>3. \A i \in Inodes \ {j} : Named(i)' <=> Named(i)
      BY <1>2, <2>1, FSAssumption DEF Named
    <2>4. Named(j)
      BY <2>1, ShredAssumption DEF Named
    <2>5. CASE Named(j)'
      BY <2>2, <2>3, <2>4, <2>5 DEF NamedSet
    <2>6. CASE ~Named(j)'
      BY <2>2, <2>3, <2>6 DEF NamedSet
    <2> QED
      BY <2>5, <2>6
  <1>3. QED
    BY <1>1, <1>2, PathStep

LEMMA InitPromise == Init => Promise!Init
  <1> SUFFICES ASSUME Init PROVE Promise!Init
    OBVIOUS
  <1>1. lost = {}
    BY DEF Init, HandleInit, FSInit
  <1>2. HeldMap \in [Inodes -> SUBSET Chunks]
    BY DEF HeldMap, Held
  <1> QED
    BY <1>1, <1>2 DEF Promise!Init, HeldMap

LEMMA StepPromise ==
  ASSUME IInv, IInv', [Next]_vars
  PROVE  [Promise!Next]_<<HeldMap, NamedSet, lost>>
  <1>1. lost' = lost
    BY DEF IInv, NoDataReleased
  <1>2. CASE disk' = disk
    <2>1. HeldMap' = HeldMap
      BY <1>2 DEF HeldMap, Held
    <2>2. ASSUME NEW j \in Inodes, Held(j) = {}, NamedSet' = NamedSet \ {j}
          PROVE  Promise!Forget(j)
      <3>1. HeldMap[j] = {}
        BY <2>2 DEF HeldMap
      <3> QED
        BY <1>1, <2>1, <2>2, <3>1 DEF Promise!Forget, HeldMap, NamedSet
    <2> QED
      BY <1>1, <1>2, <2>1, <2>2, NamedStep DEF Promise!Next
  <1>3. ASSUME NEW j \in Inodes,
               \A i \in Inodes \ {j} : Held(i)' = Held(i),
               Held(j)' \in SUBSET Held(j),
               dirent' = dirent
        PROVE  Promise!Overwrite(j)
    <2>1. NamedSet' = NamedSet
      BY <1>3 DEF NamedSet, Named
    <2>2. PICK rest \in SUBSET HeldMap[j] : rest = Held(j)'
      BY <1>3 DEF HeldMap
    <2>3. HeldMap' = [HeldMap EXCEPT ![j] = rest]
      BY <1>3, <2>2 DEF HeldMap
    <2> QED
      BY <1>1, <2>1, <2>2, <2>3 DEF Promise!Overwrite, HeldMap, NamedSet
  <1>4. QED
    BY <1>2, <1>3, HeldStep DEF Promise!Next

(* For any set of calls, every step is an overwriting of user data in place *)
(* or the loss of a clean file's name, as the abstract module promises.    *)
THEOREM Refinement == Spec => ImplementsErasure
  <1>1. IInv /\ IInv' /\ [Next]_vars => [Promise!Next]_<<HeldMap, NamedSet, lost>>
    BY StepPromise
  <1> QED
    BY <1>1, InitPromise, Inductive, PTL DEF Spec, ImplementsErasure, Promise!Spec,
       HeldMap, NamedSet
-----------------------------------------------------------------------------
(***************************************************************************)
(* What a call reads back.                                                 *)
(***************************************************************************)
Locked(c) == pc[c] \in Touching => lock[fd[c]] = c

(* Under its own flock a write sweep has put its byte in every chunk it    *)
(* has come to, and a read-back finds it in every chunk of the file.       *)
ReadInv(c) ==
  pc[c] = "sweep" =>
    LET done == IF Current(c).act = "write" THEN off[c] ELSE size[c]
    IN  /\ done <= len[fd[c]]
        /\ \A b \in Chunks : b <= done => chunk[fd[c]][b] = Current(c).byte

Gone(c) == pc[c] \in {"unlink", "backfill", "exists"} => dirent[Request[c]] = NoInode

Satisfied(c) == verified[c] /\ pc[c] # "mismatch"

ReadIInv == \A c \in Calls : Locked(c) /\ ReadInv(c) /\ Gone(c) /\ Satisfied(c)

(* The locks of the others are left alone.                                 *)
LEMMA OtherLocked ==
  ASSUME TypeOK, HandleOK, NEW c \in Calls, Locked(c), NEW d \in Calls, Act(d), c # d
  PROVE  Locked(c)'
  <1> USE FSAssumption DEF TypeOK, FSTypeOK, Locked
  <1>1. pc'[c] = pc[c] /\ fd'[c] = fd[c]
    BY ActOthers DEF Untouched
  <1> SUFFICES ASSUME pc[c] \in Touching PROVE lock'[fd[c]] = c
    BY <1>1
  <1>2. fd[c] \in Inodes /\ lock[fd[c]] = c
    BY DEF HandleOK, HandleOf
  <1>3. CASE lock' = lock
    BY <1>2, <1>3
  <1>4. CASE DropLocks(d)
    BY <1>2, <1>4 DEF DropLocks
  <1>5. CASE FlockTaken(d)
    BY <1>2, <1>5 DEF FlockTaken, HandleLocked, FlockFree, LockFree, TakeLock, HandleOK, HandleOf
  <1>6. CASE EndWrite(d) \/ EndRead(d) \/ ReportMismatch(d)
    BY <1>3, <1>4, <1>6, AdvanceEffects DEF EndWrite, EndRead, ReportMismatch, Sweeping
  <1> QED
    BY <1>3, <1>4, <1>5, <1>6 DEF Act, Return, Leave, Admit, OpenFile, HandleOpened, FlockRetry,
       HandleRetries, WriteChunk, ReadChunk, Truncate, Rename, Unlink, FillChunk, EndFill,
       CheckGone, CloseHandle, fsVars

LEMMA OwnLocked ==
  ASSUME TypeOK, HandleOK, NEW c \in Calls, Locked(c), Act(c)
  PROVE  Locked(c)'
  <1> USE FSAssumption DEF TypeOK, FSTypeOK, Locked, Touching
  <1>1. CASE FlockTaken(c)
    BY <1>1 DEF FlockTaken, HandleLocked, TakeLock, Goto, HandleOK, HandleOf
  <1>2. CASE WriteChunk(c) \/ ReadChunk(c) \/ FillChunk(c)
    BY <1>2 DEF WriteChunk, ReadChunk, FillChunk, fsVars
  <1>3. CASE EndWrite(c) \/ EndRead(c) \/ ReportMismatch(c)
    <2>1. pc[c] = "sweep" /\ Advance(c)
      BY <1>3 DEF EndWrite, EndRead, ReportMismatch, Sweeping
    <2> QED
      BY <2>1, AdvanceEffects
  <1>4. CASE \E o \in Failures : Return(c, o)
    BY <1>4 DEF Return, Leave, Goto, Failures
  <1>5. CASE Admit(c) \/ OpenFile(c) \/ FlockRetry(c)
    BY <1>5 DEF Admit, OpenFile, HandleOpened, FlockRetry, HandleRetries, Goto
  <1>6. CASE Truncate(c) \/ Rename(c) \/ Unlink(c) \/ EndFill(c) \/ CheckGone(c)
    BY <1>6 DEF Truncate, Rename, Unlink, EndFill, CheckGone, Goto
  <1> QED
    BY <1>1, <1>2, <1>3, <1>4, <1>5, <1>6 DEF Act

(* Nobody else changes a file that a call sweeps over.                     *)
LEMMA SweptFileStays ==
  ASSUME TypeOK, HandleOK, NEW c \in Calls, Locked(c), pc[c] = "sweep",
         NEW d \in Calls, Locked(d), Act(d), c # d
  PROVE  chunk'[fd[c]] = chunk[fd[c]] /\ len'[fd[c]] = len[fd[c]]
  <1> USE DEF TypeOK, FSTypeOK
  <1>1. fd[c] \in Inodes /\ lock[fd[c]] = c
    BY DEF HandleOK, HandleOf, Locked, Touching
  <1>2. CASE WriteChunk(d)
    <2>1. fd[d] \in Inodes /\ fd[d] # fd[c]
      BY <1>1, <1>2 DEF WriteChunk, Sweeping, HandleOK, HandleOf, Locked, Touching
    <2> QED
      BY <1>1, <1>2, <2>1 DEF WriteChunk, WriteAt
  <1>3. CASE Truncate(d)
    <2>1. fd[d] \in Inodes /\ fd[d] # fd[c]
      BY <1>1, <1>3 DEF Truncate, HandleOK, HandleOf, Locked, Touching
    <2> QED
      BY <1>1, <1>3, <2>1 DEF Truncate, TruncateFile
  <1> QED
    BY <1>2, <1>3, ActQuiet DEF EndWrite, Rename, Unlink

LEMMA OtherReadInv ==
  ASSUME TypeOK, HandleOK, ReadIInv, NEW c \in Calls, NEW d \in Calls, Act(d), c # d
  PROVE  Locked(c)' /\ ReadInv(c)' /\ Gone(c)' /\ Satisfied(c)'
  <1>1. Untouched(c) /\ PathsShrink
    BY ActOthers, ActPaths
  <1>2. Locked(c)'
    BY OtherLocked DEF ReadIInv
  <1>3. ReadInv(c)'
    <2>1. Current(c)' = Current(c)
      BY <1>1 DEF Untouched, Current
    <2> SUFFICES ASSUME pc[c] = "sweep" PROVE ReadInv(c)'
      BY <1>1 DEF ReadInv, Untouched
    <2>2. chunk'[fd[c]] = chunk[fd[c]] /\ len'[fd[c]] = len[fd[c]]
      BY SweptFileStays DEF ReadIInv
    <2> QED
      BY <1>1, <2>1, <2>2 DEF ReadIInv, ReadInv, Untouched
  <1>4. Gone(c)'
    BY <1>1, ShredAssumption DEF ReadIInv, Gone, Untouched, PathsShrink
  <1>5. Satisfied(c)'
    BY <1>1 DEF ReadIInv, Satisfied, Untouched
  <1> QED
    BY <1>2, <1>3, <1>4, <1>5

(* A read-back that follows a sweep looks for the byte of that sweep.      *)
LEMMA NextSweepByte ==
  ASSUME TypeOK, HandleOK, NEW c \in Calls, Advance(c), pc[c] = "sweep", pc'[c] = "sweep"
  PROVE  Current(c)'.act # "write" => Current(c)'.byte = Current(c).byte
  <1> USE DEF TypeOK
  <1>1. Continues(c)
    BY AdvanceCases DEF Ends
  <1>2. CASE /\ sweep[c] + 1 \in 1..Len(Sweeps(c, pass[c]))
             /\ pass' = pass /\ sweep' = [sweep EXCEPT ![c] = sweep[c] + 1]
    <2>1. pass'[c] = pass[c] /\ sweep'[c] = sweep[c] + 1
      BY <1>2
    <2>2. GoodPass(Sweeps(c, pass[c])) /\ sweep[c] \in Nat \ {0}
      BY SweepsFacts DEF HandleOK, HandleOf
    <2>3. Current(c)' = Sweeps(c, pass[c])[sweep[c] + 1]
      BY <2>1 DEF Current
    <2>4. sweep[c] + 1 > 1 /\ (sweep[c] + 1) - 1 = sweep[c]
      BY <2>2
    <2> QED
      BY <1>2, <2>2, <2>3, <2>4 DEF GoodPass, Current
  <1>3. CASE /\ pass[c] + 1 \in 1..Len(PatternsOf(Algorithm[c]))
             /\ pass' = [pass EXCEPT ![c] = pass[c] + 1] /\ sweep' = [sweep EXCEPT ![c] = 1]
    <2>1. pass'[c] = pass[c] + 1 /\ sweep'[c] = 1
      BY <1>3
    <2>2. GoodPass(Sweeps(c, pass[c] + 1))
      BY <1>3, SweepsFacts
    <2>3. Current(c)' = Sweeps(c, pass[c] + 1)[1]
      BY <2>1 DEF Current
    <2> QED
      BY <2>2, <2>3 DEF GoodPass
  <1> QED
    BY <1>1, <1>2, <1>3 DEF Continues

(* After a sweep that leaves its byte everywhere the next one starts well. *)
LEMMA AdvanceReadInv ==
  ASSUME TypeOK, HandleOK, NEW c \in Calls, Advance(c), pc[c] = "sweep",
         UNCHANGED <<len, chunk, size>>, size[c] <= len[fd[c]],
         \A b \in Chunks : b <= size[c] => chunk[fd[c]][b] = Current(c).byte
  PROVE  ReadInv(c)'
  <1> USE DEF TypeOK, FSTypeOK
  <1> SUFFICES ASSUME pc'[c] = "sweep" PROVE ReadInv(c)'
    BY DEF ReadInv
  <1>1. off'[c] = 0 /\ fd'[c] = fd[c] /\ fd[c] \in Inodes
    BY AdvanceEffects DEF HandleOK, HandleOf, Touching
  <1>2. CASE Current(c)'.act = "write"
    <2>1. 0 <= len[fd[c]] /\ \A b \in Chunks : ~(b <= 0)
      BY <1>1 DEF Chunks
    <2> QED
      BY <1>1, <1>2, <2>1 DEF ReadInv
  <1>3. CASE Current(c)'.act # "write"
    <2>1. Current(c)'.byte = Current(c).byte
      BY <1>3, NextSweepByte
    <2> QED
      BY <1>1, <1>3, <2>1 DEF ReadInv
  <1> QED
    BY <1>2, <1>3

(* No read-back of a call ever fails.                                      *)
LEMMA NoMismatch ==
  ASSUME TypeOK, HandleOK, NEW c \in Calls, ReadInv(c)
  PROVE  ~StrictMismatch(c) /\ ~ReportMismatch(c)
  <1> SUFFICES ASSUME Sweeping(c, {"strict", "report"}), off[c] < size[c]
               PROVE  NextChunkMatches(c)
    BY DEF StrictMismatch, ReportMismatch, Sweeping
  <1> USE DEF TypeOK, FSTypeOK
  <1>1. pc[c] = "sweep" /\ Current(c).act # "write" /\ fd[c] \in Inodes
    BY DEF Sweeping, HandleOK, HandleOf, Touching
  <1>2. off[c] + 1 \in Chunks /\ off[c] + 1 <= size[c]
    BY FSAssumption DEF Chunks
  <1>3. /\ size[c] <= len[fd[c]]
        /\ \A b \in Chunks : b <= size[c] => chunk[fd[c]][b] = Current(c).byte
    BY <1>1 DEF ReadInv
  <1>4. off[c] < len[fd[c]]
    BY <1>1, <1>3
  <1> QED
    BY <1>2, <1>3, <1>4 DEF NextChunkMatches

LEMMA OwnReadInv ==
  ASSUME TypeOK, HandleOK, NEW c \in Calls, ReadInv(c), Act(c)
  PROVE  ReadInv(c)'
  <1> USE FSAssumption DEF TypeOK, FSTypeOK
  <1>1. CASE FlockTaken(c)
    <2>1. /\ pc[c] = "flock" /\ UNCHANGED <<len, chunk, fd, size, pass, sweep, off>>
          /\ pc'[c] = IF purpose[c] = "passes" THEN "sweep" ELSE "truncate"
      BY <1>1 DEF FlockTaken, HandleLocked, Goto, callVars
    <2> SUFFICES ASSUME purpose[c] = "passes" PROVE ReadInv(c)'
      BY <2>1 DEF ReadInv
    <2>2. off[c] = 0 /\ sweep[c] = 1 /\ fd[c] \in Inodes
      BY <2>1 DEF HandleOK, HandleOf, AtStart
    <2>3. Current(c).act = "write" /\ Current(c)' = Current(c)
      BY <2>1, <2>2, CurrentType DEF Current
    <2>4. 0 <= len[fd[c]] /\ \A b \in Chunks : ~(b <= 0)
      BY <2>2 DEF Chunks
    <2> QED
      BY <2>1, <2>2, <2>3, <2>4 DEF ReadInv
  <1>2. CASE WriteChunk(c)
    <2>1. /\ pc[c] = "sweep" /\ UNCHANGED <<pc, fd, size, pass, sweep>>
          /\ Current(c).act = "write" /\ Current(c)' = Current(c)
          /\ off'[c] = off[c] + 1 /\ off[c] + 1 \in Chunks /\ fd[c] \in Inodes
      BY <1>2 DEF WriteChunk, Sweeping, Current, Chunks, HandleOK, HandleOf, Touching
    <2>2. off[c] + 1 <= len'[fd[c]]
      BY <1>2, <2>1 DEF WriteChunk, WriteAt
    <2>3. chunk'[fd[c]] = [chunk[fd[c]] EXCEPT ![off[c] + 1] = Current(c).byte]
      BY <1>2, <2>1 DEF WriteChunk, WriteAt
    <2>4. ASSUME NEW b \in Chunks, b <= off[c] + 1
          PROVE  chunk'[fd[c]][b] = Current(c).byte
      <3>1. CASE b = off[c] + 1
        BY <2>1, <2>3, <3>1
      <3>2. CASE b # off[c] + 1
        <4>1. b <= off[c]
          BY <2>1, <2>4, <3>2 DEF Chunks
        <4>2. chunk[fd[c]][b] = Current(c).byte
          BY <2>1, <4>1 DEF ReadInv
        <4> QED
          BY <2>1, <2>3, <3>2, <4>2
      <3> QED
        BY <3>1, <3>2
    <2> QED
      BY <2>1, <2>2, <2>4 DEF ReadInv
  <1>3. CASE EndWrite(c)
    <2>1. /\ pc[c] = "sweep" /\ Advance(c) /\ off[c] = size[c] /\ Current(c).act = "write"
          /\ UNCHANGED <<len, chunk, size>>
      BY <1>3 DEF EndWrite, Sweeping
    <2> QED
      BY <2>1, AdvanceReadInv DEF ReadInv
  <1>4. CASE ReadChunk(c)
    <2>1. /\ UNCHANGED <<pc, fd, size, pass, sweep, len, chunk>> /\ Current(c)' = Current(c)
          /\ Current(c).act # "write"
      BY <1>4 DEF ReadChunk, Sweeping, Current, fsVars
    <2> QED
      BY <2>1 DEF ReadInv
  <1>5. CASE EndRead(c)
    <2>1. /\ pc[c] = "sweep" /\ Advance(c) /\ Current(c).act # "write"
          /\ UNCHANGED <<len, chunk, size>>
      BY <1>5 DEF EndRead, Sweeping
    <2> QED
      BY <2>1, AdvanceReadInv DEF ReadInv
  <1>6. CASE ~(FlockTaken(c) \/ WriteChunk(c) \/ EndWrite(c) \/ ReadChunk(c) \/ EndRead(c))
    <2>1. pc'[c] # "sweep"
      <3>1. CASE \E o \in Failures : Return(c, o)
        BY <3>1 DEF Return, Leave, Goto, Failures
      <3>2. CASE Admit(c) \/ OpenFile(c) \/ FlockRetry(c)
        BY <3>2 DEF Admit, OpenFile, HandleOpened, FlockRetry, HandleRetries, Goto
      <3>3. CASE Truncate(c) \/ Rename(c) \/ Unlink(c)
        BY <3>3 DEF Truncate, Rename, Unlink, Goto
      <3>4. CASE FillChunk(c) \/ EndFill(c) \/ CheckGone(c)
        BY <3>4 DEF FillChunk, EndFill, CheckGone, Goto
      <3> QED
        BY <1>6, <3>1, <3>2, <3>3, <3>4, NoMismatch DEF Act
    <2> QED
      BY <2>1 DEF ReadInv
  <1> QED
    BY <1>1, <1>2, <1>3, <1>4, <1>5, <1>6

LEMMA OwnGone ==
  ASSUME TypeOK, NEW c \in Calls, Gone(c), Act(c)
  PROVE  Gone(c)'
  <1> USE FSAssumption, ShredAssumption DEF TypeOK, FSTypeOK, Gone, Names
  <1>1. CASE Rename(c) \/ Unlink(c)
    BY <1>1 DEF Rename, RenameEntry, Unlink, UnlinkEntry, Goto
  <1>2. CASE FillChunk(c) \/ EndFill(c) \/ CheckGone(c)
    BY <1>2 DEF FillChunk, EndFill, CheckGone, Goto, fsVars
  <1>3. CASE ~(Rename(c) \/ Unlink(c) \/ FillChunk(c) \/ EndFill(c) \/ CheckGone(c))
    <2>1. pc'[c] \notin {"unlink", "backfill", "exists"}
      <3>1. CASE \E o \in Failures : Return(c, o)
        BY <3>1 DEF Return, Leave, Goto, Failures
      <3>2. CASE Admit(c) \/ OpenFile(c) \/ FlockRetry(c) \/ FlockTaken(c)
        BY <3>2 DEF Admit, OpenFile, HandleOpened, FlockRetry, HandleRetries, FlockTaken,
           HandleLocked, Goto
      <3>3. CASE WriteChunk(c) \/ ReadChunk(c) \/ Truncate(c)
        BY <3>3 DEF WriteChunk, ReadChunk, Truncate, Sweeping, Goto
      <3>4. CASE EndWrite(c) \/ EndRead(c) \/ ReportMismatch(c)
        <4>1. pc[c] = "sweep" /\ Advance(c)
          BY <3>4 DEF EndWrite, EndRead, ReportMismatch, Sweeping
        <4>2. pc' = pc \/ pc' = [pc EXCEPT ![c] = "open"]
          BY <4>1, Zenon DEF Advance, Goto
        <4> QED
          BY <4>1, <4>2
      <3> QED
        BY <1>3, <3>1, <3>2, <3>3, <3>4 DEF Act
    <2> QED
      BY <2>1
  <1> QED
    BY <1>1, <1>2, <1>3

(* The only way to a failed verification is a strict read-back.            *)
LEMMA MismatchOnlyRead ==
  ASSUME TypeOK, HandleOK, Next, NEW c \in Calls, pc[c] # "mismatch", pc'[c] = "mismatch"
  PROVE  StrictMismatch(c)
  <1> USE DEF TypeOK
  <1>1. ~PowerLoss
    BY DEF PowerLoss, LosePower
  <1>2. PICK d \in Calls : Admit(d) \/ Refuse(d) \/ Step(d) \/ Fault(d) \/ Kill(d)
    BY <1>1, Zenon DEF Next
  <1>3. ASSUME NEW o \in {"error", "dead"}, Return(d, o) PROVE FALSE
    BY <1>3 DEF Return, Leave, Goto
  <1>4. ~(Refuse(d) \/ OpenRefused(d) \/ FlockGiveUp(d) \/ RenameFails(d) \/ Fault(d) \/ Kill(d))
    BY <1>3, Zenon DEF Refuse, OpenRefused, FlockGiveUp, RenameFails, Fault, Kill
  <1>5. ~(Admit(d) \/ OpenFile(d) \/ FlockRetry(d) \/ FlockTaken(d))
    BY DEF Admit, OpenFile, HandleOpened, FlockRetry, HandleRetries, FlockTaken, HandleLocked, Goto
  <1>6. ~(WriteChunk(d) \/ ReadChunk(d) \/ Truncate(d) \/ Rename(d) \/ Unlink(d))
    BY DEF WriteChunk, ReadChunk, Truncate, Rename, Unlink, Goto
  <1>7. ~(FillChunk(d) \/ EndFill(d) \/ CheckGone(d))
    BY DEF FillChunk, EndFill, CheckGone, Goto
  <1>8. ~Advance(d)
    <2>1. Advance(d) => pc' = pc \/ pc' = [pc EXCEPT ![d] = "open"]
      BY Zenon DEF Advance, Goto
    <2> QED
      BY <2>1
  <1>9. StrictMismatch(d)
    BY <1>2, <1>4, <1>5, <1>6, <1>7, <1>8, Zenon DEF Step, EndWrite, EndRead, ReportMismatch
  <1>10. c = d
    <2>1. PICK o \in Failures : Return(d, o)
      BY <1>9, Zenon DEF StrictMismatch, Failures
    <2> QED
      BY <2>1 DEF Return, Leave, Goto
  <1> QED
    BY <1>9, <1>10

LEMMA OwnSatisfied ==
  ASSUME TypeOK, HandleOK, NEW c \in Calls, ReadInv(c), Gone(c), Satisfied(c), Next, Act(c)
  PROVE  Satisfied(c)'
  <1> USE DEF TypeOK
  <1>1. pc'[c] # "mismatch"
    BY MismatchOnlyRead, NoMismatch DEF Satisfied
  <1>2. verified'[c]
    <2>1. CASE verified' = verified
      BY <2>1 DEF Satisfied
    <2>2. CASE CheckGone(c)
      <3>1. Resolve(Request[c]) = NoInode
        BY <2>2 DEF CheckGone, Gone, Resolve
      <3> QED
        BY <2>2, <3>1 DEF CheckGone, Satisfied
    <2> QED
      BY <2>1, <2>2, NoMismatch DEF Act, Return, callVars, Admit, OpenFile, FlockTaken, FlockRetry,
         WriteChunk, EndWrite, ReadChunk, EndRead, Truncate, Rename, Unlink, FillChunk, EndFill
  <1> QED
    BY <1>1, <1>2 DEF Satisfied

LEMMA StepReadIInv ==
  ASSUME TypeOK, HandleOK, ReadIInv, [Next]_vars
  PROVE  ReadIInv'
  <1> SUFFICES ASSUME NEW c \in Calls
               PROVE  Locked(c)' /\ ReadInv(c)' /\ Gone(c)' /\ Satisfied(c)'
    BY DEF ReadIInv
  <1>1. Locked(c) /\ ReadInv(c) /\ Gone(c) /\ Satisfied(c)
    BY DEF ReadIInv
  <1>2. CASE UNCHANGED vars
    BY <1>1, <1>2 DEF vars, fsVars, callVars, Locked, ReadInv, Gone, Satisfied, Current
  <1>3. CASE PowerLoss
    <2>1. pc'[c] \in {"dead", "ok", "error", "idle"} /\ verified'[c] = verified[c]
      BY <1>1, <1>3 DEF PowerLoss, LosePower, Running, Done, TypeOK, Satisfied, callVars
    <2> QED
      BY <1>1, <2>1 DEF Locked, ReadInv, Gone, Satisfied, Touching
  <1>4. ASSUME NEW d \in Calls, Act(d), Next
        PROVE  Locked(c)' /\ ReadInv(c)' /\ Gone(c)' /\ Satisfied(c)'
    <2>1. CASE c = d
      BY <1>1, <1>4, <2>1, OwnLocked, OwnReadInv, OwnGone, OwnSatisfied
    <2>2. CASE c # d
      BY <1>4, <2>2, OtherReadInv
    <2> QED
      BY <2>1, <2>2
  <1> QED
    BY <1>2, <1>3, <1>4, NextCases

(* Calls on one path, in any number and with any algorithms, never make    *)
(* each other's read-backs fail nor leave a name that the last look finds. *)
THEOREM ReadBackIsSound == Spec => []ReadBackHolds
  <1>1. Init => ReadIInv
    <2> SUFFICES ASSUME Init, NEW c \in Calls
                 PROVE  Locked(c) /\ ReadInv(c) /\ Gone(c) /\ Satisfied(c)
      BY DEF ReadIInv
    <2>1. pc[c] = "idle" /\ verified[c] = TRUE
      BY DEF Init, HandleInit
    <2> QED
      BY <2>1 DEF Locked, ReadInv, Gone, Satisfied, Touching
  <1>2. ReadIInv => ReadBackHolds
    BY DEF ReadIInv, Satisfied, ReadBackHolds
  <1> QED
    BY <1>1, <1>2, StepReadIInv, TypeAndHandles, PTL DEF Spec

-----------------------------------------------------------------------------
(***************************************************************************)
(* What the other programs leave alone.                                    *)
(***************************************************************************)
Foreign == Others \/ \E i \in Inodes, b \in Chunks : Spoil(i, b)

LEMMA OpenCases ==
  ASSUME [OpenNext]_vars
  PROVE  [Next]_vars \/ Foreign
  BY DEF OpenNext, Foreign

(* They run no call, and only rename, append to or scribble on files.      *)
LEMMA ForeignQuiet ==
  ASSUME TypeOK, Foreign
  PROVE  /\ UNCHANGED <<pc, fd, tries, purpose, size, pass, sweep, off, verified, filled>>
         /\ \A c \in Calls : dirent'[c] = dirent[c]
         /\ \A i \in Inodes, c \in Calls : lock[i] = c => lock'[i] = c
         /\ \A i \in Inodes, b \in Chunks : chunk[i][b] = "user" => chunk'[i][b] = "user"
  <1> USE FSAssumption DEF TypeOK, FSTypeOK
  <1>1. CASE Others
    <2>1. UNCHANGED <<pc, fd, tries, purpose, size, pass, sweep, off, verified, filled>>
      BY <1>1 DEF Others, callVars
    <2>2. ASSUME NEW w \in Writers, NEW n \in Paths, WriterLock(w, n)
          PROVE  /\ UNCHANGED <<dirent, chunk>>
                 /\ \A i \in Inodes, c \in Calls : lock[i] = c => lock'[i] = c
      BY <2>2 DEF WriterLock, LockFree, TakeLock, Names
    <2>3. ASSUME NEW w \in Writers, NEW i \in Inodes, WriterAppend(w, i)
          PROVE  /\ UNCHANGED <<dirent, lock>>
                 /\ \A j \in Inodes, b \in Chunks : chunk[j][b] = "user" => chunk'[j][b] = "user"
      BY <2>3 DEF WriterAppend, WriteAt
    <2>4. ASSUME NEW w \in Writers, WriterUnlock(w)
          PROVE  /\ UNCHANGED <<dirent, chunk>>
                 /\ \A i \in Inodes, c \in Calls : lock[i] = c => lock'[i] = c
      BY <2>4 DEF WriterUnlock, DropLocks
    <2>5. ASSUME NEW n \in Paths, NEW j \in Spare, Rotate(n, j)
          PROVE  /\ UNCHANGED <<chunk, lock>>
                 /\ \A c \in Calls : dirent'[c] = dirent[c]
      BY <2>5, ShredAssumption DEF Rotate, Names
    <2> QED
      BY <1>1, <2>1, <2>2, <2>3, <2>4, <2>5, Zenon DEF Others
  <1>2. ASSUME NEW i \in Inodes, NEW b \in Chunks, Spoil(i, b)
        PROVE  /\ UNCHANGED <<pc, fd, tries, purpose, size, pass, sweep, off, verified, filled>>
               /\ UNCHANGED <<dirent, lock>>
               /\ \A j \in Inodes, k \in Chunks : chunk[j][k] = "user" => chunk'[j][k] = "user"
    BY <1>2 DEF Spoil, Scribble, WriteAt
  <1> QED
    BY <1>1, <1>2, Zenon DEF Foreign

LEMMA ForeignTypeOK == ASSUME TypeOK, Foreign PROVE TypeOK'
  <1> USE FSAssumption, ShredAssumption DEF TypeOK, FSTypeOK
  <1>1. "user" \in Content
    BY DEF Content
  <1>2. ASSUME NEW i \in Inodes, NEW b \in Chunks,
               chunk' = [chunk EXCEPT ![i][b] = "user"],
               disk' = [disk EXCEPT ![i][b] = "user"],
               len' = [len EXCEPT ![i] = IF @ < b THEN b ELSE @]
        PROVE  /\ chunk' \in [Inodes -> [Chunks -> Content]]
               /\ disk' \in [Inodes -> [Chunks -> Content]]
               /\ len' \in [Inodes -> 0..MaxLen]
    <2>1. [chunk[i] EXCEPT ![b] = "user"] \in [Chunks -> Content]
          /\ [disk[i] EXCEPT ![b] = "user"] \in [Chunks -> Content]
      BY <1>1
    <2>2. b \in 0..MaxLen
      BY DEF Chunks
    <2>3. len' \in [Inodes -> 0..MaxLen]
      BY <1>2, <2>2
    <2> QED
      BY <1>2, <2>1, <2>3
  <1>3. CASE Others
    <2>1. UNCHANGED <<pc, fd, tries, purpose, size, pass, sweep, off, verified, filled, spoilt>>
      BY <1>3 DEF Others, callVars
    <2>2. ASSUME NEW w \in Writers, NEW n \in Paths, WriterLock(w, n) PROVE FSTypeOK'
      BY <2>2 DEF WriterLock, TakeLock, Names
    <2>3. ASSUME NEW w \in Writers, NEW i \in Inodes, WriterAppend(w, i) PROVE FSTypeOK'
      <3>1. len[i] + 1 \in Chunks
        BY <2>3 DEF WriterAppend, Chunks
      <3> QED
        BY <1>2, <2>3, <3>1 DEF WriterAppend, WriteAt
    <2>4. ASSUME NEW w \in Writers, WriterUnlock(w) PROVE FSTypeOK'
      BY <2>4 DEF WriterUnlock, DropLocks
    <2>5. ASSUME NEW n \in Paths, NEW j \in Spare, Rotate(n, j) PROVE FSTypeOK'
      BY <2>5 DEF Rotate, Names
    <2> QED
      BY <1>3, <2>1, <2>2, <2>3, <2>4, <2>5 DEF Others
  <1>4. ASSUME NEW i \in Inodes, NEW b \in Chunks, Spoil(i, b) PROVE TypeOK'
    <2>1. spoilt' \in [Calls -> BOOLEAN]
      <3>1. \A c \in Calls : (spoilt[c] \/ ReadingBack(c, i, b)) \in BOOLEAN
        BY Zenon
      <3> QED
        BY <1>4, <3>1, Zenon DEF Spoil
    <2> QED
      BY <1>2, <1>4, <2>1 DEF Spoil, Scribble, WriteAt
  <1> QED
    BY <1>3, <1>4 DEF Foreign

LEMMA ForeignHandleOK == ASSUME TypeOK, HandleOK, Foreign PROVE HandleOK'
  BY ForeignQuiet DEF HandleOK, HandleOf, AtStart

(* The locks hold among other programs as they do among calls.             *)
OpenInv == TypeOK /\ HandleOK /\ \A c \in Calls : Locked(c)

LEMMA StepLocked ==
  ASSUME TypeOK, HandleOK, NEW c \in Calls, Locked(c), [Next]_vars
  PROVE  Locked(c)'
  <1>1. CASE UNCHANGED vars
    BY <1>1 DEF vars, fsVars, Locked
  <1>2. CASE PowerLoss
    BY <1>2 DEF PowerLoss, LosePower, Running, Done, Locked, Touching, TypeOK
  <1>3. ASSUME NEW d \in Calls, Act(d) PROVE Locked(c)'
    BY <1>3, OwnLocked, OtherLocked
  <1> QED
    BY <1>1, <1>2, <1>3, NextCases

LEMMA OpenInductive == OpenSpec => []OpenInv
  <1>1. Init => OpenInv
    <2>1. Init => \A c \in Calls : Locked(c)
      BY DEF Init, HandleInit, Locked, Touching
    <2> QED
      BY <2>1, InitTypeOK, InitHandleOK DEF OpenInv
  <1>2. ASSUME OpenInv, [OpenNext]_vars PROVE OpenInv'
    <2>1. CASE [Next]_vars
      <3>1. TypeOK'
        BY <1>2, <2>1, StepTypeOK, StutterTypeOK DEF OpenInv
      <3> QED
        BY <1>2, <2>1, <3>1, StepHandleOK, StepLocked DEF OpenInv
    <2>2. CASE Foreign
      <3>1. TypeOK' /\ HandleOK'
        BY <1>2, <2>2, ForeignTypeOK, ForeignHandleOK DEF OpenInv
      <3>2. ASSUME NEW c \in Calls PROVE Locked(c)'
        BY <1>2, <2>2, ForeignQuiet DEF OpenInv, Locked, HandleOK, HandleOf
      <3> QED
        BY <3>1, <3>2 DEF OpenInv
    <2> QED
      BY <1>2, <2>1, <2>2, OpenCases
  <1> QED
    BY <1>1, <1>2, PTL DEF OpenSpec

(* Every variable keeps its type whatever the other programs do.           *)
THEOREM OpenTypeCorrect == OpenSpec => []TypeOK
  <1>1. OpenInv => TypeOK
    BY DEF OpenInv
  <1> QED
    BY <1>1, OpenInductive, PTL

-----------------------------------------------------------------------------
(***************************************************************************)
(* The file under the handle.                                              *)
(***************************************************************************)
LEMMA OtherProgramsKeepOff ==
  ASSUME TypeOK, HandleOK, Others, NEW c \in Calls, Locked(c), pc[c] = "sweep"
  PROVE  chunk'[fd[c]] = chunk[fd[c]]
  <1> USE FSAssumption DEF TypeOK, FSTypeOK
  <1>1. fd[c] \in Inodes /\ lock[fd[c]] = c
    BY DEF HandleOK, HandleOf, Locked, Touching
  <1>2. ASSUME NEW w \in Writers, NEW i \in Inodes, WriterAppend(w, i)
        PROVE  chunk'[fd[c]] = chunk[fd[c]]
    BY <1>1, <1>2 DEF WriterAppend, WriteAt
  <1>3. CASE chunk' = chunk
    BY <1>3
  <1> QED
    BY <1>2, <1>3 DEF Others, WriterLock, WriterUnlock, Rotate

LEMMA StepStable ==
  ASSUME OpenInv, [Next]_vars, NEW c \in Calls, pc[c] = "sweep",
         off'[c] = off[c], fd'[c] = fd[c]
  PROVE  chunk'[fd[c]] = chunk[fd[c]]
  <1> USE FSAssumption DEF OpenInv, TypeOK, FSTypeOK
  <1>1. fd[c] \in Inodes
    BY DEF HandleOK, HandleOf, Touching
  <1>2. CASE UNCHANGED vars
    BY <1>2 DEF vars, fsVars
  <1>3. ~PowerLoss
    BY <1>1 DEF PowerLoss, LosePower
  <1>4. ASSUME NEW d \in Calls, Act(d), d # c PROVE chunk'[fd[c]] = chunk[fd[c]]
    BY <1>4, SweptFileStays
  <1>5. CASE Act(c)
    <2>1. ~WriteChunk(c)
      BY DEF WriteChunk
    <2>2. ~Truncate(c)
      BY DEF Truncate
    <2> QED
      BY <1>5, <2>1, <2>2, ActQuiet DEF EndWrite, Rename, Unlink
  <1> QED
    BY <1>2, <1>3, <1>4, <1>5, NextCases

(* From the first sweep to the last, only the call itself and programs     *)
(* that ignore flock change the file under its handle.                     *)
THEOREM SweptFileStable == OpenSpec => SweptFileIsStable
  <1>1. OpenInv /\ [OpenNext]_vars =>
          (Next \/ Others =>
             \A c \in Calls : pc[c] = "sweep" /\ off'[c] = off[c] /\ fd'[c] = fd[c] =>
               chunk'[fd[c]] = chunk[fd[c]])
    BY StepStable, OtherProgramsKeepOff DEF OpenInv
  <1> QED
    BY <1>1, OpenInductive, PTL DEF OpenSpec, SweptFileIsStable

-----------------------------------------------------------------------------
(***************************************************************************)
(* What spoils a read-back is reported.                                    *)
(***************************************************************************)
Pending(c) ==
  /\ pc[c] = "sweep" /\ Current(c).act # "write"
  /\ \E b \in Chunks : off[c] < b /\ b <= size[c] /\ chunk[fd[c]][b] = "user"

(* A spoilt read-back has failed the call or cleared the flag already, or  *)
(* the spoilt chunk is still to be read.                                   *)
SpoiltInv(c) == spoilt[c] => pc[c] \in {"error", "mismatch", "dead"} \/ ~verified[c] \/ Pending(c)

LEMMA SpoilByOthers ==
  ASSUME OpenInv, Foreign, NEW c \in Calls, SpoiltInv(c)
  PROVE  SpoiltInv(c)'
  <1> USE DEF OpenInv
  <1>1. UNCHANGED <<pc, fd, purpose, size, pass, sweep, off, verified>>
    BY ForeignQuiet
  <1>2. Current(c)' = Current(c)
    BY <1>1 DEF Current
  <1>3. Pending(c) => Pending(c)'
    <2>1. pc[c] = "sweep" => fd[c] \in Inodes
      BY DEF HandleOK, HandleOf, Touching
    <2> QED
      BY <1>1, <1>2, <2>1, ForeignQuiet DEF Pending
  <1>4. CASE Others
    BY <1>1, <1>3, <1>4 DEF Others, callVars, SpoiltInv
  <1>5. ASSUME NEW i \in Inodes, NEW b \in Chunks, Spoil(i, b) PROVE SpoiltInv(c)'
    <2>1. spoilt'[c] = (spoilt[c] \/ ReadingBack(c, i, b))
      BY <1>5 DEF Spoil
    <2>2. ReadingBack(c, i, b) => Pending(c)'
      <3>1. chunk'[i][b] = "user"
        BY <1>5 DEF Spoil, Scribble, WriteAt, TypeOK, FSTypeOK
      <3> QED
        BY <1>1, <1>2, <3>1, CurrentType DEF ReadingBack, Sweeping, Pending
    <2> QED
      BY <1>1, <1>3, <2>1, <2>2 DEF SpoiltInv
  <1> QED
    BY <1>4, <1>5 DEF Foreign

(* The call's own steps.  A chunk it reads back holds the pattern.         *)
LEMMA SpoilOwn ==
  ASSUME OpenInv, NEW c \in Calls, SpoiltInv(c), Act(c)
  PROVE  SpoiltInv(c)'
  <1> USE DEF OpenInv, TypeOK, FSTypeOK
  <1>1. CASE \E o \in Failures : Return(c, o)
    BY <1>1 DEF Return, Leave, Goto, Failures, SpoiltInv
  <1>2. CASE ReportMismatch(c)
    BY <1>2 DEF ReportMismatch, SpoiltInv
  <1>3. CASE ReadChunk(c)
    <2>1. UNCHANGED <<fsVars, pc, fd, size, pass, sweep, verified, spoilt>> /\ off'[c] = off[c] + 1
      BY <1>3 DEF ReadChunk
    <2>2. chunk[fd[c]][off[c] + 1] # "user"
      BY <1>3, CurrentType DEF ReadChunk, NextChunkMatches, Patterns
    <2>3. Pending(c) => Pending(c)'
      <3> SUFFICES ASSUME Pending(c) PROVE Pending(c)'
        OBVIOUS
      <3>1. PICK b \in Chunks : off[c] < b /\ b <= size[c] /\ chunk[fd[c]][b] = "user"
        BY DEF Pending
      <3>2. off[c] + 1 < b
        <4>1. b # off[c] + 1
          BY <2>2, <3>1
        <4> QED
          BY <3>1, <4>1 DEF Chunks
      <3>3. Current(c)' = Current(c)
        BY <2>1 DEF Current
      <3> QED
        BY <2>1, <3>1, <3>2, <3>3 DEF Pending, fsVars
    <2> QED
      BY <2>1, <2>3 DEF SpoiltInv
  <1>4. CASE ~ReadChunk(c) /\ ~ReportMismatch(c) /\ ~(\E o \in Failures : Return(c, o))
    <2>1. ~Pending(c)
      <3> SUFFICES ASSUME Pending(c) PROVE FALSE
        OBVIOUS
      <3>1. pc[c] = "sweep" /\ Current(c).act # "write" /\ off[c] # size[c]
        BY DEF Pending, Chunks
      <3> QED
        BY <1>4, <3>1 DEF Act, Admit, OpenFile, FlockTaken, HandleLocked, FlockRetry,
           HandleRetries, WriteChunk, EndWrite, EndRead, Sweeping, Truncate, Rename, Unlink,
           FillChunk, EndFill, CheckGone
    <2>2. pc[c] \notin {"error", "mismatch", "dead"}
      <3>1. ~Sweeping(c, {"write"}) \/ pc[c] = "sweep"
        BY DEF Sweeping
      <3> QED
        BY <1>4, <3>1 DEF Act, Admit, OpenFile, FlockTaken, HandleLocked, FlockRetry,
           HandleRetries, WriteChunk, EndWrite, EndRead, Sweeping, Truncate, Rename, Unlink,
           FillChunk, EndFill, CheckGone
    <2>3. spoilt' = spoilt
      BY <1>4 DEF Act, Admit, OpenFile, FlockTaken, FlockRetry, callVars, WriteChunk, EndWrite,
         EndRead, Truncate, Rename, Unlink, FillChunk, EndFill, CheckGone
    <2>4. verified'[c] => verified[c]
      <3>1. CASE verified' = verified
        BY <3>1
      <3>2. CASE CheckGone(c)
        BY <3>2 DEF CheckGone
      <3> QED
        BY <1>4, <3>1, <3>2 DEF Act, Admit, OpenFile, FlockTaken, FlockRetry, callVars,
           WriteChunk, EndWrite, EndRead, Truncate, Rename, Unlink, FillChunk, EndFill
    <2> QED
      BY <2>1, <2>2, <2>3, <2>4 DEF SpoiltInv
  <1> QED
    BY <1>1, <1>2, <1>3, <1>4

LEMMA SpoilOther ==
  ASSUME OpenInv, NEW c \in Calls, SpoiltInv(c), NEW d \in Calls, Act(d), c # d
  PROVE  SpoiltInv(c)'
  <1> USE DEF OpenInv
  <1>1. Untouched(c)
    BY ActOthers
  <1>2. spoilt' = spoilt
    BY DEF Act, Return, Admit, OpenFile, FlockTaken, FlockRetry, callVars, WriteChunk, EndWrite,
       ReadChunk, EndRead, ReportMismatch, Truncate, Rename, Unlink, FillChunk, EndFill, CheckGone
  <1>3. Pending(c) => Pending(c)'
    <2> SUFFICES ASSUME Pending(c) PROVE Pending(c)'
      OBVIOUS
    <2>1. chunk'[fd[c]] = chunk[fd[c]]
      BY SweptFileStays DEF Pending
    <2>2. Current(c)' = Current(c)
      BY <1>1 DEF Untouched, Current
    <2> QED
      BY <1>1, <2>1, <2>2 DEF Untouched, Pending
  <1> QED
    BY <1>1, <1>2, <1>3 DEF SpoiltInv, Untouched

LEMMA StepSpoilt ==
  ASSUME OpenInv, [OpenNext]_vars, NEW c \in Calls, SpoiltInv(c)
  PROVE  SpoiltInv(c)'
  <1>1. CASE UNCHANGED vars
    BY <1>1 DEF vars, fsVars, callVars, SpoiltInv, Pending, Current
  <1>2. CASE PowerLoss
    <2>1. spoilt' = spoilt /\ verified' = verified
      BY <1>2 DEF PowerLoss, callVars
    <2>2. pc'[c] = IF Running(c) THEN "dead" ELSE pc[c]
      BY <1>2 DEF PowerLoss, LosePower
    <2>3. pc[c] = "sweep" => Running(c)
      BY DEF Running, Done
    <2> QED
      BY <2>1, <2>2, <2>3 DEF SpoiltInv, Pending
  <1>3. ASSUME NEW d \in Calls, Act(d) PROVE SpoiltInv(c)'
    BY <1>3, SpoilOwn, SpoilOther
  <1>4. CASE Foreign
    BY <1>4, SpoilByOthers
  <1> QED
    BY <1>1, <1>2, <1>3, <1>4, OpenCases, NextCases

(* Whoever spoils what a call has overwritten before it was read back, and *)
(* however many times, the call does not end with a verified result.       *)
THEOREM SpoilingReported == OpenSpec => []SpoilingIsReported
  <1> DEFINE AllSpoilt == \A c \in Calls : SpoiltInv(c)
  <1>1. Init => AllSpoilt
    BY DEF Init, SpoiltInv
  <1>2. OpenInv /\ AllSpoilt /\ [OpenNext]_vars => AllSpoilt'
    BY StepSpoilt
  <1>3. AllSpoilt => SpoilingIsReported
    BY DEF SpoiltInv, SpoilingIsReported, Pending
  <1> HIDE DEF AllSpoilt
  <1> QED
    BY <1>1, <1>2, <1>3, OpenInductive, PTL DEF OpenSpec

-----------------------------------------------------------------------------
(***************************************************************************)
(* Bystanders.                                                             *)
(***************************************************************************)
(* A hard link of a requested file is overwritten with it, so the theorem  *)
(* is about files that start with one name each.                           *)
NoHardLinks ==
  \A n, m \in Paths : dirent[n] \in Inodes /\ dirent[n] = dirent[m] => n = m

OneName ==
  \A n, m \in Names : dirent[n] \in Inodes /\ dirent[n] = dirent[m] => n = m

Bystanders == Paths \ Requested

(* No handle is on a bystander's file, and its data is on the device.      *)
Apart ==
  \A n \in Bystanders : dirent[n] \in Inodes =>
    /\ \A c \in Calls : fd[c] # dirent[n]
    /\ chunk[dirent[n]] = disk[dirent[n]]

(* Until the one rotation, nobody has come across a spare inode.           *)
SpareUnused ==
  dirent[Attic] = NoInode =>
    \A j \in Spare :
      /\ \A n \in Names : dirent[n] # j
      /\ \A c \in Calls : fd[c] # j
      /\ chunk[j] = disk[j]

ApartInv == OneName /\ Apart /\ SpareUnused

(* A call changes no inode but the one it has a handle on, and takes its   *)
(* handle from the name it was given.                                      *)
LEMMA ActElsewhere ==
  ASSUME TypeOK, HandleOK, NEW d \in Calls, Act(d)
  PROVE  /\ \A i \in Inodes : i # fd[d] =>
              chunk'[i] = chunk[i] /\ disk'[i] = disk[i] /\ len'[i] = len[i]
         /\ \A c \in Calls : fd'[c] \in {fd[c], NoInode, dirent[Request[c]]}
  <1> USE DEF TypeOK, FSTypeOK
  <1>1. ASSUME NEW i \in Inodes, i # fd[d]
        PROVE  chunk'[i] = chunk[i] /\ disk'[i] = disk[i] /\ len'[i] = len[i]
    <2>1. CASE WriteChunk(d)
      BY <1>1, <2>1 DEF WriteChunk, WriteAt
    <2>2. CASE EndWrite(d)
      BY <1>1, <2>2 DEF EndWrite, SyncFile
    <2>3. CASE Truncate(d)
      BY <1>1, <2>3 DEF Truncate, TruncateFile
    <2> QED
      BY <2>1, <2>2, <2>3, ActQuiet DEF Rename, Unlink
  <1>2. ASSUME NEW c \in Calls PROVE fd'[c] \in {fd[c], NoInode, dirent[Request[c]]}
    <2>1. c # d => fd'[c] = fd[c]
      BY ActOthers DEF Untouched
    <2>2. CASE OpenFile(d)
      BY <2>1, <2>2 DEF OpenFile, HandleOpened
    <2>3. CASE fd' = fd
      BY <2>3
    <2>4. CASE fd' = [fd EXCEPT ![d] = NoInode]
      BY <2>4
    <2>5. CASE EndWrite(d) \/ EndRead(d) \/ ReportMismatch(d)
      <3>1. Advance(d) => fd' = fd \/ fd' = [fd EXCEPT ![d] = NoInode]
        BY Zenon DEF Advance, CloseHandle
      <3> QED
        BY <2>3, <2>4, <2>5, <3>1 DEF EndWrite, EndRead, ReportMismatch
    <2> QED
      BY <2>2, <2>3, <2>4, <2>5 DEF Act, Return, Leave, Admit, FlockTaken, HandleLocked, FlockRetry,
         HandleRetries, WriteChunk, ReadChunk, Truncate, Rename, Unlink, FillChunk, EndFill,
         CheckGone, CloseHandle, callVars
  <1> QED
    BY <1>1, <1>2

(* It moves no name but the one it was given and its random one.           *)
LEMMA ActNames ==
  ASSUME TypeOK, NEW d \in Calls, Act(d)
  PROVE  \/ dirent' = dirent
         \/ dirent' = [dirent EXCEPT ![d] = dirent[Request[d]], ![Request[d]] = NoInode]
         \/ dirent' = [dirent EXCEPT ![d] = NoInode]
  BY ActQuiet DEF WriteChunk, EndWrite, Truncate, Rename, RenameEntry, Unlink, UnlinkEntry

LEMMA BystanderNames ==
  ASSUME TypeOK, NEW d \in Calls, Act(d)
  PROVE  \A n \in Bystanders \cup {Attic} : dirent'[n] = dirent[n]
  <1> USE FSAssumption, ShredAssumption DEF TypeOK, FSTypeOK, Names
  <1> SUFFICES ASSUME NEW n \in Bystanders \cup {Attic} PROVE dirent'[n] = dirent[n]
    OBVIOUS
  <1>1. n \in Names /\ n # d /\ n # Request[d]
    BY DEF Bystanders, Requested
  <1>2. CASE dirent' = [dirent EXCEPT ![d] = dirent[Request[d]], ![Request[d]] = NoInode]
    BY <1>1, <1>2
  <1>3. CASE dirent' = [dirent EXCEPT ![d] = NoInode]
    BY <1>1, <1>3
  <1> QED
    BY <1>2, <1>3, ActNames

LEMMA ActApart ==
  ASSUME TypeOK, HandleOK, ApartInv, NEW d \in Calls, Act(d)
  PROVE  ApartInv'
  <1> USE FSAssumption, ShredAssumption DEF TypeOK, FSTypeOK, Names
  <1>1. /\ \A i \in Inodes : i # fd[d] =>
              chunk'[i] = chunk[i] /\ disk'[i] = disk[i] /\ len'[i] = len[i]
        /\ \A c \in Calls : fd'[c] \in {fd[c], NoInode, dirent[Request[c]]}
    BY ActElsewhere
  <1>2. \A n \in Names : n # d => dirent'[n] \in {dirent[n], NoInode}
    BY ActNames
  <1>3. dirent'[d] \in {dirent[d], NoInode, dirent[Request[d]]}
    BY ActNames
  <1>4. \A n \in Bystanders \cup {Attic} : dirent'[n] = dirent[n]
    BY BystanderNames
  <1>5. OneName'
    <2>1. CASE dirent' = dirent
      BY <2>1 DEF ApartInv, OneName
    <2>2. CASE dirent' = [dirent EXCEPT ![d] = NoInode]
      BY <2>2 DEF ApartInv, OneName
    <2>3. CASE dirent' = [dirent EXCEPT ![d] = dirent[Request[d]], ![Request[d]] = NoInode]
      <3>1. Request[d] \in Names /\ d \in Names /\ Request[d] # d
        OBVIOUS
      <3>2. /\ dirent'[d] = dirent[Request[d]] /\ dirent'[Request[d]] = NoInode
            /\ \A n \in Names \ {d, Request[d]} : dirent'[n] = dirent[n]
        BY <2>3, <3>1
      <3> QED
        <4> SUFFICES ASSUME NEW n \in Names, NEW m \in Names,
                            dirent'[n] \in Inodes, dirent'[n] = dirent'[m]
                     PROVE  n = m
          BY DEF OneName
        <4>1. n # Request[d] /\ m # Request[d]
          BY <3>2
        <4>2. \A k, l \in Names : dirent[k] \in Inodes /\ dirent[k] = dirent[l] => k = l
          BY DEF ApartInv, OneName
        <4>3. CASE n = d /\ m # d
          BY <3>1, <3>2, <4>1, <4>2, <4>3
        <4>4. CASE n # d /\ m = d
          BY <3>1, <3>2, <4>1, <4>2, <4>4
        <4>5. CASE n # d /\ m # d
          BY <3>2, <4>1, <4>2, <4>5
        <4> QED
          BY <4>3, <4>4, <4>5
    <2> QED
      BY <2>1, <2>2, <2>3, ActNames
  <1>6. Apart'
    <2> SUFFICES ASSUME NEW n \in Bystanders, dirent[n] \in Inodes
                 PROVE  /\ \A c \in Calls : fd'[c] # dirent[n]
                        /\ chunk'[dirent[n]] = disk'[dirent[n]]
      BY <1>4 DEF Apart
    <2>1. (\A c \in Calls : fd[c] # dirent[n]) /\ chunk[dirent[n]] = disk[dirent[n]]
      BY DEF ApartInv, Apart
    <2>2. \A c \in Calls : n # Request[c] /\ n \in Names /\ Request[c] \in Names
      BY DEF Bystanders, Requested
    <2>3. \A c \in Calls : dirent[Request[c]] # dirent[n]
      BY <2>2 DEF ApartInv, OneName
    <2> QED
      BY <1>1, <2>1, <2>3
  <1>7. SpareUnused'
    <2> SUFFICES ASSUME dirent[Attic] = NoInode, NEW j \in Spare
                 PROVE  /\ \A n \in Names : dirent'[n] # j
                        /\ \A c \in Calls : fd'[c] # j
                        /\ chunk'[j] = disk'[j]
      BY <1>4 DEF SpareUnused
    <2>1. /\ \A n \in Names : dirent[n] # j
          /\ \A c \in Calls : fd[c] # j
          /\ chunk[j] = disk[j]
      BY DEF ApartInv, SpareUnused
    <2>2. j \in Inodes /\ \A c \in Calls : Request[c] \in Names
      OBVIOUS
    <2> QED
      BY <1>1, <1>2, <1>3, <2>1, <2>2
  <1> QED
    BY <1>5, <1>6, <1>7 DEF ApartInv

LEMMA ForeignApart ==
  ASSUME TypeOK, ApartInv, Foreign
  PROVE  ApartInv'
  <1> USE FSAssumption, ShredAssumption DEF TypeOK, FSTypeOK, Names
  <1>1. fd' = fd
    BY ForeignQuiet
  <1>2. ASSUME dirent' = dirent, \A i \in Inodes : chunk[i] = disk[i] => chunk'[i] = disk'[i]
        PROVE  ApartInv'
    BY <1>1, <1>2 DEF ApartInv, OneName, Apart, SpareUnused
  <1>3. ASSUME NEW i \in Inodes, NEW b \in Chunks,
               chunk' = [chunk EXCEPT ![i][b] = "user"], disk' = [disk EXCEPT ![i][b] = "user"]
        PROVE  \A j \in Inodes : chunk[j] = disk[j] => chunk'[j] = disk'[j]
    BY <1>3
  <1>4. ASSUME NEW w \in Writers, NEW i \in Inodes, WriterAppend(w, i) PROVE ApartInv'
    <2>1. len[i] + 1 \in Chunks
      BY <1>4 DEF WriterAppend, Chunks
    <2> QED
      BY <1>2, <1>3, <1>4, <2>1 DEF WriterAppend, WriteAt
  <1>5. ASSUME NEW i \in Inodes, NEW b \in Chunks, Spoil(i, b) PROVE ApartInv'
    BY <1>2, <1>3, <1>5 DEF Spoil, Scribble, WriteAt
  <1>6. ASSUME NEW n \in Paths, NEW j \in Spare, Rotate(n, j) PROVE ApartInv'
    <2>1. /\ dirent[Attic] = NoInode /\ dirent[n] \in Inodes /\ j \in Inodes
          /\ dirent' = [dirent EXCEPT ![Attic] = dirent[n], ![n] = j]
          /\ UNCHANGED <<chunk, disk>>
      BY <1>6 DEF Rotate
    <2>2. /\ \A m \in Names : dirent[m] # j
          /\ \A c \in Calls : fd[c] # j
          /\ chunk[j] = disk[j]
      BY <2>1 DEF ApartInv, SpareUnused
    <2>3. dirent'[Attic] = dirent[n] /\ dirent'[n] = j
          /\ \A m \in Names \ {Attic, n} : dirent'[m] = dirent[m]
      BY <2>1
    <2>4. OneName'
      BY <2>1, <2>2, <2>3 DEF ApartInv, OneName
    <2>5. Apart'
      BY <1>1, <2>1, <2>2, <2>3 DEF ApartInv, Apart, Bystanders
    <2>6. SpareUnused'
      BY <2>1, <2>3 DEF SpareUnused
    <2> QED
      BY <2>4, <2>5, <2>6 DEF ApartInv
  <1>7. CASE UNCHANGED <<dirent, chunk, disk>>
    BY <1>2, <1>7
  <1> QED
    BY <1>4, <1>5, <1>6, <1>7 DEF Foreign, Others, WriterLock, WriterUnlock

(* The file at a path that no call was given is never overwritten,         *)
(* truncated or unlinked by one, whatever is put under the requested name. *)
THEOREM BystandersUntouched == OpenSpec /\ NoHardLinks => BystanderUntouched
  <1> USE FSAssumption, ShredAssumption
  <1>1. Init /\ NoHardLinks => ApartInv
    <2> SUFFICES ASSUME Init, NoHardLinks PROVE ApartInv
      OBVIOUS
    <2>1. PICK p \in [Paths -> (Inodes \ Spare) \cup {NoInode}] :
            dirent = [n \in Names |-> IF n \in Paths THEN p[n] ELSE NoInode]
      BY DEF Init, FSInit
    <2>2. chunk = disk /\ \A c \in Calls : fd[c] = NoInode
      BY DEF Init, FSInit, HandleInit
    <2>3. OneName
      BY <2>1 DEF NoHardLinks, OneName
    <2>4. \A n \in Names : dirent[n] \notin Spare
      BY <2>1
    <2> QED
      BY <2>2, <2>3, <2>4 DEF ApartInv, Apart, SpareUnused
  <1>2. ASSUME OpenInv, ApartInv, [OpenNext]_vars PROVE ApartInv'
    <2>1. CASE UNCHANGED vars
      BY <1>2, <2>1 DEF vars, fsVars, ApartInv, OneName, Apart, SpareUnused
    <2>2. CASE PowerLoss
      <3>1. UNCHANGED <<dirent, disk>> /\ chunk' = disk /\ \A c \in Calls : fd'[c] = NoInode
        BY <2>2 DEF PowerLoss, LosePower
      <3> QED
        BY <1>2, <3>1 DEF ApartInv, OneName, Apart, SpareUnused
    <2>3. ASSUME NEW d \in Calls, Act(d) PROVE ApartInv'
      BY <1>2, <2>3, ActApart DEF OpenInv
    <2>4. CASE Foreign
      BY <1>2, <2>4, ForeignApart DEF OpenInv
    <2> QED
      BY <1>2, <2>1, <2>2, <2>3, <2>4, OpenCases, NextCases
  <1>3. ASSUME OpenInv, ApartInv, Next, NEW n \in Paths \ Requested
        PROVE  /\ dirent'[n] = dirent[n]
               /\ dirent[n] \in Inodes =>
                    chunk'[dirent[n]] = chunk[dirent[n]] /\ len'[dirent[n]] = len[dirent[n]]
    <2>1. CASE PowerLoss
      BY <1>3, <2>1 DEF PowerLoss, LosePower, ApartInv, Apart, Bystanders
    <2>2. ASSUME NEW d \in Calls, Act(d)
          PROVE  /\ dirent'[n] = dirent[n]
                 /\ dirent[n] \in Inodes =>
                      chunk'[dirent[n]] = chunk[dirent[n]] /\ len'[dirent[n]] = len[dirent[n]]
      <3>1. dirent'[n] = dirent[n]
        BY <1>3, <2>2, BystanderNames DEF OpenInv, Bystanders
      <3>2. dirent[n] \in Inodes => fd[d] # dirent[n]
        BY <1>3 DEF ApartInv, Apart, Bystanders
      <3> QED
        BY <1>3, <2>2, <3>1, <3>2, ActElsewhere DEF OpenInv
    <2> QED
      BY <1>3, <2>1, <2>2, NextCases
  <1>4. OpenInv /\ ApartInv /\ [OpenNext]_vars =>
          (Next => \A n \in Paths \ Requested :
             /\ dirent'[n] = dirent[n]
             /\ dirent[n] \in Inodes =>
                  chunk'[dirent[n]] = chunk[dirent[n]] /\ len'[dirent[n]] = len[dirent[n]])
    BY <1>3
  <1> QED
    BY <1>1, <1>2, <1>4, OpenInductive, PTL DEF OpenSpec, BystanderUntouched
=============================================================================
