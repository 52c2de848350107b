------------------------------ MODULE Shredder ------------------------------
(***************************************************************************)
(* Shredder::shred_with_progress on a regular file (src/shredder.rs 291-   *)
(* 306, 363-474) with the algorithms of src/algorithms.rs.                 *)
(*                                                                         *)
(* Unlike destroyer::secure_delete, one handle and one flock span all the  *)
(* overwrite passes and their read-backs.  The handle is then dropped and  *)
(* the name opened once more for the truncation.                           *)
(***************************************************************************)
EXTENDS SafeOpen, Sequences

CONSTANTS
  Request,     (* call -> the path it was asked to shred                   *)
  Algorithm,   (* call -> an ErasureAlgorithm                              *)
  Rounds,      (* the n of RandomPasses(n)                                 *)
  Verify,      (* call -> Shredder::verify                                 *)
  Backfill,    (* call -> Shredder::backfill                               *)
  Spare        (* inodes a rotator may bind a name to                      *)

Algorithms == {"ZeroFill", "Nist80088", "Dod522022M", "Gutmann35",
               "CryptographicErasure", "RandomPasses"}

(* RandomPasses(0) would free the data as it is: the properties below are  *)
(* about algorithms that overwrite at least once.                          *)
ASSUME ShredAssumption ==
  /\ Request \in [Calls -> Paths]
  /\ Algorithm \in [Calls -> Algorithms]
  /\ Rounds \in Nat \ {0}
  /\ Verify \in [Calls -> BOOLEAN]
  /\ Backfill \in [Calls -> BOOLEAN]
  /\ Spare \subseteq Inodes

VARIABLES
  purpose,   (* what the handle is for: the passes or the truncation       *)
  size,      (* file_size, taken before the first open                     *)
  pass,      (* index into the patterns of the algorithm                   *)
  sweep,     (* index into the sweeps of that pass                         *)
  off,       (* chunks done in that sweep                                  *)
  verified,  (* the flag the result will carry                             *)
  filled,    (* chunks of the backfill placeholder written so far          *)
  spoilt     (* history: another program wrote a chunk that the read-back  *)
             (* in progress had yet to come to                             *)

callVars == <<purpose, size, pass, sweep, off, verified, filled, spoilt>>
vars == <<fsVars, pc, fd, tries, callVars>>

Touching == {"sweep", "truncate"}
Stages == {"idle", "open", "flock", "rename", "unlink", "backfill", "exists"}
            \cup Touching \cup Done

(***************************************************************************)
(* ErasureAlgorithm::patterns and execute_pass.  A sweep goes over the     *)
(* whole file once, to write it or to read it back; a strict read-back     *)
(* fails the call, one of the Shredder's own only clears `verified`.       *)
(***************************************************************************)
Fixed(b) == [kind |-> "Fixed", byte |-> b]
FixedVerified(b) == [kind |-> "FixedVerified", byte |-> b]
Random == [kind |-> "Random", byte |-> "random"]
RandomVerified == [kind |-> "RandomVerified", byte |-> "random"]
CryptoErase == [kind |-> "CryptoErase", byte |-> "zeros"]

PatternsOf(a) ==
  CASE a = "ZeroFill" -> <<Fixed("zeros")>>
    [] a = "Nist80088" -> <<Fixed("zeros"), Fixed("ones"), Random>>
    [] a = "Dod522022M" -> <<FixedVerified("zeros"), FixedVerified("ones"), RandomVerified>>
    [] a = "Gutmann35" -> [k \in 1..35 |-> IF k \in 5..31 THEN Fixed("other") ELSE Random]
    [] a = "CryptographicErasure" -> <<CryptoErase>>
    [] a = "RandomPasses" -> [k \in 1..Rounds |-> Random]

Writing(b) == [act |-> "write", byte |-> b]
Strict(b) == [act |-> "strict", byte |-> b]
Report(b) == [act |-> "report", byte |-> b]

ExecutePass(p) ==
  CASE p.kind = "Fixed" -> <<Writing(p.byte)>>
    [] p.kind = "FixedVerified" -> <<Writing(p.byte), Strict(p.byte)>>
    [] p.kind \in {"Random", "RandomVerified"} -> <<Writing("random")>>
    [] p.kind = "CryptoErase" -> <<Writing("random"), Writing("zeros")>>

Sweeps(c, k) ==
  LET p == PatternsOf(Algorithm[c])[k]
  IN  ExecutePass(p) \o IF Verify[c] /\ p.kind \in {"Fixed", "FixedVerified"}
                          THEN <<Report(p.byte)>> ELSE <<>>

Current(c) == Sweeps(c, pass[c])[sweep[c]]

-----------------------------------------------------------------------------
TypeOK ==
  /\ FSTypeOK
  /\ pc \in [Calls -> Stages]
  /\ fd \in [Calls -> Inodes \cup {NoInode}]
  /\ tries \in [Calls -> 0..FlockAttempts]
  /\ purpose \in [Calls -> {"passes", "truncate"}]
  /\ size \in [Calls -> 0..MaxLen]
  /\ pass \in [Calls -> Nat]
  /\ sweep \in [Calls -> Nat]
  /\ off \in [Calls -> 0..MaxLen]
  /\ verified \in [Calls -> BOOLEAN]
  /\ filled \in [Calls -> 0..MaxLen]
  /\ spoilt \in [Calls -> BOOLEAN]

Init ==
  /\ FSInit(Inodes \ Spare)
  /\ HandleInit
  /\ purpose = [c \in Calls |-> "passes"]
  /\ size = [c \in Calls |-> 0]
  /\ pass = [c \in Calls |-> 1]
  /\ sweep = [c \in Calls |-> 1]
  /\ off = [c \in Calls |-> 0]
  /\ verified = [c \in Calls |-> TRUE]
  /\ filled = [c \in Calls |-> 0]
  /\ spoilt = [c \in Calls |-> FALSE]

Return(c, outcome) == Leave(c, outcome) /\ UNCHANGED callVars

(***************************************************************************)
(* Entry: path.exists(), then safe_symlink_metadata on the name itself.    *)
(***************************************************************************)

(* Slip: the name is hidden before anything is overwritten. *)
AdmitRenaming(c) ==
  /\ pc[c] = "idle"
  /\ Openable(Request[c])
  /\ size' = [size EXCEPT ![c] = len[dirent[Request[c]]]]
  /\ Goto(c, "rename")
  /\ UNCHANGED <<fsVars, fd, tries, purpose, pass, sweep, off, verified, filled, spoilt>>

Admit(c) ==
  /\ pc[c] = "idle"
  /\ Openable(Request[c])
  /\ size' = [size EXCEPT ![c] = len[dirent[Request[c]]]]
  /\ Goto(c, "open")
  /\ UNCHANGED <<fsVars, fd, tries, purpose, pass, sweep, off, verified, filled, spoilt>>

Refuse(c) ==
  /\ pc[c] = "idle"
  /\ ~Openable(Request[c])
  /\ Return(c, "error")

(***************************************************************************)
(* safe_open_rw, for the passes and again for the truncation.              *)
(***************************************************************************)

(* Slip: open(2) without O_NOFOLLOW. *)
OpenFollowing(c) ==
  /\ pc[c] = "open"
  /\ Resolve(Request[c]) # NoInode
  /\ HandleOpened(c, Resolve(Request[c]))
  /\ UNCHANGED callVars

OpenFile(c) ==
  /\ pc[c] = "open"
  /\ Openable(Request[c])
  /\ HandleOpened(c, dirent[Request[c]])
  /\ UNCHANGED callVars

OpenRefused(c) ==
  /\ pc[c] = "open"
  /\ ~Openable(Request[c])
  /\ Return(c, "error")

FlockTaken(c) ==
  /\ HandleLocked(c, IF purpose[c] = "passes" THEN "sweep" ELSE "truncate")
  /\ UNCHANGED callVars

FlockRetry(c) == HandleRetries(c) /\ UNCHANGED callVars

FlockGiveUp(c) == FlockExhausted(c) /\ Return(c, "error")

(***************************************************************************)
(* The passes, all under the same handle.                                  *)
(***************************************************************************)
MoreSweeps(c) == sweep[c] < Len(Sweeps(c, pass[c]))
MorePasses(c) == pass[c] < Len(PatternsOf(Algorithm[c]))

(* Slip: the handle is dropped between a write and its read-back. *)
AdvanceReopening(c) ==
  /\ off' = [off EXCEPT ![c] = 0]
  /\ sweep' = [sweep EXCEPT ![c] = IF MoreSweeps(c) THEN @ + 1 ELSE 1]
  /\ pass' = [pass EXCEPT ![c] = IF MoreSweeps(c) \/ ~MorePasses(c) THEN @ ELSE @ + 1]
  /\ purpose' = [purpose EXCEPT
       ![c] = IF MoreSweeps(c) \/ MorePasses(c) THEN "passes" ELSE "truncate"]
  /\ CloseHandle(c) /\ Goto(c, "open")

(* After a sweep: the next one, the next pass, or the truncation through a *)
(* handle of its own.                                                      *)
Advance(c) ==
  /\ off' = [off EXCEPT ![c] = 0]
  /\ \/ /\ MoreSweeps(c)
        /\ sweep' = [sweep EXCEPT ![c] = @ + 1]
        /\ UNCHANGED <<pc, fd, lock, pass, purpose>>
     \/ /\ ~MoreSweeps(c) /\ MorePasses(c)
        /\ pass' = [pass EXCEPT ![c] = @ + 1]
        /\ sweep' = [sweep EXCEPT ![c] = 1]
        /\ UNCHANGED <<pc, fd, lock, purpose>>
     \/ /\ ~MoreSweeps(c) /\ ~MorePasses(c)
        /\ CloseHandle(c) /\ Goto(c, "open")
        /\ purpose' = [purpose EXCEPT ![c] = "truncate"]
        /\ UNCHANGED <<pass, sweep>>

Sweeping(c, acts) == pc[c] = "sweep" /\ Current(c).act \in acts

WriteChunk(c) ==
  /\ Sweeping(c, {"write"}) /\ off[c] < size[c]
  /\ WriteAt(fd[c], off[c] + 1, Current(c).byte)
  /\ off' = [off EXCEPT ![c] = @ + 1]
  /\ UNCHANGED <<dirent, disk, lock, lost, pc, fd, tries, purpose, size, pass, sweep,
                 verified, filled, spoilt>>

(* Slip: sync_all left out. *)
EndWriteUnsynced(c) ==
  /\ Sweeping(c, {"write"}) /\ off[c] = size[c]
  /\ Advance(c)
  /\ UNCHANGED <<dirent, len, chunk, disk, lost, tries, size, verified, filled, spoilt>>

EndWrite(c) ==
  /\ Sweeping(c, {"write"}) /\ off[c] = size[c]
  /\ SyncFile(fd[c])
  /\ Advance(c)
  /\ UNCHANGED <<dirent, len, chunk, lost, tries, size, verified, filled, spoilt>>

(* Slip: the read-back looks at how much it read and not at what. *)
NextChunkPresent(c) == off[c] < len[fd[c]]

NextChunkMatches(c) ==
  off[c] < len[fd[c]] /\ chunk[fd[c]][off[c] + 1] = Current(c).byte

ReadChunk(c) ==
  /\ Sweeping(c, {"strict", "report"}) /\ off[c] < size[c]
  /\ NextChunkMatches(c)
  /\ off' = [off EXCEPT ![c] = @ + 1]
  /\ UNCHANGED <<fsVars, pc, fd, tries, purpose, size, pass, sweep, verified, filled, spoilt>>

EndRead(c) ==
  /\ Sweeping(c, {"strict", "report"}) /\ off[c] = size[c]
  /\ Advance(c)
  /\ UNCHANGED <<dirent, len, chunk, disk, lost, tries, size, verified, filled, spoilt>>

StrictMismatch(c) ==
  /\ Sweeping(c, {"strict"}) /\ off[c] < size[c]
  /\ ~NextChunkMatches(c)
  /\ Return(c, IF off[c] < len[fd[c]] THEN "mismatch" ELSE "error")

ReportMismatch(c) ==
  /\ Sweeping(c, {"report"}) /\ off[c] < size[c]
  /\ ~NextChunkMatches(c)
  /\ verified' = [verified EXCEPT ![c] = FALSE]
  /\ Advance(c)
  /\ UNCHANGED <<dirent, len, chunk, disk, lost, tries, size, filled, spoilt>>

(***************************************************************************)
(* Truncation, names, backfill and the last look.                          *)
(***************************************************************************)
Truncate(c) ==
  /\ pc[c] = "truncate"
  /\ TruncateFile(fd[c])
  /\ CloseHandle(c) /\ Goto(c, "rename")
  /\ UNCHANGED <<dirent, tries, callVars>>

Rename(c) ==
  /\ pc[c] = "rename"
  /\ dirent[Request[c]] # NoInode
  /\ RenameEntry(Request[c], c)
  /\ Goto(c, "unlink")
  /\ UNCHANGED <<len, chunk, disk, lock, lost, fd, tries, callVars>>

RenameFails(c) ==
  /\ pc[c] = "rename"
  /\ dirent[Request[c]] = NoInode
  /\ Return(c, "error")

Unlink(c) ==
  /\ pc[c] = "unlink"
  /\ UnlinkEntry(c)
  /\ Goto(c, IF Backfill[c] THEN "backfill" ELSE "exists")
  /\ UNCHANGED <<len, chunk, disk, lock, fd, tries, callVars>>

(* backfill_synthetic: a new file beside the old one, as long as that was. *)
(* Its name is new and random and it holds nothing of the user's: only the *)
(* writing is modelled here; the entry it takes is in DirectoryWalk.       *)
FillChunk(c) ==
  /\ pc[c] = "backfill" /\ filled[c] < size[c]
  /\ filled' = [filled EXCEPT ![c] = @ + 1]
  /\ UNCHANGED <<fsVars, pc, fd, tries, purpose, size, pass, sweep, off, verified, spoilt>>

EndFill(c) ==
  /\ pc[c] = "backfill" /\ filled[c] = size[c]
  /\ Goto(c, "exists")
  /\ UNCHANGED <<fsVars, fd, tries, callVars>>

CheckGone(c) ==
  /\ pc[c] = "exists"
  /\ verified' = [verified EXCEPT ![c] = @ /\ Resolve(Request[c]) = NoInode]
  /\ Goto(c, "ok")
  /\ UNCHANGED <<fsVars, fd, tries, purpose, size, pass, sweep, off, filled, spoilt>>

Fault(c) == Running(c) /\ Return(c, "error")

Kill(c) == Running(c) /\ Return(c, "dead")

PowerLoss == LosePower /\ UNCHANGED callVars

(***************************************************************************)
(* The specifications.                                                     *)
(***************************************************************************)
Step(c) ==
  \/ OpenFile(c) \/ OpenRefused(c)
  \/ FlockTaken(c) \/ FlockRetry(c) \/ FlockGiveUp(c)
  \/ WriteChunk(c) \/ EndWrite(c)
  \/ ReadChunk(c) \/ EndRead(c) \/ StrictMismatch(c) \/ ReportMismatch(c)
  \/ Truncate(c) \/ Rename(c) \/ RenameFails(c) \/ Unlink(c)
  \/ FillChunk(c) \/ EndFill(c) \/ CheckGone(c)

Next ==
  \/ \E c \in Calls : Admit(c) \/ Refuse(c) \/ Step(c) \/ Fault(c) \/ Kill(c)
  \/ PowerLoss

(* Any number of calls, and nothing else writes to these files. *)
Spec == Init /\ [][Next]_vars

-----------------------------------------------------------------------------
(* Blocks go back to the free pool (set_len, remove_file) only when every  *)
(* chunk of user data in them has been overwritten and synced.             *)
NoDataReleased == lost = {}

Named(i) == \E n \in Paths : dirent[n] = i

(* Whatever fails or dies and whenever, a file that still holds user data  *)
(* keeps a name its user knows: the shred can be repeated.                 *)
NeverOrphansData ==
  [][\A i \in Inodes : Named(i) /\ (Held(i) # {})' => Named(i)']_vars

(* Calls on one path never spoil each other's read-backs: what a sweep has *)
(* written is what the following sweep reads, as one flock spans both.     *)
ReadBackHolds == \A c \in Calls : pc[c] # "mismatch" /\ verified[c]

-----------------------------------------------------------------------------
(* The calls together implement the abstract promise of erasure, as those  *)
(* of secure_delete do, though every pass goes through one handle and the  *)
(* truncation through another. A placeholder holds nothing of the user's.  *)
Promise == INSTANCE Erasure WITH
  held <- [i \in Inodes |-> Held(i)],
  named <- {i \in Inodes : Named(i)},
  leaked <- lost

(* Seen from the user's side, every step of every call either removes user *)
(* data from the device by overwriting it or takes the name of a file      *)
(* whose data is already gone.                                             *)
ImplementsErasure == Promise!Spec
=============================================================================
