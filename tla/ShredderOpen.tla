---------------------------- MODULE ShredderOpen ----------------------------
(***************************************************************************)
(* Shredder among programs that use the same files: writers that honour    *)
(* flock, a rotator that puts another file under the name, and, if         *)
(* Careless, a program that writes in place and locks nothing.             *)
(***************************************************************************)
EXTENDS Shredder

CONSTANT Careless

ASSUME CarelessAssumption == Careless \in BOOLEAN

ReadingBack(c, i, b) ==
  Sweeping(c, {"strict", "report"}) /\ fd[c] = i /\ off[c] < b /\ b <= size[c]

Others ==
  /\ \/ \E w \in Writers, n \in Paths : WriterLock(w, n)
     \/ \E w \in Writers, i \in Inodes : WriterAppend(w, i)
     \/ \E w \in Writers : WriterUnlock(w)
     \/ \E n \in Paths, j \in Spare : Rotate(n, j)
  /\ UNCHANGED <<pc, fd, tries, callVars>>

Spoil(i, b) ==
  /\ Careless
  /\ Scribble(i, b)
  /\ spoilt' = [c \in Calls |-> spoilt[c] \/ ReadingBack(c, i, b)]
  /\ UNCHANGED <<pc, fd, tries, purpose, size, pass, sweep, off, verified, filled>>

OpenNext ==
  \/ Next
  \/ Others
  \/ \E i \in Inodes, b \in Chunks : Spoil(i, b)

OpenSpec == Init /\ [][OpenNext]_vars

-----------------------------------------------------------------------------
(* A result never certifies a read-back that somebody had spoilt before it *)
(* was read: the strict passes fail and the Shredder's own check clears    *)
(* verification_passed (verify_fixed, verify_byte).                        *)
SpoilingIsReported == \A c \in Calls : pc[c] = "ok" /\ spoilt[c] => ~verified[c]

(* From the first sweep to the last, only the call itself and programs     *)
(* that ignore flock change the file under its handle.                     *)
SweptFileIsStable ==
  [][Next \/ Others =>
       \A c \in Calls : pc[c] = "sweep" /\ off'[c] = off[c] /\ fd'[c] = fd[c] =>
         chunk'[fd[c]] = chunk[fd[c]]]_vars

Requested == {Request[c] : c \in Calls}

(* The file at a path that no call was given is never overwritten,         *)
(* truncated or unlinked by one, whatever is put under the requested name. *)
BystanderUntouched ==
  [][Next => \A n \in Paths \ Requested :
       /\ dirent'[n] = dirent[n]
       /\ dirent[n] \in Inodes =>
            chunk'[dirent[n]] = chunk[dirent[n]] /\ len'[dirent[n]] = len[dirent[n]]]_vars
=============================================================================
