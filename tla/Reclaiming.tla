----------------------------- MODULE Reclaiming -----------------------------
(***************************************************************************)
(* What decides which files to give up and what to take out of those that  *)
(* stay: the cleaners (Cleaners), the rotation of backups                  *)
(* (BackupRotation), the search for equal files (DuplicateFinder) and the  *)
(* two catalogs of them (DuplicateCatalogs), the scrubbing of signatures   *)
(* (FileCarvingBlocker) and the stripping of metadata (MetadataStripper).  *)
(* The two cleaners work on one tree and are composed in Cleaners; nothing *)
(* else here shares state with anything, so each behaviour is about one of *)
(* these parts: the one in `active`.                                       *)
(***************************************************************************)
EXTENDS Cleaners

CONSTANTS
  Active,                                             (* the parts in this instance *)
  MaxDay, Week, Month, Year, Policy,
  Files, Texts, Sizes, MinSize, Roots,
  Paths, Contents, Times, MaxEntries, MaxEdits,
  Bytes, BufferLength, SignatureSets, Fills, PseudoRandom,
  Samples, PdfKeys, OfficeTags, Mp4Keys, ValueCap

(* A month lies within a year; a week need not lie within either. *)
ASSUME ReclaimAssumption ==
  /\ Week \in Nat \ {0} /\ Month \in Nat \ {0} /\ Year \in Nat \ {0}
  /\ \E n \in 1..Year : Year = n * Month
  /\ Policy \in [{"Yearly", "Monthly", "Weekly", "Daily"} -> Nat]
  /\ Times \subseteq Nat
  /\ BufferLength \in Nat
  /\ SignatureSets \subseteq SUBSET Seq(Bytes)
  /\ Fills \subseteq Bytes \cup {PseudoRandom}

VARIABLES
  active,
  day, backups, taken,                                             (* BackupRotation     *)
  scanDisk, scanPhase, toWalk, found, hashed, groups, scanned, meddlings,
                                                                   (* DuplicateFinder    *)
  disk, entries, follows, edits, stale,                            (* DuplicateCatalogs  *)
  buf, signatures, fill, scrubPhase, hits, scrubReport, original,  (* FileCarvingBlocker *)
  format, file, stripPhase, held, disturbed, before                (* MetadataStripper   *)

Rotation == INSTANCE BackupRotation
Finder == INSTANCE DuplicateFinder WITH
  Contents <- Texts, Length <- Sizes, disk <- scanDisk, phase <- scanPhase
Catalogs == INSTANCE DuplicateCatalogs
Carving == INSTANCE FileCarvingBlocker WITH
  Length <- BufferLength, phase <- scrubPhase, todo <- hits, report <- scrubReport,
  before <- original
Stripper == INSTANCE MetadataStripper WITH phase <- stripPhase

(* The files are those under the roots, each root whatever the others.     *)
ASSUME FinderAssumption ==
  /\ IsFiniteSet(Files)
  /\ Sizes \in [Texts -> Nat] /\ MinSize \in Nat /\ Finder!Absent \notin Texts
  /\ \A roots \in Roots : roots \in Seq(SUBSET Files) /\ UNION ToSet(roots) = Files

rotationVars == <<day, backups, taken>>
finderVars == <<scanDisk, scanPhase, toWalk, found, hashed, groups, scanned, meddlings>>
catalogVars == <<disk, entries, follows, edits, stale>>
carvingVars == <<buf, signatures, fill, scrubPhase, hits, scrubReport, original>>
stripperVars == <<format, file, stripPhase, held, disturbed, before>>

allVars == <<active, cleanerVars, rotationVars, finderVars, catalogVars, carvingVars,
             stripperVars>>

(* A part that rests has nothing to work on. *)
ReclaimInit ==
  /\ active \in Active
  /\ IF active = "cleaners" THEN Init ELSE InitWith(<<>>)
  /\ Rotation!Init
  /\ IF active = "finder" THEN Finder!Init
                          ELSE Finder!InitWith([f \in Files |-> Finder!Absent])
  /\ IF active = "catalogs"
       THEN Catalogs!Init
       ELSE Catalogs!InitWith([p \in Paths |-> Catalogs!Nothing], "ContentDedup")
  /\ Carving!Init
  /\ Stripper!Init

(* Whatever is not the active part rests. *)
Rests(part, itsVars) == IF active = part THEN TRUE ELSE UNCHANGED itsVars

Only(part) ==
  /\ active = part
  /\ UNCHANGED active
  /\ Rests("cleaners", cleanerVars)
  /\ Rests("rotation", rotationVars)
  /\ Rests("finder", finderVars)
  /\ Rests("catalogs", catalogVars)
  /\ Rests("carving", carvingVars)
  /\ Rests("stripper", stripperVars)

ReclaimNext ==
  \/ Only("cleaners") /\ Next
  \/ Only("rotation") /\ Rotation!Next
  \/ Only("finder") /\ Finder!Next
  \/ Only("catalogs") /\ Catalogs!Next
  \/ Only("carving") /\ Carving!Next
  \/ Only("stripper") /\ Stripper!Next

ReclaimSpec == ReclaimInit /\ [][ReclaimNext]_allVars

-----------------------------------------------------------------------------
(* BackupRotator: every recent year, month and week keeps a backup, and    *)
(* the newest of all stays, whatever was rotated when, wholly or in part.  *)
RecentPeriodsSurvive == Rotation!RecentPeriodsSurvive

(* DuplicateFinder: what is reported are the classes of equal files, each  *)
(* file once, also if files change during the scan.                        *)
GroupsAreEqualFiles == Finder!GroupsAreEqualFiles

(* The catalogs: who deletes what they suggest keeps one copy of all that  *)
(* was added and not written to since.                                     *)
OneCopySurvives == Catalogs!OneCopySurvives

(* FileCarvingBlocker: a scrubbed buffer holds no signature, if the fill   *)
(* byte occurs in none, and is otherwise as it was.                        *)
NoSignatureLeft == Carving!NoSignatureLeft

=============================================================================
