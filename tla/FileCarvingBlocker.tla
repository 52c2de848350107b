------------------------ MODULE FileCarvingBlocker ------------------------
(***************************************************************************)
(* file_carving_blocker::FileCarvingBlocker::scrub                         *)
(* (src/file_carving_blocker.rs): all occurrences of the signatures in a   *)
(* buffer are collected before the first one is filled, for two may        *)
(* overlap. Bytes are small numbers. The pseudo-random fill is any bytes;  *)
(* the report is how many occurrences and bytes were filled.               *)
(***************************************************************************)
EXTENDS Integers, Sequences, FiniteSets, Functions

CONSTANTS Bytes, Length, SignatureSets, Fills, PseudoRandom

VARIABLES buf, signatures, fill, phase, todo, report, before

vars == <<buf, signatures, fill, phase, todo, report, before>>

(* Does the magic m begin at the byte i of the buffer s? *)
MatchesAt(s, m, i) == i + Len(m) - 1 <= Len(s) /\ SubSeq(s, i, i + Len(m) - 1) = m

(* Slip: the last position a signature fits at is not looked at. *)
PositionsButLast(s, m) == 1..(Len(s) - Len(m))

Positions(s, m) == 1..(Len(s) - Len(m) + 1)

(* From left to right; after a hit the search goes on behind it.           *)
Hits(s, m) ==
  LET From[i \in 1..(Len(s) + 1)] ==
        IF i \notin Positions(s, m) THEN {}
        ELSE IF MatchesAt(s, m, i) THEN {<<i, Len(m)>>} \cup From[i + Len(m)]
        ELSE From[i + 1]
  IN  IF m = <<>> THEN {} ELSE From[1]

AllHits(s, sigs) == UNION {{<<h, m>> : h \in Hits(s, m)} : m \in sigs}

ContainsSignature(s) == \E m \in signatures : m # <<>> /\ \E i \in 1..Len(s) : MatchesAt(s, m, i)

Init ==
  /\ buf = <<>> /\ before = <<>> /\ signatures = {} /\ fill = PseudoRandom
  /\ phase = "idle" /\ todo = {}
  /\ report = [signatures_found |-> 0, bytes_scrubbed |-> 0]

(* The call: what the buffer holds, what it is searched for, and the fill. *)
Scrub(contents, sigs, byte) ==
  /\ buf' = contents /\ before' = contents /\ signatures' = sigs /\ fill' = byte
  /\ phase' = "filling" /\ todo' = AllHits(contents, sigs)
  /\ UNCHANGED report

Filled(h, byte) == [i \in DOMAIN buf |-> IF i \in h[1]..(h[1] + h[2] - 1) THEN byte ELSE buf[i]]

(* The hits of each signature in turn: here in any order. *)
FillRange(hit) ==
  /\ phase = "filling" /\ hit \in todo
  /\ IF fill = PseudoRandom
       THEN \E s \in [hit[1][1]..(hit[1][1] + hit[1][2] - 1) -> Bytes] :
              buf' = [i \in DOMAIN buf |-> IF i \in DOMAIN s THEN s[i] ELSE buf[i]]
       ELSE buf' = Filled(hit[1], fill)
  /\ todo' = todo \ {hit}
  /\ report' = [signatures_found |-> report.signatures_found + 1,
                bytes_scrubbed |-> report.bytes_scrubbed + hit[1][2]]
  /\ UNCHANGED <<signatures, fill, phase, before>>

Finish ==
  /\ phase = "filling" /\ todo = {}
  /\ phase' = "scrubbed"
  /\ UNCHANGED <<buf, signatures, fill, todo, report, before>>

Next ==
  \/ /\ phase = "idle"
     /\ \E contents \in [1..Length -> Bytes], sigs \in SignatureSets, byte \in Fills :
          Scrub(contents, sigs, byte)
  \/ (\E hit \in todo : FillRange(hit))
  \/ Finish

-----------------------------------------------------------------------------
(* The bytes that were part of a signature, each occurrence counted.       *)
InSignature(i) ==
  \E m \in signatures : \E j \in 1..Length :
    m # <<>> /\ MatchesAt(before, m, j) /\ i \in j..(j + Len(m) - 1)

(* If the fill byte occurs in no signature, no signature is left in a      *)
(* scrubbed buffer, though hits overlap and overlapping occurrences of one *)
(* signature are not all hit. Whatever it is filled with, a byte that was  *)
(* in no signature is as it was, and the report counts no byte too few.    *)
(* With a fill byte a signature holds, filling may complete a new one.     *)
NoSignatureLeft ==
  phase = "scrubbed" =>
    /\ (fill # PseudoRandom /\ \A m \in signatures : fill \notin Range(m)) => ~ContainsSignature(buf)
    /\ \A i \in 1..Length : ~InSignature(i) => buf[i] = before[i]
    /\ Cardinality({i \in 1..Length : buf[i] # before[i]}) <= report.bytes_scrubbed
=============================================================================
